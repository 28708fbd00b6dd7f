------------------------------ MODULE Backups ------------------------------
(***************************************************************************)
(* BackupService.create_backup, BackupVerificationService and              *)
(* BackupRetentionPolicy: three processes that share the rows of the       *)
(* backups and the files in the storage.  Every statement is a transaction *)
(* of its own; a file is written and deleted apart from the rows.  The     *)
(* storage may err: S3CompatibleStorage then says that a file is not there *)
(* and does not say that it has not deleted one.                           *)
(***************************************************************************)
EXTENDS Integers, FiniteSets

CONSTANTS BackupSessions,   \* the backups the PRO users start
          Verifiers,        \* runs of verify_all_backups
          Sweepers,         \* runs of run_retention_cleanup
          BackupFaults      \* bound: processes that die, files that are lost,
                            \* deletions that fail and errors of the storage

ASSUME BackupAssumption == BackupSessions # {} /\ BackupFaults \in Nat

\* The age of a backup as the policy tells it apart: at most 7, 28 and 365
\* days, and older.
Ages == {7, 28, 365, 366}
Older(age) == CASE age = 7 -> 28 [] age = 28 -> 365 [] OTHER -> 366

VARIABLES backup,   \* the BackupSession rows with their calendar day and age
          artifact, \* the BackupArtifact rows
          file,     \* the files in the storage
          maker,    \* the requests that create the backups
          result,   \* the BackupVerificationResult rows
          verifier, sweeper,
          erred,    \* the backups whose file the storage hid or did not delete
          faults    \* how many of the bounded faults happened

backupVars == <<backup, artifact, file, maker, result, verifier, sweeper, erred, faults>>

Backup == [status : {"none", "PENDING", "PROCESSING", "COMPLETED", "FAILED", "deleted"},
           day : {"sunday", "first", "other"}, age : Ages]

BackupTypeOK ==
  /\ backup \in [BackupSessions -> Backup]
  /\ artifact \subseteq BackupSessions
  /\ file \in [BackupSessions -> {"none", "stored", "lost"}]
  /\ maker \in [BackupSessions -> {"idle", "created", "started", "stored", "completed",
                                   "filed", "done", "died"}]
  /\ result \in [BackupSessions -> SUBSET {"success", "failed"}]
  /\ verifier \in [Verifiers -> [at : {"idle", "listed", "read"}, on : BackupSessions,
                                 todo : SUBSET BackupSessions, seen : BOOLEAN]]
  /\ sweeper \in [Sweepers -> [at : {"idle", "listed", "unfiled"}, on : BackupSessions,
                               todo : SUBSET BackupSessions, found : SUBSET BackupSessions]]
  /\ erred \subseteq BackupSessions \X {"hidden", "left"}
  /\ faults \in 0..BackupFaults

AnyBackup == CHOOSE b \in BackupSessions : TRUE
IdleVerifier == [at |-> "idle", on |-> AnyBackup, todo |-> {}, seen |-> FALSE]
IdleSweeper == [at |-> "idle", on |-> AnyBackup, todo |-> {}, found |-> {}]

BackupInit ==
  /\ backup = [b \in BackupSessions |-> [status |-> "none", day |-> "other", age |-> 7]]
  /\ artifact = {}
  /\ file = [b \in BackupSessions |-> "none"]
  /\ maker = [b \in BackupSessions |-> "idle"]
  /\ result = [b \in BackupSessions |-> {}]
  /\ verifier = [v \in Verifiers |-> IdleVerifier]
  /\ sweeper = [w \in Sweepers |-> IdleSweeper]
  /\ erred = {} /\ faults = 0
-----------------------------------------------------------------------------
(* create_backup *)

\* The row of a request that has begun, and the statement it is after.
Reach(b, from, to, status) ==
  /\ maker[b] = from
  /\ maker' = [maker EXCEPT ![b] = to]
  /\ backup' = [backup EXCEPT ![b].status = status]

StartBackup(b, d) ==
  /\ maker[b] = "idle"
  /\ maker' = [maker EXCEPT ![b] = "created"]
  /\ backup' = [backup EXCEPT ![b].status = "PENDING", ![b].day = d]
  /\ UNCHANGED <<artifact, file, result, verifier, sweeper, erred, faults>>

ProcessBackup(b) ==
  /\ Reach(b, "created", "started", "PROCESSING")
  /\ UNCHANGED <<artifact, file, result, verifier, sweeper, erred, faults>>

StoreBackup(b) ==
  /\ Reach(b, "started", "stored", "PROCESSING")
  /\ file' = [file EXCEPT ![b] = "stored"]
  /\ UNCHANGED <<artifact, result, verifier, sweeper, erred, faults>>

CompleteBackup(b) ==
  /\ Reach(b, "stored", "completed", "COMPLETED")
  /\ UNCHANGED <<artifact, file, result, verifier, sweeper, erred, faults>>

FileBackup(b) ==
  /\ Reach(b, "completed", "filed", "COMPLETED")
  /\ artifact' = artifact \cup {b}
  /\ UNCHANGED <<file, result, verifier, sweeper, erred, faults>>

\* The audit row: nothing else changes.
EndBackup(b) ==
  /\ Reach(b, "filed", "done", "COMPLETED")
  /\ UNCHANGED <<artifact, file, result, verifier, sweeper, erred, faults>>

\* A statement raises: the handler makes the session FAILED, whatever has been
\* stored.  Mutant: a handler that leaves the status.
OnErrorLeft(b) == backup[b].status
OnError(b) == "FAILED"
FailBackup(b) ==
  /\ maker[b] \in {"created", "started", "stored", "completed", "filed"}
  /\ Reach(b, maker[b], "done", OnError(b))
  /\ UNCHANGED <<artifact, file, result, verifier, sweeper, erred, faults>>

\* The server process dies between two statements.
LoseMaker(b) ==
  /\ maker[b] \in {"created", "started", "stored", "completed", "filed"}
  /\ faults < BackupFaults /\ faults' = faults + 1
  /\ maker' = [maker EXCEPT ![b] = "died"]
  /\ UNCHANGED <<backup, artifact, file, result, verifier, sweeper, erred>>

\* A request lasts minutes, a step of the age days.
AgeBackup(b) ==
  /\ maker[b] \in {"done", "died"} /\ backup[b].status # "deleted"
  /\ backup' = [backup EXCEPT ![b].age = Older(@)]
  /\ UNCHANGED <<artifact, file, maker, result, verifier, sweeper, erred, faults>>

\* The storage loses or corrupts a file.
LoseFile(b) ==
  /\ file[b] = "stored"
  /\ faults < BackupFaults /\ faults' = faults + 1
  /\ file' = [file EXCEPT ![b] = "lost"]
  /\ UNCHANGED <<backup, artifact, maker, result, verifier, sweeper, erred>>
-----------------------------------------------------------------------------
(* verify_all_backups *)

ListArtifacts(v) ==
  /\ verifier[v].at = "idle" /\ artifact # {}
  /\ verifier' = [verifier EXCEPT ![v].at = "listed", ![v].todo = artifact]
  /\ UNCHANGED <<backup, artifact, file, maker, result, sweeper, erred, faults>>

EndVerify(v) ==
  /\ verifier[v].at = "listed" /\ verifier[v].todo = {}
  /\ verifier' = [verifier EXCEPT ![v] = IdleVerifier]
  /\ UNCHANGED <<backup, artifact, file, maker, result, sweeper, erred, faults>>

\* The artifact is fetched again by its id, and skipped if it is gone; then its
\* file is looked for, read, and compared.
ReadBackup(v, b) ==
  /\ verifier[v].at = "listed" /\ b \in verifier[v].todo
  /\ verifier' = IF b \in artifact
       THEN [verifier EXCEPT ![v].at = "read", ![v].on = b, ![v].seen = file[b] = "stored"]
       ELSE [verifier EXCEPT ![v].todo = @ \ {b}]
  /\ UNCHANGED <<backup, artifact, file, maker, result, sweeper, erred, faults>>

\* The storage errs: whatever the file, it is not found or not read, which is a
\* failed verification like any other.
MisreadBackup(v, b) ==
  /\ verifier[v].at = "listed" /\ b \in verifier[v].todo \cap artifact
  /\ faults < BackupFaults /\ faults' = faults + 1
  /\ verifier' = [verifier EXCEPT ![v].at = "read", ![v].on = b, ![v].seen = FALSE]
  /\ erred' = erred \cup {<<b, "hidden">>}
  /\ UNCHANGED <<backup, artifact, file, maker, result, sweeper>>

\* The verdict is recorded; without the artifact's row that raises, and the
\* whole run ends.
RecordVerdict(v) ==
  LET b == verifier[v].on
  IN /\ verifier[v].at = "read"
     /\ IF b \in artifact
        THEN /\ result' = [result EXCEPT ![b] =
                  @ \cup {IF verifier[v].seen THEN "success" ELSE "failed"}]
             /\ verifier' = [verifier EXCEPT ![v].at = "listed", ![v].todo = @ \ {b}]
        ELSE verifier' = [verifier EXCEPT ![v] = IdleVerifier] /\ UNCHANGED result
     /\ UNCHANGED <<backup, artifact, file, maker, sweeper, erred, faults>>
-----------------------------------------------------------------------------
(* run_retention_cleanup *)

\* The rules that retain a backup.  Mutant: the weekly rule is left out.
RetainedTwice(b) ==
  \/ backup[b].age = 7
  \/ backup[b].age <= 365 /\ backup[b].day = "first"
Retained(b) ==
  \/ backup[b].age = 7
  \/ backup[b].age <= 28 /\ backup[b].day = "sunday"
  \/ backup[b].age <= 365 /\ backup[b].day = "first"

\* The query reads the completed sessions and their artifacts once; the ages
\* are those of the start of the run.
ListBackups(w) ==
  LET S == {b \in BackupSessions : backup[b].status = "COMPLETED" /\ ~Retained(b)}
  IN /\ sweeper[w].at = "idle" /\ S # {}
     /\ sweeper' = [sweeper EXCEPT ![w].at = "listed", ![w].todo = S,
                                   ![w].found = artifact]
     /\ UNCHANGED <<backup, artifact, file, maker, result, verifier, erred, faults>>

EndSweep(w) ==
  /\ sweeper[w].at = "listed" /\ sweeper[w].todo = {}
  /\ sweeper' = [sweeper EXCEPT ![w] = IdleSweeper]
  /\ UNCHANGED <<backup, artifact, file, maker, result, verifier, erred, faults>>

\* storage.delete: a file that is not there is not an error.  Mutant: it is.
DeletableStored(b) == file[b] # "none"
Deletable(b) == TRUE
DeleteFile(w, b) ==
  /\ sweeper[w].at = "listed" /\ b \in sweeper[w].todo \cap sweeper[w].found
  /\ Deletable(b)
  /\ file' = [file EXCEPT ![b] = "none"]
  /\ sweeper' = [sweeper EXCEPT ![w].at = "unfiled", ![w].on = b]
  /\ UNCHANGED <<backup, artifact, maker, result, verifier, erred, faults>>

\* The storage errs: the file stays, and the run goes on as if it were gone.
LeaveFile(w, b) ==
  /\ sweeper[w].at = "listed" /\ b \in sweeper[w].todo \cap sweeper[w].found
  /\ faults < BackupFaults /\ faults' = faults + 1
  /\ sweeper' = [sweeper EXCEPT ![w].at = "unfiled", ![w].on = b]
  /\ erred' = erred \cup {<<b, "left">>}
  /\ UNCHANGED <<backup, artifact, file, maker, result, verifier>>

\* backup.delete() takes the artifact and the results with it; a row that is
\* gone already is not an error.
DeleteBackup(w, b) ==
  /\ \/ sweeper[w].at = "unfiled" /\ sweeper[w].on = b
     \/ sweeper[w].at = "listed" /\ b \in sweeper[w].todo \ sweeper[w].found
  /\ backup' = [backup EXCEPT ![b].status = "deleted"]
  /\ artifact' = artifact \ {b}
  /\ result' = [result EXCEPT ![b] = {}]
  /\ sweeper' = [sweeper EXCEPT ![w].at = "listed", ![w].todo = @ \ {b}]
  /\ UNCHANGED <<file, maker, verifier, erred, faults>>

\* The deletion of a file or a row raises: it is logged, the run goes on.
SkipBackup(w, b) ==
  /\ \/ sweeper[w].at = "unfiled" /\ sweeper[w].on = b
     \/ sweeper[w].at = "listed" /\ b \in sweeper[w].todo
  /\ faults < BackupFaults /\ faults' = faults + 1
  /\ sweeper' = [sweeper EXCEPT ![w].at = "listed", ![w].todo = @ \ {b}]
  /\ UNCHANGED <<backup, artifact, file, maker, result, verifier, erred>>

\* The worker dies between two statements.
LoseSweeper(w) ==
  /\ sweeper[w].at # "idle"
  /\ faults < BackupFaults /\ faults' = faults + 1
  /\ sweeper' = [sweeper EXCEPT ![w] = IdleSweeper]
  /\ UNCHANGED <<backup, artifact, file, maker, result, verifier, erred>>

AdvanceSweep(w) ==
  \/ ListBackups(w) \/ EndSweep(w)
  \/ \E b \in BackupSessions : DeleteFile(w, b) \/ DeleteBackup(w, b)

BackupNext ==
  \/ \E b \in BackupSessions :
       \/ \E d \in {"sunday", "first", "other"} : StartBackup(b, d)
       \/ ProcessBackup(b) \/ StoreBackup(b) \/ CompleteBackup(b) \/ FileBackup(b)
       \/ EndBackup(b) \/ FailBackup(b) \/ LoseMaker(b) \/ AgeBackup(b) \/ LoseFile(b)
  \/ \E v \in Verifiers :
       \/ ListArtifacts(v) \/ EndVerify(v) \/ RecordVerdict(v)
       \/ \E b \in BackupSessions : ReadBackup(v, b) \/ MisreadBackup(v, b)
  \/ \E w \in Sweepers :
       \/ AdvanceSweep(w) \/ LoseSweeper(w)
       \/ \E b \in BackupSessions : SkipBackup(w, b) \/ LeaveFile(w, b)

\* ops-retention-cleanup runs every day and goes through its list.
BackupFairness == \A w \in Sweepers : WF_backupVars(AdvanceSweep(w))

BackupSpec == BackupInit /\ [][BackupNext]_backupVars /\ BackupFairness
-----------------------------------------------------------------------------
(* Properties *)

\* docs/OPERATIONS.md: the daily, weekly and monthly backups that are kept.
Kept(b) ==
  \/ backup[b].age = 7
  \/ backup[b].day = "sunday" /\ backup[b].age = 28
  \/ backup[b].day = "first" /\ backup[b].age \in {28, 365}

\* A completed backup that the policy keeps has its artifact and its file,
\* whatever runs and deaths there were, unless the storage lost the file or the
\* request died or is still between the status and the artifact.
KeptBackupsReadable ==
  \A b \in BackupSessions :
    backup[b].status = "COMPLETED" /\ Kept(b) /\ maker[b] \notin {"completed", "died"} =>
      b \in artifact /\ file[b] # "none"

\* A verification that failed tells of a file the storage lost or hid, or of a
\* backup the retention was free to delete: no verification races the creation.
NoFalseAlarm ==
  \A b \in BackupSessions :
    "failed" \in result[b] => file[b] = "lost" \/ <<b, "hidden">> \in erred \/ ~Kept(b)

\* Whatever is interrupted between the file and the row, a completed backup
\* older than a year goes.
OldBackupsGo ==
  \A b \in BackupSessions :
    backup[b].status = "COMPLETED" /\ backup[b].age = 366 ~>
      backup[b].status # "COMPLETED"
=============================================================================
