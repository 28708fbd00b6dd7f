----------------------------- MODULE JobRunner -----------------------------
(***************************************************************************)
(* Background jobs: the job table, the web requests that submit and cancel *)
(* a job, the Celery broker and the workers that run run_job_task.         *)
(*                                                                         *)
(* Every save of a Job but one writes all its columns from the copy the    *)
(* saver holds, so the copies are part of the state.  A task message is    *)
(* acknowledged when a worker receives it (acks_late is off): a worker     *)
(* that dies loses it.  The temporary upload of a job lives from its       *)
(* submission until the task removes it.                                   *)
(***************************************************************************)
EXTENDS Integers

CONSTANTS Jobs,          \* the jobs that may be submitted
          Workers,       \* the Celery worker processes
          MaxRetries,    \* max_retries of run_job_task
          ImportUnits,   \* the chunks of an import, the images of a reupload
          Consumed       \* the queues of the broker the workers read

ASSUME JobAssumption == MaxRetries \in Nat /\ ImportUnits \in Nat \ {0}

VARIABLES job,        \* the job row
          events,     \* the types of its JobEvent rows
          file,       \* does its temporary upload exist?
          committed,  \* the units of its work whose transaction committed
          view,       \* the request that submits it, with the copy it holds
          cancel,     \* the request that cancels it, with the copy it holds
          queue,      \* the messages at the broker
          worker,     \* the task each worker runs
          revoked,    \* the jobs whose task id the workers were told to revoke
          lost,       \* the jobs whose task died with its worker
          skipped,    \* the images its reupload session counted as failed
          refused,    \* the jobs whose import session ended FAILED
          unremoved   \* the jobs whose upload could not be removed

outcome == <<skipped, refused, unremoved>>

vars == <<job, events, file, committed, view, cancel, queue, worker, revoked, lost,
          outcome>>

\* Upload or replacement and deletion of an image, import of a workbook, import
\* of a workbook without a header row, reupload of the images of an archive,
\* export.
Type == {"image", "delete", "import", "blank", "reupload", "export"}

\* The jobs of the import endpoints, over many rows or images; the jobs that
\* read a temporary upload; the queue a job's message goes to.
Batch == {"import", "blank", "reupload"}
Uploads == {"image"} \cup Batch
QueueOf(type) == IF type \in {"image", "delete"} THEN "images" ELSE "default"

Final == {"COMPLETED", "FAILED", "CANCELLED"}
JobStatus == {"QUEUED", "RUNNING"} \cup Final
EventType == {"QUEUED", "STARTED", "PROGRESS"} \cup Final

\* The columns that matter: the status and whether celery_task_id is set.
Row == [type : Type, status : JobStatus, task : BOOLEAN]
NoRow == [type |-> "none", status |-> "none", task |-> FALSE]

\* One image and one artifact are one unit of work, a batch has several, and a
\* workbook without a header row none.
Units(type) == CASE type = "blank"                -> {}
                 [] type \in Batch \ {"blank"}   -> 1..ImportUnits
                 [] OTHER                         -> {1}

Message == [job : Jobs, retries : 0..MaxRetries]

\* A worker's task: the job, the attempt, how far it is, the Job object it
\* holds and the units this attempt is done with.
Task == [job : Jobs, retries : 0..MaxRetries, copy : Row,
         pc : {"taken", "ready", "committed", "finished", "cleaned"},
         units : SUBSET (1..ImportUnits)]
NoTask == [pc |-> "idle"]

\* Type correctness of the rows, the messages and the copies.
TypeOK ==
  /\ job \in [Jobs -> Row \cup {NoRow}]
  /\ events \in [Jobs -> SUBSET EventType]
  /\ file \in [Jobs -> BOOLEAN]
  /\ committed \in [Jobs -> SUBSET (1..ImportUnits)]
  /\ view \in [Jobs -> [at : {"start", "created", "sent", "done"},
                        copy : Row \cup {NoRow}]]
  /\ cancel \in [Jobs -> Row \cup {NoRow}]
  /\ queue \subseteq Message
  /\ worker \in [Workers -> Task \cup {NoTask}]
  /\ revoked \subseteq Jobs /\ lost \subseteq Jobs
  /\ skipped \in [Jobs -> SUBSET (1..ImportUnits)]
  /\ refused \subseteq Jobs /\ unremoved \subseteq Jobs

Init ==
  /\ job = [j \in Jobs |-> NoRow]
  /\ events = [j \in Jobs |-> {}]
  /\ file = [j \in Jobs |-> FALSE]
  /\ committed = [j \in Jobs |-> {}]
  /\ view = [j \in Jobs |-> [at |-> "start", copy |-> NoRow]]
  /\ cancel = [j \in Jobs |-> NoRow]
  /\ queue = {} /\ revoked = {} /\ lost = {}
  /\ worker = [w \in Workers |-> NoTask]
  /\ skipped = [j \in Jobs |-> {}]
  /\ refused = {} /\ unremoved = {}
-----------------------------------------------------------------------------
(* The request that submits a job *)

\* The upload is written to a temporary file and the row inserted.  Images go
\* through create_job; the others insert the row without an event.
Submit(j, type) ==
  LET row == [type |-> type, status |-> "QUEUED", task |-> FALSE]
  IN /\ view[j].at = "start"
     /\ job' = [job EXCEPT ![j] = row]
     /\ events' = [events EXCEPT ![j] = IF QueueOf(type) = "images" THEN {"QUEUED"}
                                          ELSE {}]
     /\ file' = [file EXCEPT ![j] = type \in Uploads]
     /\ view' = [view EXCEPT ![j] = [at |-> "created", copy |-> row]]
     /\ UNCHANGED <<committed, cancel, queue, worker, revoked, lost, outcome>>

\* run_job_task.delay: the message is at the broker.  An export request ends
\* here, it keeps no task id.
Publish(j) ==
  /\ view[j].at = "created"
  /\ queue' = queue \cup {[job |-> j, retries |-> 0]}
  /\ view' = [view EXCEPT ![j].at = IF job[j].type = "export" THEN "done" ELSE "sent"]
  /\ UNCHANGED <<job, events, file, committed, cancel, worker, revoked, lost, outcome>>

\* The row the task id is stored with: images save that column, batches save
\* the copy made at submission.  Mutant: images do as batches.
WithTaskIdAll(j) == [view[j].copy EXCEPT !.task = TRUE]
WithTaskId(j) == IF job[j].type \in Batch THEN [view[j].copy EXCEPT !.task = TRUE]
                 ELSE [job[j] EXCEPT !.task = TRUE]

StoreTaskId(j) ==
  /\ view[j].at = "sent"
  /\ job' = [job EXCEPT ![j] = WithTaskId(j)]
  /\ view' = [view EXCEPT ![j].at = "done"]
  /\ UNCHANGED <<events, file, committed, cancel, queue, worker, revoked, lost,
                 outcome>>
-----------------------------------------------------------------------------
(* POST /jobs/{j}/cancel *)

\* The view fetches the job.
FetchToCancel(j) ==
  /\ job[j] # NoRow /\ cancel[j] = NoRow
  /\ cancel' = [cancel EXCEPT ![j] = job[j]]
  /\ UNCHANGED <<job, events, file, committed, view, queue, worker, revoked, lost,
                 outcome>>

\* cancel_job: refused for a copy in a final status; the copy is saved, and
\* its task id, if it has one, revoked with terminate=True.
Cancel(j) ==
  /\ cancel[j] # NoRow
  /\ \/ /\ cancel[j].status \notin Final
        /\ job' = [job EXCEPT ![j] = [cancel[j] EXCEPT !.status = "CANCELLED"]]
        /\ events' = [events EXCEPT ![j] = @ \cup {"CANCELLED"}]
        /\ revoked' = IF cancel[j].task THEN revoked \cup {j} ELSE revoked
     \/ /\ cancel[j].status \in Final
        /\ UNCHANGED <<job, events, revoked>>
  /\ cancel' = [cancel EXCEPT ![j] = NoRow]
  /\ UNCHANGED <<file, committed, view, queue, worker, lost, outcome>>
-----------------------------------------------------------------------------
(* run_job_task *)

Idle(w) == worker[w] = NoTask
At(w, pc) == worker[w].pc = pc

\* A save of the worker's copy: all columns.
Saved(w, status) ==
  job' = [job EXCEPT ![worker[w].job] = [worker[w].copy EXCEPT !.status = status]]
Holding(w, status, pc) ==
  worker' = [worker EXCEPT ![w].copy.status = status, ![w].pc = pc]
Ended(w) == worker' = [worker EXCEPT ![w] = NoTask]
Logged(w, event) ==
  events' = [events EXCEPT ![worker[w].job] = @ \cup {event}]

\* The message leaves the broker when it is received.  Mutant: when it is done.
RemainingLate(m) == queue
Remaining(m) == queue \ {m}

\* A message of this job is not run.  Mutant: only a queued job is.
SkipsStarted(j) == j \in revoked \/ job[j].status # "QUEUED"
Skips(j) == j \in revoked \/ job[j].status = "CANCELLED"

\* A worker receives a message of a queue it reads: one of a revoked task is
\* dropped, one of a cancelled job does nothing, any other starts a task with a
\* copy of the job.
Take(w, m) ==
  /\ Idle(w) /\ m \in queue /\ QueueOf(job[m.job].type) \in Consumed
  /\ queue' = Remaining(m)
  /\ worker' = IF Skips(m.job) THEN worker
               ELSE [worker EXCEPT ![w] =
                       [job |-> m.job, retries |-> m.retries, copy |-> job[m.job],
                        pc |-> "taken", units |-> {}]]
  /\ UNCHANGED <<job, events, file, committed, view, cancel, revoked, lost, outcome>>

\* start_job.
Start(w) ==
  /\ At(w, "taken")
  /\ Saved(w, "RUNNING")
  /\ Logged(w, "STARTED")
  /\ Holding(w, "RUNNING", "ready")
  /\ UNCHANGED <<file, committed, view, cancel, queue, revoked, lost, outcome>>

\* update_progress, between the units of work and after the last.
Report(w) ==
  /\ At(w, "ready") \/ At(w, "finished")
  /\ Saved(w, worker[w].copy.status)
  /\ Logged(w, "PROGRESS")
  /\ UNCHANGED <<file, committed, view, cancel, queue, worker, revoked, lost, outcome>>

\* With unit u the work left is done.  Mutant: the last chunk is forgotten.
DoneEarly(left, u) == TRUE
DoneWith(left, u) == left = {u}

\* One transaction of the job's work.  A job with an upload reads it, and raises
\* if it is gone.  A chunk of an import is followed by a check for
\* cancellation, except a last one that is not full.
Work(w) ==
  LET t == worker[w]
      left == Units(t.copy.type) \ t.units
  IN /\ At(w, "ready")
     /\ t.copy.type \in Uploads => file[t.job]
     /\ \E u \in left, pc \in {"ready", "committed", "finished"} :
          /\ \A v \in left : u <= v
          /\ pc = "ready" => t.copy.type = "reupload" /\ left # {u}
          /\ pc = "committed" => t.copy.type = "import"
          /\ pc = "finished" => DoneWith(left, u)
          /\ committed' = [committed EXCEPT ![t.job] = @ \cup {u}]
          /\ worker' = [worker EXCEPT ![w].units = @ \cup {u}, ![w].pc = pc]
     /\ refused' = refused \ {t.job}
     /\ UNCHANGED <<job, events, file, view, cancel, queue, revoked, lost, skipped,
                    unremoved>>

\* An image of a reupload that matches no card, or whose replacement raises: the
\* session counts it as failed and the loop goes on.
Counted(j, u) == [skipped EXCEPT ![j] = @ \cup {u}]

Skip(w) ==
  LET t == worker[w]
      left == Units(t.copy.type) \ t.units
  IN /\ At(w, "ready") /\ t.copy.type = "reupload" /\ file[t.job]
     /\ \E u \in left :
          /\ \A v \in left : u <= v
          /\ skipped' = Counted(t.job, u)
          /\ worker' = [worker EXCEPT ![w].units = @ \cup {u},
                                      ![w].pc = IF left = {u} THEN "finished"
                                                ELSE "ready"]
     /\ UNCHANGED <<job, events, file, committed, view, cancel, queue, revoked, lost,
                    refused, unremoved>>

\* A workbook without a header row: the session ends FAILED, the import returns
\* and the task goes on as after a complete one.
Refuse(w) ==
  /\ At(w, "ready") /\ worker[w].copy.type = "blank" /\ file[worker[w].job]
  /\ worker' = [worker EXCEPT ![w].pc = "finished"]
  /\ refused' = refused \cup {worker[w].job}
  /\ UNCHANGED <<job, events, file, committed, view, cancel, queue, revoked, lost,
                 skipped, unremoved>>

\* After a chunk an import refreshes its copy, and returns with a FAILED session
\* if it was cancelled; the task then goes on as after a complete import.
CheckCancelled(w) ==
  LET t == worker[w]
      now == job[t.job]
      over == now.status = "CANCELLED" \/ t.units = Units(t.copy.type)
  IN /\ At(w, "committed")
     /\ worker' = [worker EXCEPT ![w].copy = now,
                                 ![w].pc = IF over THEN "finished" ELSE "ready"]
     /\ refused' = IF now.status = "CANCELLED" THEN refused \cup {t.job} ELSE refused
     /\ UNCHANGED <<job, events, file, committed, view, cancel, queue, revoked, lost,
                    skipped, unremoved>>

\* The upload is removed; an error of os.remove is ignored.  Mutant: it is not
\* even tried.
RemovalForgotten(j) == UNCHANGED <<file, unremoved>>
Removal(j) ==
  \/ file' = [file EXCEPT ![j] = FALSE] /\ UNCHANGED unremoved
  \/ file[j] /\ UNCHANGED file /\ unremoved' = unremoved \cup {j}

\* The upload is removed, then complete_job.
CleanUp(w) ==
  /\ At(w, "finished")
  /\ Removal(worker[w].job)
  /\ worker' = [worker EXCEPT ![w].pc = "cleaned"]
  /\ UNCHANGED <<job, events, committed, view, cancel, queue, revoked, lost, skipped,
                 refused>>

Complete(w) ==
  /\ At(w, "cleaned")
  /\ Saved(w, "COMPLETED")
  /\ Logged(w, "COMPLETED")
  /\ Ended(w)
  /\ UNCHANGED <<file, committed, view, cancel, queue, revoked, lost, outcome>>

\* The task has a retry left.  Mutant: off by one.
MayRetryAgain(t) == t.retries <= MaxRetries
MayRetry(t) == t.retries < MaxRetries

\* An exception after start_job (a refused file, an error of the database or
\* the storage, the soft time limit) while a retry is left.
Retry(w) ==
  /\ ~Idle(w) /\ ~At(w, "taken")
  /\ MayRetry(worker[w])
  /\ queue' = queue \cup {[job |-> worker[w].job, retries |-> worker[w].retries + 1]}
  /\ Ended(w)
  /\ UNCHANGED <<job, events, file, committed, view, cancel, revoked, lost, outcome>>

\* An exception without a retry left: clean up, fail_job saves the copy.
Fail(w) ==
  /\ ~Idle(w) /\ ~At(w, "taken")
  /\ ~MayRetry(worker[w])
  /\ Removal(worker[w].job)
  /\ Saved(w, "FAILED")
  /\ Logged(w, "FAILED")
  /\ Ended(w)
  /\ UNCHANGED <<committed, view, cancel, queue, revoked, lost, skipped, refused>>

\* The worker process is killed (hard time limit, terminate of a revoked task,
\* restart, out of memory), or the task raises outside its handler.
Die(w) ==
  /\ ~Idle(w)
  /\ lost' = lost \cup {worker[w].job}
  /\ Ended(w)
  /\ UNCHANGED <<job, events, file, committed, view, cancel, queue, revoked, outcome>>

Advance(w) ==
  \/ \E m \in queue : Take(w, m)
  \/ Start(w) \/ Work(w) \/ Skip(w) \/ Refuse(w) \/ CheckCancelled(w)
  \/ CleanUp(w) \/ Complete(w) \/ Retry(w) \/ Fail(w)

Next ==
  \/ \E j \in Jobs : \/ \E type \in Type : Submit(j, type)
                     \/ Publish(j) \/ StoreTaskId(j)
                     \/ FetchToCancel(j) \/ Cancel(j)
  \/ \E w \in Workers : Advance(w) \/ Report(w) \/ Die(w)

\* The workers keep running their tasks; nothing is assumed of the requests.
Fairness == \A w \in Workers : WF_vars(Advance(w))

Spec == Init /\ [][Next]_vars /\ Fairness
-----------------------------------------------------------------------------
(* Properties *)

\* The tasks of a job: its messages, and the workers that run it.
Tasks(j) == {m \in queue : m.job = j}
Runners(j) == {w \in Workers : ~Idle(w) /\ worker[w].job = j}

\* No two attempts of a job are ever under way, whatever retries, deaths and
\* late saves do.
OneAttempt ==
  \A j \in Jobs :
    /\ \A m, n \in Tasks(j) : m = n
    /\ \A v, w \in Runners(j) : v = w
    /\ Tasks(j) = {} \/ Runners(j) = {}

\* A job that says COMPLETED is done with all its work: each unit was committed,
\* or it is an image its reupload session counts as failed; an import that
\* stopped early, cancelled or without a header row, has a session that says
\* FAILED.
CompletedDidWork ==
  \A j \in Jobs : job[j].status = "COMPLETED" =>
    committed[j] \cup skipped[j] = Units(job[j].type) \/ j \in refused

\* A job that says COMPLETED or FAILED left no temporary upload behind, unless
\* the system refused to remove it, which the task ignores.
FinishedLeavesNoFile ==
  \A j \in Jobs : job[j].status \in {"COMPLETED", "FAILED"}
                    => ~file[j] \/ j \in unremoved

\* What the end of a job says stays, but for a cancellation that read the job
\* before: no retry, late task id or progress report takes it back.  (The
\* request of a batch may: ImportStatesForward.)
FinishedStaysFinished ==
  [][\A j \in Jobs :
       job[j].type \notin Batch /\ job[j].status \in {"COMPLETED", "FAILED"}
         => job'[j].status \in {job[j].status, "CANCELLED"}]_vars

\* A published job that is no batch ends in a final status, unless its task was
\* lost with a worker or revoked.
PublishedJobsEnd ==
  \A j \in Jobs :
    view[j].at \in {"sent", "done"} /\ job[j].type \notin Batch
      ~> job[j].status \in Final \/ j \in lost \cup revoked

\* The states of an import go forward (docs/IMPORTS.md).  The request that
\* submitted it saves its old copy when it stores the task id.
Stage(status) == CASE status = "QUEUED"  -> 0
                   [] status = "RUNNING" -> 1
                   [] OTHER              -> 2
ImportStatesForward ==
  [][\A j \in Jobs : job[j].type = "import" /\ events[j] \cap {"CANCELLED"} = {}
       => Stage(job[j].status) <= Stage(job'[j].status)]_vars
=============================================================================
