----------------------------- MODULE ExportRun -----------------------------
(***************************************************************************)
(* An export of cards: ExportService.process_export and the attempts       *)
(* run_job_task makes at it, while other requests edit, move, delete and   *)
(* restore the same cards and save copies of them they read before.        *)
(*                                                                         *)
(* An attempt holds the Card objects it read at its start.  It files them, *)
(* and only then moves those that are APPROVED to DOWNLOADED, saving every *)
(* column of its objects.  A file is the text data it shows of each card   *)
(* in it; names, layout and images are left out.  The renderers read the   *)
(* images from MediaReference as they go, not from the Card objects: all   *)
(* a ZIP archive holds of a card is such images, or nothing when none can  *)
(* be read.                                                                *)
(***************************************************************************)
EXTENDS WorkflowRules, Integers

CONSTANTS ExportCards,      \* the cards of the table
          ExportSessions,   \* the sessions that may be started
          ExportScopes,     \* the options a session may be started with
          ExportRetries,    \* max_retries of run_job_task
          ExportRequests,   \* the workers that serve other requests
          ExportEdits       \* bound: the edits of a card

\* The type and the options as the view builds them: card_ids, and the status
\* filter or None.  "document" is PDF, DOCX or XLSX.
ExportType == {"document", "zip"}
ExportScope ==
  [type : ExportType, ids : SUBSET ExportCards, status : Status \cup {None}]

ASSUME ExportAssumption ==
  /\ ExportScopes \subseteq ExportScope
  /\ ExportRetries \in Nat /\ ExportEdits \in Nat
  /\ None \notin ExportSessions

VARIABLES exportCard,   \* the card rows
          mover,        \* the session whose marking gave a card its present status
          held,         \* the row another request has read, to save it later
          session,      \* the ExportSession rows
          filed,        \* the cards in any ExportArtifact of a session
          newest,       \* the artifact a download streams: the one stored last
          attempt       \* the task of a session, with the Card objects it holds

exportVars == <<exportCard, mover, held, session, filed, newest, attempt>>

Document == 0..ExportEdits
CardRow == [status : Status, data : Document]
NotIn == [status |-> None, data |-> 0]

\* What a request holds of a card.
Held == [card : ExportCards \cup {None}, row : CardRow \cup {NotIn}]
NoHeld == [card |-> None, row |-> NotIn]

\* A file shows the data of each card in it, a set of copies the rows.
Copies == [ExportCards -> CardRow \cup {NotIn}]
NoCopies == [c \in ExportCards |-> NotIn]
In(copies) == {c \in ExportCards : copies[c] # NotIn}

SessionStatus == {"PENDING", "PROCESSING", "COMPLETED", "FAILED"}
NoScope == [type |-> "document", ids |-> {}, status |-> None]

\* An attempt: how far it is, the objects it has yet to use, and the card it
\* has just refreshed.
Attempt ==
  [at : {"none", "queued", "begun", "resolved", "marking", "moving", "stored", "over"},
   retries : 0..ExportRetries, copies : Copies, next : ExportCards \cup {None}]
NoAttempt(at, retries) ==
  [at |-> at, retries |-> retries, copies |-> NoCopies, next |-> None]

\* Type correctness of the rows, the files and the attempts.
ExportTypeOK ==
  /\ exportCard \in [ExportCards -> CardRow]
  /\ mover \in [ExportCards -> ExportSessions \cup {None}]
  /\ held \in [ExportRequests -> Held]
  /\ session \in [ExportSessions -> [status : SessionStatus \cup {None},
                                     options : ExportScope]]
  /\ filed \in [ExportSessions -> SUBSET ExportCards]
  /\ newest \in [ExportSessions -> Copies]
  /\ attempt \in [ExportSessions -> Attempt]

ExportInit ==
  /\ exportCard = [c \in ExportCards |-> [status |-> "APPROVED", data |-> 0]]
  /\ mover = [c \in ExportCards |-> None]
  /\ held = [r \in ExportRequests |-> NoHeld]
  /\ session = [s \in ExportSessions |-> [status |-> None, options |-> NoScope]]
  /\ filed = [s \in ExportSessions |-> {}]
  /\ newest = [s \in ExportSessions |-> NoCopies]
  /\ attempt = [s \in ExportSessions |-> NoAttempt("none", 0)]
-----------------------------------------------------------------------------
(* Requests *)

\* POST /exports/sessions/: the session, its job and the message to a worker.
StartExport(s, options) ==
  /\ session[s].status = None
  /\ session' = [session EXCEPT ![s] = [status |-> "PENDING", options |-> options]]
  /\ attempt' = [attempt EXCEPT ![s] = NoAttempt("queued", 0)]
  /\ UNCHANGED <<exportCard, mover, held, filed, newest>>

\* Another request edits a card, with update_card: a check of the version in the
\* transaction keeps it from saving a row it did not read.
EditExported(c) ==
  /\ exportCard[c].status \in Live /\ exportCard[c].data < ExportEdits
  /\ exportCard' = [exportCard EXCEPT ![c].data = @ + 1]
  /\ UNCHANGED <<mover, held, session, filed, newest, attempt>>

\* All others save every column of the Card they have read before.
ReadExported(r, c) ==
  /\ held[r] = NoHeld
  /\ held' = [held EXCEPT ![r] = [card |-> c, row |-> exportCard[c]]]
  /\ UNCHANGED <<exportCard, mover, session, filed, newest, attempt>>

\* A save whose status is the copy's: an image is uploaded, deleted or restored
\* (no text changes), or a reprint's draft is written or its print recorded.
SavesAsRead(row, new) ==
  /\ new.status = row.status
  /\ new.data \in row.data..(row.data + 1)

\* A transition, a deletion or a restore: the text is the copy's.
SavesMoved(row, new) ==
  /\ new.data = row.data
  /\ \/ \E a \in Action : Target(row.status, a) = new.status
     \/ row.status = "DELETED" /\ new.status \in Live

SaveExported(r) ==
  /\ held[r] # NoHeld
  /\ \E new \in CardRow :
       LET c == held[r].card
       IN /\ SavesAsRead(held[r].row, new) \/ SavesMoved(held[r].row, new)
          /\ exportCard' = [exportCard EXCEPT ![c] = new]
          /\ mover' = IF new.status = exportCard[c].status THEN mover
                      ELSE [mover EXCEPT ![c] = None]
  /\ held' = [held EXCEPT ![r] = NoHeld]
  /\ UNCHANGED <<session, filed, newest, attempt>>
-----------------------------------------------------------------------------
(* process_export *)

ExportAt(s, at) == attempt[s].at = at
WithStatus(s, status) == session' = [session EXCEPT ![s].status = status]

\* A new attempt, with a new ExportSession object: PROCESSING.
BeginExport(s) ==
  /\ ExportAt(s, "queued")
  /\ WithStatus(s, "PROCESSING")
  /\ attempt' = [attempt EXCEPT ![s].at = "begun"]
  /\ UNCHANGED <<exportCard, mover, held, filed, newest>>

\* _resolve_cards: the selected cards but the deleted ones, or those of one
\* status, or all but the deleted ones.  Mutant: only cards still to be marked.
SelectsUnmarked(options, c) ==
  /\ exportCard[c].status \notin {"DELETED", "DOWNLOADED"}
  /\ options.ids # {} => c \in options.ids
Selects(options, c) ==
  IF options.ids # {} THEN c \in options.ids /\ exportCard[c].status # "DELETED"
  ELSE IF options.status # None THEN exportCard[c].status = options.status
  ELSE exportCard[c].status # "DELETED"

ResolveCards(s) ==
  /\ ExportAt(s, "begun")
  /\ attempt' = [attempt EXCEPT ![s].at = "resolved",
                   ![s].copies = [c \in ExportCards |->
                      IF Selects(session[s].options, c) THEN exportCard[c] ELSE NotIn]]
  /\ UNCHANGED <<exportCard, mover, held, session, filed, newest>>

\* The files an export of some copies may be: a document shows all of them, a
\* ZIP archive those with an image that can be read now.  Mutant: a document
\* shows the approved ones.
Only(copies, S) == [c \in ExportCards |-> IF c \in S THEN copies[c] ELSE NotIn]
FilesApproved(type, copies) ==
  {Only(copies, {c \in ExportCards : copies[c].status = "APPROVED"})}
Files(type, copies) ==
  IF type = "zip" THEN {Only(copies, S) : S \in SUBSET In(copies)} ELSE {copies}

\* Render the objects, _store_artifact.
StoreArtifact(s) ==
  /\ ExportAt(s, "resolved")
  /\ \E file \in Files(session[s].options.type, attempt[s].copies) :
       /\ newest' = [newest EXCEPT ![s] = file]
       /\ filed' = [filed EXCEPT ![s] = @ \cup In(file)]
  /\ attempt' = [attempt EXCEPT ![s].at = "marking"]
  /\ UNCHANGED <<exportCard, mover, held, session>>

\* What refresh_from_db(fields=['status']) does to an object.  Mutant: all
\* fields.
RefreshedAll(copy, row) == row
Refreshed(copy, row) == [copy EXCEPT !.status = row.status]

\* _mark_downloaded takes one card after the other, and leaves alone those that
\* are not APPROVED now.
RefreshCard(s, c) ==
  LET copy == Refreshed(attempt[s].copies[c], exportCard[c])
  IN /\ ExportAt(s, "marking") /\ c \in In(attempt[s].copies)
     /\ attempt' =
          IF copy.status = "APPROVED"
          THEN [attempt EXCEPT ![s].at = "moving", ![s].next = c, ![s].copies[c] = copy]
          ELSE [attempt EXCEPT ![s].copies[c] = NotIn]
     /\ UNCHANGED <<exportCard, mover, held, session, filed, newest>>

\* transition_card(download) saves the object; refusals and errors are logged
\* and the loop goes on.
MarkDownloaded(s) ==
  LET c == attempt[s].next
  IN /\ ExportAt(s, "moving")
     /\ \/ /\ exportCard' = [exportCard EXCEPT ![c] =
                [attempt[s].copies[c] EXCEPT !.status = "DOWNLOADED"]]
           /\ mover' = [mover EXCEPT ![c] = s]
        \/ UNCHANGED <<exportCard, mover>>
     /\ attempt' = [attempt EXCEPT ![s].at = "marking", ![s].next = None,
                                   ![s].copies[c] = NotIn]
     /\ UNCHANGED <<held, session, filed, newest>>

FinishExport(s) ==
  /\ ExportAt(s, "marking") /\ In(attempt[s].copies) = {}
  /\ WithStatus(s, "COMPLETED")
  /\ attempt' = [attempt EXCEPT ![s].at = "stored"]
  /\ UNCHANGED <<exportCard, mover, held, filed, newest>>

\* complete_job, and the task is over.
EndExport(s) ==
  /\ ExportAt(s, "stored")
  /\ attempt' = [attempt EXCEPT ![s] = NoAttempt("over", 0)]
  /\ UNCHANGED <<exportCard, mover, held, session, filed, newest>>

\* The task has a retry left.  Mutant: off by one.
MayTryAgain(n) == n <= ExportRetries
MayTry(n) == n < ExportRetries

\* An exception anywhere in the attempt (a card that is gone, the database, the
\* storage, the soft time limit): the session is FAILED, or left as it is where
\* no handler is active, and run_job_task retries while it may.
RaiseExport(s) ==
  /\ attempt[s].at \in {"begun", "resolved", "marking", "stored"}
  /\ WithStatus(s, "FAILED") \/ UNCHANGED session
  /\ attempt' = [attempt EXCEPT ![s] =
       IF MayTry(@.retries) THEN NoAttempt("queued", @.retries + 1)
       ELSE NoAttempt("over", 0)]
  /\ UNCHANGED <<exportCard, mover, held, filed, newest>>

\* The worker dies, or the job is cancelled before a worker takes it: no
\* attempt follows.
StopExport(s) ==
  /\ ~ExportAt(s, "none") /\ ~ExportAt(s, "over")
  /\ attempt' = [attempt EXCEPT ![s] = NoAttempt("over", 0)]
  /\ UNCHANGED <<exportCard, mover, held, session, filed, newest>>

ExportNext ==
  \/ \E c \in ExportCards : EditExported(c)
  \/ \E r \in ExportRequests :
       SaveExported(r) \/ \E c \in ExportCards : ReadExported(r, c)
  \/ \E s \in ExportSessions :
       \/ \E options \in ExportScopes : StartExport(s, options)
       \/ BeginExport(s) \/ ResolveCards(s) \/ StoreArtifact(s)
       \/ \E c \in ExportCards : RefreshCard(s, c)
       \/ MarkDownloaded(s) \/ FinishExport(s) \/ EndExport(s)
       \/ RaiseExport(s) \/ StopExport(s)

ExportSpec == ExportInit /\ [][ExportNext]_exportVars
-----------------------------------------------------------------------------
(* Properties *)

\* The sessions that render documents.  (A ZIP archive need not hold a card that
\* its export marks: the renderer skips what has no image.)
IsDocument(s) == session[s].options.type = "document"

\* A card that an export to a document moved to DOWNLOADED is in a file of that
\* export: no failure or death of the task, no retry and no other request
\* leaves a card that says it was printed and never was.
MarkedWasFiled ==
  \A c \in ExportCards :
    mover[c] # None /\ IsDocument(mover[c]) => c \in filed[mover[c]]

\* A COMPLETED export to a document, of all cards or of selected ones, hands out
\* a file with every card it moved and whose status nobody has changed since,
\* those an earlier attempt moved included.  (One of the APPROVED cards does
\* not: the retry no longer selects what the first attempt has marked.)
ByStatus(options) == options.ids = {} /\ options.status # None
CompletedFileHasMarked ==
  \A c \in ExportCards :
    LET s == mover[c]
    IN /\ s # None /\ IsDocument(s)
       /\ session[s].status = "COMPLETED" /\ ~ByStatus(session[s].options)
       => newest[s][c] # NotIn

\* The step that marks a card leaves in its row the text the document shows of
\* it: a document never disagrees with the card it was printed from, because
\* the copy it shows is written back over any edit made meanwhile.  (Not so for
\* images: an image replaced while the export runs may be in the document, and
\* the copy that is written back holds the key of the old one.)
MarkedAsFiled ==
  [][\A s \in ExportSessions :
       LET c == attempt[s].next
       IN /\ attempt[s].at = "moving" /\ attempt'[s].at = "marking"
          /\ mover' # mover /\ IsDocument(s)
          => exportCard'[c].data = newest[s][c].data]_exportVars
=============================================================================
