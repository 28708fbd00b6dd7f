----------------------------- MODULE ImportRun -----------------------------
(***************************************************************************)
(* The import of a workbook: process_xlsx_import, its chunks as            *)
(* transactions, the attempts run_job_task makes at it, and the requests   *)
(* that create cards or take and give up unique values meanwhile.          *)
(*                                                                         *)
(* A chunk holds the lock of the table row from its first statement to its *)
(* commit, and numbers its cards from the counter in that row.  A row of   *)
(* the workbook is, of its data, the value of the one unique field.        *)
(* Images, which only add warnings, are left out.                          *)
(***************************************************************************)
EXTENDS Integers

CONSTANTS ImportSessions,  \* the imports into one table
          Creators,        \* the requests that create a card
          ImportRows,      \* the number of rows of the workbook
          ChunkSize,       \* 500
          ImportValues,    \* the values of the unique field
          ValueOf,         \* the value of a row, or NoValue
          NoValue,         \* an empty field
          ImportRetries,   \* max_retries of run_job_task
          MaxNumber        \* bound: the display ids

ASSUME ImportAssumption ==
  /\ ImportRows \in Nat /\ ChunkSize \in Nat \ {0}
  /\ NoValue \notin ImportValues
  /\ ValueOf \in [1..ImportRows -> ImportValues \cup {NoValue}]
  /\ ImportRetries \in Nat /\ MaxNumber \in Nat
  /\ ImportSessions \cap Creators = {}
  /\ NoValue \notin ImportSessions \cup Creators

VARIABLES sequence,    \* card_sequence of the table, as committed
          tableLock,   \* the transaction that holds the lock of its row
          issued,      \* how many cards have a display id
          taken,       \* the values with a CardUniqueValue row
          cardsOf,     \* how many cards the rows of a session have become
          results,     \* the rows of a session with an ImportRowResult
          import,      \* the status and the header of each ImportSession
          task,        \* the task of each session
          creator      \* the requests that create a card, with their number

importVars ==
  <<sequence, tableLock, issued, taken, cardsOf, results, import, task, creator>>

Rows == 1..ImportRows
ImportStatus == {"NEW", "PENDING", "PROCESSING", "COMPLETED", "FAILED"}

\* A task: how far it is; in the rows: those of committed chunks and those the
\* open chunk has been through, with the counter the chunk found, the values it
\* registered, the rows it made a card of, and whether the row at hand is a
\* duplicate.  The error is what run_job_task logs.
ImportTask ==
  [at : {"none", "queued", "reading", "row", "checked", "between", "over"},
   retries : 0..ImportRetries, done : 0..ImportRows, upto : 0..ImportRows,
   base : Nat, mine : SUBSET ImportValues, made : SUBSET Rows,
   duplicate : BOOLEAN, error : {"none", "duplicate", "other"}]
NewTask(at, retries, error) ==
  [at |-> at, retries |-> retries, done |-> 0, upto |-> 0, base |-> 0, mine |-> {},
   made |-> {}, duplicate |-> FALSE, error |-> error]

\* Type correctness of the rows and the tasks.
ImportTypeOK ==
  /\ sequence \in Nat
  /\ tableLock \in ImportSessions \cup Creators \cup {NoValue}
  /\ issued \in [1..MaxNumber -> Nat]
  /\ taken \subseteq ImportValues
  /\ cardsOf \in [ImportSessions -> [Rows -> Nat]]
  /\ results \in [ImportSessions -> SUBSET Rows]
  /\ import \in [ImportSessions -> [status : ImportStatus, header : BOOLEAN]]
  /\ task \in [ImportSessions -> ImportTask]
  /\ creator \in [Creators -> [at : {"new", "open", "done"}, number : Nat]]

ImportInit ==
  /\ sequence = 0 /\ tableLock = NoValue /\ taken = {}
  /\ issued = [d \in 1..MaxNumber |-> 0]
  /\ cardsOf = [s \in ImportSessions |-> [r \in Rows |-> 0]]
  /\ results = [s \in ImportSessions |-> {}]
  /\ import = [s \in ImportSessions |-> [status |-> "NEW", header |-> TRUE]]
  /\ task = [s \in ImportSessions |-> NewTask("none", 0, "none")]
  /\ creator = [q \in Creators |-> [at |-> "new", number |-> 0]]
-----------------------------------------------------------------------------
(* Other requests *)

\* select_for_update of the table row.  Mutant: no lock, the counter is counted
\* up in the copy.
LockFreeAlways == TRUE
LockFree == tableLock = NoValue

\* create_card: lock the table, take the next number, insert, commit.
BeginCreate(q) ==
  /\ creator[q].at = "new" /\ LockFree /\ sequence < MaxNumber
  /\ tableLock' = q
  /\ creator' = [creator EXCEPT ![q] = [at |-> "open", number |-> sequence + 1]]
  /\ UNCHANGED <<sequence, issued, taken, cardsOf, results, import, task>>
CommitCreate(q) ==
  /\ creator[q].at = "open"
  /\ \/ /\ sequence' = creator[q].number
        /\ issued' = [issued EXCEPT ![creator[q].number] = @ + 1]
     \/ UNCHANGED <<sequence, issued>>
  /\ tableLock' = NoValue
  /\ creator' = [creator EXCEPT ![q].at = "done"]
  /\ UNCHANGED <<taken, cardsOf, results, import, task>>

\* Another card takes a free value in an edit or a restore, or gives one up.  The
\* insert waits for an open chunk that registered the value.
TakeValue(v) ==
  /\ v \notin taken /\ \A s \in ImportSessions : v \notin task[s].mine
  /\ taken' = taken \cup {v}
  /\ UNCHANGED <<sequence, tableLock, issued, cardsOf, results, import, task, creator>>
FreeValue(v) ==
  /\ v \in taken
  /\ taken' = taken \ {v}
  /\ UNCHANGED <<sequence, tableLock, issued, cardsOf, results, import, task, creator>>

\* POST /imports/sessions/xlsx_import/, of a workbook that may be empty.
StartImport(s) ==
  /\ import[s].status = "NEW"
  /\ \E h \in BOOLEAN :
       import' = [import EXCEPT ![s] = [status |-> "PENDING", header |-> h]]
  /\ task' = [task EXCEPT ![s].at = "queued"]
  /\ UNCHANGED <<sequence, tableLock, issued, taken, cardsOf, results, creator>>
-----------------------------------------------------------------------------
(* The task *)

ImportAt(s, at) == task[s].at = at
ImportStatusOf(s, status) == import' = [import EXCEPT ![s].status = status]

\* A new attempt reads the workbook from its first row.
BeginImport(s) ==
  /\ ImportAt(s, "queued")
  /\ ImportStatusOf(s, "PROCESSING")
  /\ task' = [task EXCEPT ![s].at = "reading"]
  /\ UNCHANGED <<sequence, tableLock, issued, taken, cardsOf, results, creator>>

\* No header: the session is over, and the job will be COMPLETED.
NoHeader(s) ==
  /\ ImportAt(s, "reading") /\ ~import[s].header
  /\ ImportStatusOf(s, "FAILED")
  /\ task' = [task EXCEPT ![s].at = "over"]
  /\ UNCHANGED <<sequence, tableLock, issued, taken, cardsOf, results, creator>>

\* The last row of the chunk that begins after row n.
SmallerOf(m, n) == IF m < n THEN m ELSE n
ChunkEnd(n) == SmallerOf(n + ChunkSize, ImportRows)

\* A chunk begins, with the lock of the table.
BeginChunk(s) ==
  /\ ImportAt(s, "reading") /\ import[s].header
  /\ task[s].done < ImportRows /\ LockFree
  /\ sequence + ChunkSize <= MaxNumber
  /\ tableLock' = s
  /\ task' = [task EXCEPT ![s].at = "row", ![s].upto = task[s].done,
                          ![s].base = sequence, ![s].mine = {}, ![s].made = {}]
  /\ UNCHANGED <<sequence, issued, taken, cardsOf, results, import, creator>>

\* The next row of the chunk, and its value.
Row(s) == task[s].upto + 1
Value(s) == ValueOf[Row(s)]

\* Is the value registered by now?
CheckRow(s) ==
  /\ ImportAt(s, "row") /\ task[s].upto < ChunkEnd(task[s].done)
  /\ task' = [task EXCEPT ![s].at = "checked",
                          ![s].duplicate = Value(s) \in taken \cup task[s].mine]
  /\ UNCHANGED <<sequence, tableLock, issued, taken, cardsOf, results, import, creator>>

\* The row becomes a card: a duplicate with a warning, any other value is
\* registered, if no other request has done so since.
InsertRow(s) ==
  /\ ImportAt(s, "checked")
  /\ task[s].duplicate \/ Value(s) \notin taken
  /\ task' = [task EXCEPT ![s].at = "row", ![s].upto = Row(s),
                ![s].made = @ \cup {Row(s)},
                ![s].mine = IF task[s].duplicate \/ Value(s) = NoValue THEN @
                            ELSE @ \cup {Value(s)}]
  /\ UNCHANGED <<sequence, tableLock, issued, taken, cardsOf, results, import, creator>>

\* The row cannot be made a card: a FAILED result, and the chunk goes on.
FailRow(s) ==
  /\ ImportAt(s, "checked")
  /\ task' = [task EXCEPT ![s].at = "row", ![s].upto = Row(s)]
  /\ UNCHANGED <<sequence, tableLock, issued, taken, cardsOf, results, import, creator>>

\* Where the rows of the next chunk begin.  Mutant: the list is not emptied.
NextChunkSame(s) == IF task[s].upto = ImportRows THEN ImportRows ELSE task[s].done
NextChunk(s) == task[s].upto

CommitChunk(s) ==
  LET t == task[s]
  IN /\ ImportAt(s, "row") /\ t.upto = ChunkEnd(t.done)
     /\ sequence' = t.base + (t.upto - t.done)
     /\ issued' = [d \in 1..MaxNumber |->
                     IF d - t.base + t.done \in t.made THEN issued[d] + 1 ELSE issued[d]]
     /\ taken' = taken \cup t.mine
     /\ cardsOf' = [cardsOf EXCEPT ![s] =
                      [r \in Rows |-> IF r \in t.made THEN @[r] + 1 ELSE @[r]]]
     /\ results' = [results EXCEPT ![s] = @ \cup (t.done + 1)..t.upto]
     /\ tableLock' = NoValue
     /\ task' = [task EXCEPT ![s].done = NextChunk(s), ![s].made = {}, ![s].mine = {},
                   ![s].at = IF t.upto - t.done = ChunkSize THEN "between" ELSE "reading"]
     /\ UNCHANGED <<import, creator>>

\* After a full chunk: is the job cancelled?
CheckImportCancelled(s) ==
  /\ ImportAt(s, "between")
  /\ \/ task' = [task EXCEPT ![s].at = "reading"] /\ UNCHANGED import
     \/ task' = [task EXCEPT ![s].at = "over"] /\ ImportStatusOf(s, "FAILED")
  /\ UNCHANGED <<sequence, tableLock, issued, taken, cardsOf, results, creator>>

\* No rows are left.  Mutant: a last chunk that is not full is forgotten.
AllReadButLast(s) == task[s].done + ChunkSize > ImportRows
AllRead(s) == task[s].done = ImportRows

FinishImport(s) ==
  /\ ImportAt(s, "reading") /\ import[s].header /\ AllRead(s)
  /\ ImportStatusOf(s, "COMPLETED")
  /\ task' = [task EXCEPT ![s].at = "over"]
  /\ UNCHANGED <<sequence, tableLock, issued, taken, cardsOf, results, creator>>

\* The open chunk is rolled back and the task raises; the session stays as it
\* is.  The job is retried while it may be.
RaiseImport(s, error) ==
  /\ tableLock' = IF tableLock = s THEN NoValue ELSE tableLock
  /\ task' = [task EXCEPT ![s] =
       IF @.retries < ImportRetries THEN NewTask("queued", @.retries + 1, error)
       ELSE NewTask("over", @.retries, error)]
  /\ UNCHANGED <<sequence, issued, taken, cardsOf, results, import, creator>>

\* The value was registered between the check and the insert: IntegrityError.
\* The row's handler catches it, but the transaction is broken, and the next
\* statement, the row result, raises.
DuplicateRaises(s) ==
  /\ ImportAt(s, "checked")
  /\ ~task[s].duplicate /\ Value(s) \in taken
  /\ RaiseImport(s, "duplicate")

\* Any other error, the soft time limit included.
FailImport(s) ==
  /\ task[s].at \in {"reading", "row", "checked", "between"}
  /\ RaiseImport(s, "other")

\* The worker dies; an open chunk is rolled back.
StopImport(s) ==
  /\ task[s].at \notin {"none", "over"}
  /\ tableLock' = IF tableLock = s THEN NoValue ELSE tableLock
  /\ task' = [task EXCEPT ![s] = NewTask("over", @.retries, @.error)]
  /\ UNCHANGED <<sequence, issued, taken, cardsOf, results, import, creator>>

ImportNext ==
  \/ \E q \in Creators : BeginCreate(q) \/ CommitCreate(q)
  \/ \E v \in ImportValues : TakeValue(v) \/ FreeValue(v)
  \/ \E s \in ImportSessions :
       \/ StartImport(s) \/ BeginImport(s) \/ NoHeader(s)
       \/ BeginChunk(s) \/ CheckRow(s) \/ InsertRow(s) \/ FailRow(s) \/ CommitChunk(s)
       \/ CheckImportCancelled(s) \/ FinishImport(s)
       \/ DuplicateRaises(s) \/ FailImport(s) \/ StopImport(s)

ImportSpec == ImportInit /\ [][ImportNext]_importVars
-----------------------------------------------------------------------------
(* Properties *)

\* No two cards of a table get the same display id, whatever imports, single
\* creations, failures and retries share its counter.
DisplayIdsDistinct == \A d \in 1..MaxNumber : issued[d] <= 1

\* An import that says COMPLETED has a result for every row of the workbook.
CompletedHasAllRows ==
  \A s \in ImportSessions : import[s].status = "COMPLETED" => results[s] = Rows

\* A row becomes at most one card per attempt: only a retry, which begins with
\* the first row again, makes a second one.
RowsOncePerAttempt ==
  \A s \in ImportSessions, r \in Rows : cardsOf[s][r] <= task[s].retries + 1

\* Duplicate cards must not crash the task process (docs/IMPORTS.md).
DuplicatesDoNotCrash == \A s \in ImportSessions : task[s].error # "duplicate"
=============================================================================
