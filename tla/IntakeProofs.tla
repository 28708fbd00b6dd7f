---------------------------- MODULE IntakeProofs ----------------------------
(***************************************************************************)
(* Proofs about what comes into the cards, ImportRun and MediaFiles, for   *)
(* any workbook, chunk size, sessions, workers and images: display ids are *)
(* distinct, a completed import has a result for every row and an attempt  *)
(* makes a row a card once; no image is lost and none is without its file. *)
(***************************************************************************)
EXTENDS ImportRun, MediaFiles, TLAPS

(***************************************************************************)
(* Imports: the invariant.  An open chunk holds the lock of the table, so  *)
(* the counter it found is still the table's.                              *)
(***************************************************************************)

InChunk(s) == task[s].at \in {"row", "checked"}

\* The rows an open chunk has been through, and those that became cards.
ChunkOpen(s) ==
  InChunk(s) =>
    /\ tableLock = s /\ task[s].base = sequence
    /\ task[s].done <= task[s].upto /\ task[s].upto <= ChunkEnd(task[s].done)
    /\ task[s].at = "checked" => task[s].upto < ChunkEnd(task[s].done)
    /\ task[s].made \subseteq (task[s].done + 1)..task[s].upto

\* What the attempt has committed.
ChunksDone(s) ==
  /\ 1..task[s].done \subseteq results[s]
  /\ task[s].at # "over" =>
       \A r \in Rows : r > task[s].done => cardsOf[s][r] <= task[s].retries
  /\ \A r \in Rows : cardsOf[s][r] <= task[s].retries + 1
  /\ import[s].status = "COMPLETED" => results[s] = Rows

\* A session that was not started has no task.
NewIdle(s) == import[s].status = "NEW" => task[s].at = "none"

ImportSound(s) == ChunkOpen(s) /\ ChunksDone(s) /\ NewIdle(s)

CreatorsLocked ==
  \A q \in Creators : creator[q].at = "open" =>
    tableLock = q /\ creator[q].number = sequence + 1

IdsBelow ==
  \A d \in 1..MaxNumber : issued[d] <= 1 /\ (d > sequence => issued[d] = 0)

ImportInv ==
  /\ ImportTypeOK /\ CreatorsLocked /\ IdsBelow
  /\ \A s \in ImportSessions : ImportSound(s)

ImportAts == {"none", "queued", "reading", "row", "checked", "between", "over"}

LEMMA TaskParts ==
  ASSUME ImportTypeOK, NEW s \in ImportSessions
  PROVE  /\ task[s] \in ImportTask
         /\ task[s].done \in 0..ImportRows /\ task[s].upto \in 0..ImportRows
         /\ task[s].base \in Nat /\ task[s].retries \in 0..ImportRetries
         /\ task[s].mine \in SUBSET ImportValues /\ task[s].made \in SUBSET Rows
BY DEF ImportTypeOK, ImportTask

LEMMA TaskTypes ==
  /\ \A q \in ImportTask, at \in ImportAts : [q EXCEPT !.at = at] \in ImportTask
  /\ \A at \in ImportAts, n \in 0..ImportRetries, e \in {"none", "duplicate", "other"} :
       NewTask(at, n, e) \in ImportTask
<1>1. \A q \in ImportTask, at \in ImportAts : [q EXCEPT !.at = at] \in ImportTask
  BY DEF ImportTask, ImportAts
<1>2. ASSUME NEW at \in ImportAts, NEW n \in 0..ImportRetries,
             NEW e \in {"none", "duplicate", "other"}
      PROVE  NewTask(at, n, e) \in ImportTask
  <2>1. 0 \in 0..ImportRows
    BY ImportAssumption
  <2>2. QED
    BY <2>1 DEF NewTask, ImportTask, ImportAts
<1>3. QED
  BY <1>1, <1>2

LEMMA ChunkEndBounds ==
  ASSUME NEW n \in 0..ImportRows
  PROVE  ChunkEnd(n) \in Nat /\ n <= ChunkEnd(n) /\ ChunkEnd(n) <= ImportRows
BY ImportAssumption DEF ChunkEnd, SmallerOf

(***************************************************************************)
(* What the steps of a task do to it.                                      *)
(***************************************************************************)

\* The other tasks, with what was committed for them.
OtherTasks(s) ==
  \A t \in ImportSessions \ {s} :
    /\ task'[t] = task[t] /\ cardsOf'[t] = cardsOf[t] /\ results'[t] = results[t]
    /\ import'[t] = import[t]

\* The steps that only change how far the task is, and perhaps the status.
Turns(s) ==
  \/ StartImport(s) \/ BeginImport(s) \/ NoHeader(s)
  \/ CheckImportCancelled(s) \/ FinishImport(s)

LEMMA TurnParts ==
  ASSUME ImportTypeOK, NEW s \in ImportSessions, Turns(s)
  PROVE  /\ task' \in [ImportSessions -> ImportTask]
         /\ import' \in [ImportSessions -> [status : ImportStatus, header : BOOLEAN]]
         /\ task'[s].at \in {"queued", "reading", "over"}
         /\ task'[s].done = task[s].done /\ task'[s].retries = task[s].retries
         /\ task[s].at = "over" => import[s].status = "NEW"
         /\ import'[s].status = "NEW" => import[s].status = "NEW" /\ task[s].at # "none"
         /\ import'[s].status = "COMPLETED" =>
              import[s].status = "COMPLETED" \/ task[s].done = ImportRows
         /\ UNCHANGED <<sequence, tableLock, issued, taken, cardsOf, results, creator>>
         /\ OtherTasks(s)
<1>0. task[s] \in ImportTask /\ import[s] \in [status : ImportStatus, header : BOOLEAN]
  BY DEF ImportTypeOK
<1>1. PICK at \in {"queued", "reading", "over"} : task' = [task EXCEPT ![s].at = at]
  BY DEF Turns, StartImport, BeginImport, NoHeader, CheckImportCancelled, FinishImport
<1>2. task' = [task EXCEPT ![s] = [@ EXCEPT !.at = at]] /\ at \in ImportAts
  BY <1>1 DEF ImportAts
<1>3. [task[s] EXCEPT !.at = at] \in ImportTask
  BY <1>0, <1>2, TaskTypes
<1>4. /\ task' \in [ImportSessions -> ImportTask] /\ task'[s] = [task[s] EXCEPT !.at = at]
      /\ \A t \in ImportSessions \ {s} : task'[t] = task[t]
  BY <1>2, <1>3 DEF ImportTypeOK
<1>5. /\ task'[s].at = at
      /\ task'[s].done = task[s].done /\ task'[s].retries = task[s].retries
  BY <1>0, <1>4 DEF ImportTask
<1>6. UNCHANGED <<sequence, tableLock, issued, taken, cardsOf, results, creator>>
  BY DEF Turns, StartImport, BeginImport, NoHeader, CheckImportCancelled, FinishImport
<1>7. PICK row \in [status : ImportStatus, header : BOOLEAN] :
        /\ import' = [import EXCEPT ![s] = row]
        /\ row.status = "COMPLETED" =>
             import[s].status = "COMPLETED" \/ task[s].done = ImportRows
        /\ row.status = "NEW" => import[s].status = "NEW" /\ task[s].at # "none"
  <2>1. ASSUME NEW status \in ImportStatus, ImportStatusOf(s, status)
        PROVE  \E row \in [status : ImportStatus, header : BOOLEAN] :
                 import' = [import EXCEPT ![s] = row] /\ row.status = status
    <3>1. import' = [import EXCEPT ![s] = [@ EXCEPT !.status = status]]
      BY <2>1 DEF ImportStatusOf
    <3>2. [import[s] EXCEPT !.status = status] \in [status : ImportStatus, header : BOOLEAN]
          /\ [import[s] EXCEPT !.status = status].status = status
      BY <1>0
    <3>3. import' = [import EXCEPT ![s] = [import[s] EXCEPT !.status = status]]
      BY <3>1
    <3>4. QED
      BY <3>2, <3>3
  <2>2. CASE StartImport(s)
    <3>1. PICK h \in BOOLEAN :
            import' = [import EXCEPT ![s] = [status |-> "PENDING", header |-> h]]
      BY <2>2 DEF StartImport
    <3>2. [status |-> "PENDING", header |-> h] \in [status : ImportStatus, header : BOOLEAN]
          /\ [status |-> "PENDING", header |-> h].status = "PENDING"
      BY DEF ImportStatus
    <3>3. QED
      BY <3>1, <3>2
  <2>3. CASE BeginImport(s)
    BY <2>1, <2>3 DEF BeginImport, ImportStatus
  <2>4. CASE NoHeader(s)
    BY <2>1, <2>4 DEF NoHeader, ImportStatus
  <2>5. CASE CheckImportCancelled(s)
    <3>1. CASE UNCHANGED import
      <4>1. import' = [import EXCEPT ![s] = import[s]]
        BY <3>1 DEF ImportTypeOK
      <4>2. task[s].at = "between"
        BY <2>5 DEF CheckImportCancelled, ImportAt
      <4>3. QED
        BY <1>0, <4>1, <4>2
    <3>2. CASE ImportStatusOf(s, "FAILED")
      BY <2>1, <3>2 DEF ImportStatus
    <3>3. QED
      BY <2>5, <3>1, <3>2 DEF CheckImportCancelled
  <2>6. CASE FinishImport(s)
    <3>1. task[s].done = ImportRows /\ ImportStatusOf(s, "COMPLETED")
      BY <2>6 DEF FinishImport, AllRead
    <3>2. "COMPLETED" \in ImportStatus
      BY DEF ImportStatus
    <3>3. QED
      BY <2>1, <3>1, <3>2
  <2>7. QED
    BY <2>2, <2>3, <2>4, <2>5, <2>6 DEF Turns
<1>8. /\ import' \in [ImportSessions -> [status : ImportStatus, header : BOOLEAN]]
      /\ import'[s] = row /\ \A t \in ImportSessions \ {s} : import'[t] = import[t]
  BY <1>7 DEF ImportTypeOK
<1>9. task[s].at = "over" => import[s].status = "NEW"
  BY DEF Turns, StartImport, BeginImport, NoHeader, CheckImportCancelled, FinishImport,
         ImportAt
<1>10. QED
  BY <1>4, <1>5, <1>6, <1>7, <1>8, <1>9 DEF OtherTasks

\* The steps that end an attempt, with the open chunk rolled back.
RollsBack(s) == DuplicateRaises(s) \/ FailImport(s) \/ StopImport(s)

LEMMA RollsBackParts ==
  ASSUME ImportTypeOK, NEW s \in ImportSessions, RollsBack(s)
  PROVE  /\ task' \in [ImportSessions -> ImportTask]
         /\ task'[s].done = 0 /\ task[s].at # "none" /\ task[s].at # "over"
         /\ \/ task'[s].at = "queued" /\ task'[s].retries = task[s].retries + 1
            \/ task'[s].at = "over" /\ task'[s].retries = task[s].retries
         /\ tableLock' = IF tableLock = s THEN NoValue ELSE tableLock
         /\ UNCHANGED <<sequence, issued, taken, cardsOf, results, import, creator>>
         /\ OtherTasks(s)
<1>0. task[s] \in ImportTask /\ task[s].retries \in 0..ImportRetries
      /\ task[s].error \in {"none", "duplicate", "other"}
  BY DEF ImportTypeOK, ImportTask
<1>1. PICK at \in {"queued", "over"}, n \in 0..ImportRetries,
           e \in {"none", "duplicate", "other"} :
        /\ task' = [task EXCEPT ![s] = NewTask(at, n, e)]
        /\ \/ at = "queued" /\ n = task[s].retries + 1
           \/ at = "over" /\ n = task[s].retries
  <2>1. ASSUME NEW e \in {"none", "duplicate", "other"}, RaiseImport(s, e)
        PROVE  \E at \in {"queued", "over"}, n \in 0..ImportRetries :
                 /\ task' = [task EXCEPT ![s] = NewTask(at, n, e)]
                 /\ \/ at = "queued" /\ n = task[s].retries + 1
                    \/ at = "over" /\ n = task[s].retries
    <3>1. CASE task[s].retries < ImportRetries
      <4>1. task[s].retries + 1 \in 0..ImportRetries
        BY <1>0, <3>1, ImportAssumption
      <4>2. task' = [task EXCEPT ![s] = NewTask("queued", task[s].retries + 1, e)]
        BY <2>1, <3>1 DEF RaiseImport
      <4>3. QED
        BY <4>1, <4>2
    <3>2. CASE ~(task[s].retries < ImportRetries)
      <4>1. task' = [task EXCEPT ![s] = NewTask("over", task[s].retries, e)]
        BY <2>1, <3>2 DEF RaiseImport
      <4>2. QED
        BY <1>0, <4>1
    <3>3. QED
      BY <3>1, <3>2
  <2>2. CASE DuplicateRaises(s) \/ FailImport(s)
    BY <2>1, <2>2 DEF DuplicateRaises, FailImport
  <2>3. CASE StopImport(s)
    <3>1. task' = [task EXCEPT ![s] = NewTask("over", task[s].retries, task[s].error)]
      BY <2>3 DEF StopImport
    <3>2. QED
      BY <1>0, <3>1
  <2>4. QED
    BY <2>2, <2>3 DEF RollsBack
<1>2. NewTask(at, n, e) \in ImportTask
  BY TaskTypes DEF ImportAts
<1>3. NewTask(at, n, e).at = at /\ NewTask(at, n, e).retries = n /\ NewTask(at, n, e).done = 0
  BY DEF NewTask
<1>4. /\ task' \in [ImportSessions -> ImportTask] /\ task'[s] = NewTask(at, n, e)
      /\ \A t \in ImportSessions \ {s} : task'[t] = task[t]
  BY <1>1, <1>2 DEF ImportTypeOK
<1>5. /\ UNCHANGED <<sequence, issued, taken, cardsOf, results, import, creator>>
      /\ tableLock' = IF tableLock = s THEN NoValue ELSE tableLock
      /\ task[s].at # "none" /\ task[s].at # "over"
  BY DEF RollsBack, DuplicateRaises, FailImport, StopImport, RaiseImport, ImportAt
<1>6. QED
  BY <1>1, <1>3, <1>4, <1>5 DEF OtherTasks

LEMMA BeginChunkParts ==
  ASSUME ImportTypeOK, NEW s \in ImportSessions, BeginChunk(s)
  PROVE  /\ task' \in [ImportSessions -> ImportTask]
         /\ task'[s].at = "row" /\ task'[s].upto = task[s].done
         /\ task'[s].base = sequence /\ task'[s].made = {}
         /\ task'[s].done = task[s].done /\ task'[s].retries = task[s].retries
         /\ task[s].at = "reading" /\ tableLock = NoValue /\ tableLock' = s
         /\ UNCHANGED <<sequence, issued, taken, cardsOf, results, import, creator>>
         /\ OtherTasks(s)
<1> DEFINE q == [task[s] EXCEPT !.at = "row", !.upto = task[s].done, !.base = sequence,
                               !.mine = {}, !.made = {}]
<1>1. task[s] \in ImportTask /\ sequence \in Nat /\ task[s].done \in 0..ImportRows
  BY TaskParts DEF ImportTypeOK
<1>2. /\ q \in ImportTask /\ q.at = "row" /\ q.upto = task[s].done /\ q.base = sequence
      /\ q.made = {} /\ q.done = task[s].done /\ q.retries = task[s].retries
  BY <1>1 DEF ImportTask
<1>3. task' = [task EXCEPT ![s] = q]
  BY DEF BeginChunk
<1> HIDE DEF q
<1>4. /\ task' \in [ImportSessions -> ImportTask] /\ task'[s] = q
      /\ \A t \in ImportSessions \ {s} : task'[t] = task[t]
  BY <1>2, <1>3 DEF ImportTypeOK
<1>5. QED
  BY <1>2, <1>4 DEF BeginChunk, ImportAt, LockFree, OtherTasks

\* A row is checked, or it is done with, as a card or without one.
LEMMA RowParts ==
  ASSUME ImportTypeOK, NEW s \in ImportSessions, ChunkOpen(s),
         CheckRow(s) \/ InsertRow(s) \/ FailRow(s)
  PROVE  /\ task' \in [ImportSessions -> ImportTask]
         /\ InChunk(s) /\ task[s].upto < ChunkEnd(task[s].done)
         /\ \/ /\ task'[s].at = "checked" /\ task'[s].upto = task[s].upto
               /\ task'[s].made = task[s].made
            \/ /\ task'[s].at = "row" /\ task'[s].upto = task[s].upto + 1
               /\ task'[s].made \subseteq task[s].made \cup {task[s].upto + 1}
         /\ task'[s].base = task[s].base
         /\ task'[s].done = task[s].done /\ task'[s].retries = task[s].retries
         /\ UNCHANGED <<sequence, tableLock, issued, taken, cardsOf, results, import, creator>>
         /\ OtherTasks(s)
<1>0. /\ task[s] \in ImportTask /\ task[s].done \in 0..ImportRows
      /\ task[s].upto \in 0..ImportRows
      /\ task[s].mine \in SUBSET ImportValues /\ task[s].made \in SUBSET Rows
  BY TaskParts
<1>1. InChunk(s) /\ task[s].upto < ChunkEnd(task[s].done)
  BY DEF ChunkOpen, InChunk, CheckRow, InsertRow, FailRow, ImportAt
<1>2. Row(s) \in Rows /\ Row(s) = task[s].upto + 1 /\ Row(s) \in 0..ImportRows
  BY <1>0, <1>1, ChunkEndBounds, ImportAssumption DEF Row, Rows
<1>3. PICK q \in ImportTask :
        /\ task' = [task EXCEPT ![s] = q]
        /\ \/ q.at = "checked" /\ q.upto = task[s].upto /\ q.made = task[s].made
           \/ /\ q.at = "row" /\ q.upto = Row(s)
              /\ q.made \subseteq task[s].made \cup {Row(s)}
        /\ q.base = task[s].base /\ q.done = task[s].done /\ q.retries = task[s].retries
  <2>1. CASE CheckRow(s)
    <3> DEFINE d == Value(s) \in taken \cup task[s].mine
               q == [task[s] EXCEPT !.at = "checked", !.duplicate = d]
    <3>1. d \in BOOLEAN
      OBVIOUS
    <3>2. task' = [task EXCEPT ![s] = q]
      BY <2>1 DEF CheckRow
    <3> HIDE DEF d
    <3>3. /\ q \in ImportTask /\ q.at = "checked" /\ q.upto = task[s].upto
          /\ q.made = task[s].made
          /\ q.base = task[s].base /\ q.done = task[s].done /\ q.retries = task[s].retries
      BY <1>0, <3>1 DEF ImportTask
    <3> HIDE DEF q
    <3>4. QED
      BY <3>2, <3>3
  <2>2. CASE InsertRow(s)
    <3> DEFINE m == task[s].made \cup {Row(s)}
               v == IF task[s].duplicate \/ Value(s) = NoValue THEN task[s].mine
                    ELSE task[s].mine \cup {Value(s)}
               q == [task[s] EXCEPT !.at = "row", !.upto = Row(s), !.made = m, !.mine = v]
    <3>1. m \in SUBSET Rows
      BY <1>0, <1>2
    <3>2. v \in SUBSET ImportValues
      <4>1. Value(s) \in ImportValues \cup {NoValue}
        BY <1>2, ImportAssumption DEF Value, Rows
      <4>2. QED
        BY <1>0, <4>1
    <3>3. task' = [task EXCEPT ![s] = q]
      BY <2>2 DEF InsertRow
    <3>4. m \subseteq task[s].made \cup {Row(s)}
      OBVIOUS
    <3> HIDE DEF m, v
    <3>5. /\ q \in ImportTask /\ q.at = "row" /\ q.upto = Row(s) /\ q.made = m
          /\ q.base = task[s].base /\ q.done = task[s].done /\ q.retries = task[s].retries
      BY <1>0, <1>2, <3>1, <3>2 DEF ImportTask
    <3> HIDE DEF q
    <3>6. QED
      BY <3>3, <3>4, <3>5
  <2>3. CASE FailRow(s)
    <3> DEFINE q == [task[s] EXCEPT !.at = "row", !.upto = Row(s)]
    <3>1. task' = [task EXCEPT ![s] = q]
      BY <2>3 DEF FailRow
    <3>2. /\ q \in ImportTask /\ q.at = "row" /\ q.upto = Row(s)
          /\ q.made = task[s].made
          /\ q.base = task[s].base /\ q.done = task[s].done /\ q.retries = task[s].retries
      BY <1>0, <1>2 DEF ImportTask
    <3> HIDE DEF q
    <3>3. QED
      BY <3>1, <3>2
  <2>4. QED
    BY <2>1, <2>2, <2>3
<1>4. /\ task' \in [ImportSessions -> ImportTask] /\ task'[s] = q
      /\ \A t \in ImportSessions \ {s} : task'[t] = task[t]
  BY <1>3 DEF ImportTypeOK
<1>5. UNCHANGED <<sequence, tableLock, issued, taken, cardsOf, results, import, creator>>
  BY DEF CheckRow, InsertRow, FailRow
<1>6. QED
  BY <1>1, <1>2, <1>3, <1>4, <1>5 DEF OtherTasks

\* A chunk commits: its rows have results, those it made have cards.
LEMMA CommitParts ==
  ASSUME ImportTypeOK, NEW s \in ImportSessions, ChunkOpen(s), CommitChunk(s)
  PROVE  /\ ImportTypeOK' /\ task[s].at = "row"
         /\ task'[s].at \in {"between", "reading"} /\ task'[s].retries = task[s].retries
         /\ task'[s].done = task[s].upto
         /\ sequence' = sequence + (task[s].upto - task[s].done) /\ tableLock' = NoValue
         /\ issued' = [d \in 1..MaxNumber |->
              IF d - sequence + task[s].done \in task[s].made THEN issued[d] + 1
              ELSE issued[d]]
         /\ results'[s] = results[s] \cup (task[s].done + 1)..task[s].upto
         /\ \A r \in Rows : cardsOf'[s][r] = IF r \in task[s].made THEN cardsOf[s][r] + 1
                                             ELSE cardsOf[s][r]
         /\ UNCHANGED <<import, creator>> /\ OtherTasks(s)
<1>0. /\ task[s] \in ImportTask /\ task[s].done \in 0..ImportRows
      /\ task[s].upto \in 0..ImportRows
      /\ task[s].mine \in SUBSET ImportValues
  BY TaskParts
<1>1. task[s].at = "row" /\ task[s].base = sequence /\ task[s].done <= task[s].upto
  BY DEF CommitChunk, ChunkOpen, InChunk, ImportAt
<1>2. PICK at \in {"between", "reading"} :
        task' = [task EXCEPT ![s] =
                   [@ EXCEPT !.done = task[s].upto, !.made = {}, !.mine = {}, !.at = at]]
  BY DEF CommitChunk, NextChunk
<1>3. [task[s] EXCEPT !.done = task[s].upto, !.made = {}, !.mine = {}, !.at = at] \in ImportTask
  BY <1>0 DEF ImportTask
<1>4. /\ task' \in [ImportSessions -> ImportTask]
      /\ task'[s] = [task[s] EXCEPT !.done = task[s].upto, !.made = {}, !.mine = {}, !.at = at]
      /\ \A t \in ImportSessions \ {s} : task'[t] = task[t]
  BY <1>2, <1>3 DEF ImportTypeOK
<1>5. /\ task'[s].at = at /\ task'[s].done = task[s].upto
      /\ task'[s].retries = task[s].retries
  BY <1>0, <1>4 DEF ImportTask
<1>6. /\ sequence' = sequence + (task[s].upto - task[s].done) /\ sequence' \in Nat
      /\ tableLock' = NoValue /\ UNCHANGED <<import, creator>>
      /\ taken' \subseteq ImportValues
  BY <1>0, <1>1 DEF CommitChunk, ImportTypeOK
<1>7. /\ issued' = [d \in 1..MaxNumber |->
            IF d - sequence + task[s].done \in task[s].made THEN issued[d] + 1
            ELSE issued[d]]
      /\ issued' \in [1..MaxNumber -> Nat]
  BY <1>1 DEF CommitChunk, ImportTypeOK
<1>8. /\ cardsOf' \in [ImportSessions -> [Rows -> Nat]]
      /\ \A r \in Rows : cardsOf'[s][r] = IF r \in task[s].made THEN cardsOf[s][r] + 1
                                          ELSE cardsOf[s][r]
      /\ \A t \in ImportSessions \ {s} : cardsOf'[t] = cardsOf[t]
  <2> DEFINE f == [r \in Rows |-> IF r \in task[s].made THEN cardsOf[s][r] + 1
                                  ELSE cardsOf[s][r]]
  <2>1. cardsOf' = [cardsOf EXCEPT ![s] = f]
    BY DEF CommitChunk
  <2>2. f \in [Rows -> Nat]
    BY DEF ImportTypeOK
  <2>3. \A r \in Rows : f[r] = IF r \in task[s].made THEN cardsOf[s][r] + 1
                               ELSE cardsOf[s][r]
    OBVIOUS
  <2> HIDE DEF f
  <2>4. QED
    BY <2>1, <2>2, <2>3 DEF ImportTypeOK
<1>9. /\ results' \in [ImportSessions -> SUBSET Rows]
      /\ results'[s] = results[s] \cup (task[s].done + 1)..task[s].upto
      /\ \A t \in ImportSessions \ {s} : results'[t] = results[t]
  <2>1. (task[s].done + 1)..task[s].upto \subseteq Rows
    BY <1>0, ImportAssumption DEF Rows
  <2>2. results' = [results EXCEPT ![s] = @ \cup (task[s].done + 1)..task[s].upto]
    BY DEF CommitChunk
  <2>3. QED
    BY <2>1, <2>2 DEF ImportTypeOK
<1>10. ImportTypeOK'
  BY <1>4, <1>6, <1>7, <1>8, <1>9 DEF ImportTypeOK
<1>11. QED
  BY <1>1, <1>4, <1>5, <1>6, <1>7, <1>8, <1>9, <1>10 DEF OtherTasks

(***************************************************************************)
(* The steps of the other requests.                                        *)
(***************************************************************************)

LEMMA BeginCreateParts ==
  ASSUME ImportTypeOK, NEW q \in Creators, BeginCreate(q)
  PROVE  /\ ImportTypeOK' /\ tableLock = NoValue /\ tableLock' = q
         /\ creator'[q] = [at |-> "open", number |-> sequence + 1]
         /\ \A p \in Creators \ {q} : creator'[p] = creator[p]
         /\ UNCHANGED <<sequence, issued, taken, cardsOf, results, import, task>>
<1>1. [at |-> "open", number |-> sequence + 1] \in
        [at : {"new", "open", "done"}, number : Nat]
  BY DEF ImportTypeOK
<1>2. creator' = [creator EXCEPT ![q] = [at |-> "open", number |-> sequence + 1]]
  BY DEF BeginCreate
<1>3. /\ creator' \in [Creators -> [at : {"new", "open", "done"}, number : Nat]]
      /\ creator'[q] = [at |-> "open", number |-> sequence + 1]
      /\ \A p \in Creators \ {q} : creator'[p] = creator[p]
  BY <1>1, <1>2 DEF ImportTypeOK
<1>4. tableLock = NoValue /\ tableLock' = q
      /\ UNCHANGED <<sequence, issued, taken, cardsOf, results, import, task>>
  BY DEF BeginCreate, LockFree
<1>5. QED
  BY <1>3, <1>4 DEF ImportTypeOK

LEMMA CommitCreateParts ==
  ASSUME ImportTypeOK, NEW q \in Creators, CommitCreate(q)
  PROVE  /\ ImportTypeOK' /\ creator[q].at = "open" /\ tableLock' = NoValue
         /\ creator'[q].at = "done"
         /\ \A p \in Creators \ {q} : creator'[p] = creator[p]
         /\ \/ UNCHANGED <<sequence, issued>>
            \/ /\ sequence' = creator[q].number
               /\ \A d \in 1..MaxNumber :
                    issued'[d] = IF d = creator[q].number THEN issued[d] + 1 ELSE issued[d]
         /\ UNCHANGED <<taken, cardsOf, results, import, task>>
<1>0. creator[q] \in [at : {"new", "open", "done"}, number : Nat]
  BY DEF ImportTypeOK
<1>1. creator' = [creator EXCEPT ![q] = [@ EXCEPT !.at = "done"]]
  BY DEF CommitCreate
<1>2. /\ [creator[q] EXCEPT !.at = "done"] \in [at : {"new", "open", "done"}, number : Nat]
      /\ [creator[q] EXCEPT !.at = "done"].at = "done"
  BY <1>0
<1>3. /\ creator' \in [Creators -> [at : {"new", "open", "done"}, number : Nat]]
      /\ creator'[q].at = "done"
      /\ \A p \in Creators \ {q} : creator'[p] = creator[p]
  BY <1>1, <1>2 DEF ImportTypeOK
<1>4. /\ creator[q].at = "open" /\ tableLock' = NoValue
      /\ UNCHANGED <<taken, cardsOf, results, import, task>>
  BY DEF CommitCreate
<1>5. /\ \/ UNCHANGED <<sequence, issued>>
         \/ /\ sequence' = creator[q].number
            /\ \A d \in 1..MaxNumber :
                 issued'[d] = IF d = creator[q].number THEN issued[d] + 1 ELSE issued[d]
      /\ sequence' \in Nat /\ issued' \in [1..MaxNumber -> Nat]
  <2>1. CASE UNCHANGED <<sequence, issued>>
    BY <2>1 DEF ImportTypeOK
  <2>2. CASE /\ sequence' = creator[q].number
             /\ issued' = [issued EXCEPT ![creator[q].number] = @ + 1]
    <3>1. issued \in [1..MaxNumber -> Nat]
      BY DEF ImportTypeOK
    <3>2. \A d \in 1..MaxNumber :
            issued'[d] = IF d = creator[q].number THEN issued[d] + 1 ELSE issued[d]
      BY <2>2, <3>1
    <3>3. issued' \in [1..MaxNumber -> Nat]
      <4> DEFINE k == creator[q].number
      <4>1. issued' = [issued EXCEPT ![k] = issued[k] + 1]
        BY <2>2
      <4>2. k \in 1..MaxNumber => issued[k] + 1 \in Nat
        BY <3>1
      <4> HIDE DEF k
      <4>3. QED
        BY <3>1, <4>1, <4>2
    <3>4. creator[q].number \in Nat
      BY <1>0
    <3>5. QED
      BY <2>2, <3>2, <3>3, <3>4
  <2>3. QED
    BY <2>1, <2>2 DEF CommitCreate
<1>6. QED
  BY <1>3, <1>4, <1>5 DEF ImportTypeOK

LEMMA ValueParts ==
  ASSUME ImportTypeOK, NEW v \in ImportValues, TakeValue(v) \/ FreeValue(v)
  PROVE  /\ ImportTypeOK'
         /\ UNCHANGED <<sequence, tableLock, issued, cardsOf, results, import, task, creator>>
<1>1. taken' \subseteq ImportValues
  BY DEF ImportTypeOK, TakeValue, FreeValue
<1>2. UNCHANGED <<sequence, tableLock, issued, cardsOf, results, import, task, creator>>
  BY DEF TakeValue, FreeValue
<1>3. QED
  BY <1>1, <1>2 DEF ImportTypeOK

(***************************************************************************)
(* The invariant.                                                          *)
(***************************************************************************)

LEMMA ImportInvInit == ImportInit => ImportInv
<1> SUFFICES ASSUME ImportInit PROVE ImportInv
  OBVIOUS
<1>1. NewTask("none", 0, "none") \in ImportTask
  <2>1. 0 \in 0..ImportRetries
    BY ImportAssumption
  <2>2. QED
    BY <2>1, TaskTypes DEF ImportAts
<1>2. ImportTypeOK
  BY <1>1 DEF ImportInit, ImportTypeOK, ImportStatus
<1>3. CreatorsLocked /\ IdsBelow
  BY DEF ImportInit, CreatorsLocked, IdsBelow
<1>4. ASSUME NEW s \in ImportSessions PROVE ImportSound(s)
  <2>1. task[s].at = "none" /\ task[s].done = 0 /\ task[s].retries = 0
    BY DEF ImportInit, NewTask
  <2>2. /\ import[s].status = "NEW" /\ \A r \in Rows : cardsOf[s][r] = 0
    BY DEF ImportInit
  <2>3. ChunkOpen(s) /\ NewIdle(s)
    BY <2>1 DEF ChunkOpen, NewIdle, InChunk
  <2>4. ChunksDone(s)
    BY <2>1, <2>2 DEF ChunksDone
  <2>5. QED
    BY <2>3, <2>4 DEF ImportSound
<1>5. QED
  BY <1>2, <1>3, <1>4 DEF ImportInv

\* A session whose task does not move stays sound, if an open chunk of it keeps
\* the lock and the counter.
LEMMA ImportKeepsSound ==
  ASSUME NEW t \in ImportSessions, ImportSound(t),
         task'[t] = task[t], cardsOf'[t] = cardsOf[t], results'[t] = results[t],
         import'[t] = import[t],
         tableLock = t => tableLock' = t /\ sequence' = sequence
  PROVE  ImportSound(t)'
<1>1. ChunkOpen(t)'
  BY DEF ImportSound, ChunkOpen, InChunk
<1>2. ChunksDone(t)' /\ NewIdle(t)'
  BY DEF ImportSound, ChunksDone, NewIdle
<1>3. QED
  BY <1>1, <1>2 DEF ImportSound

\* The same for the requests that create a card.
LEMMA CreatorsKeep ==
  ASSUME ImportTypeOK, CreatorsLocked, UNCHANGED creator,
         tableLock \in Creators => tableLock' = tableLock /\ sequence' = sequence
  PROVE  CreatorsLocked'
BY DEF CreatorsLocked

LEMMA TurnInv ==
  ASSUME ImportInv, NEW s \in ImportSessions, Turns(s)
  PROVE  ImportInv'
<1>0. ImportTypeOK /\ ImportSound(s)
  BY DEF ImportInv
<1>1. ImportTypeOK'
  BY <1>0, TurnParts DEF ImportTypeOK
<1>2. CreatorsLocked' /\ IdsBelow'
  BY <1>0, TurnParts DEF ImportInv, CreatorsLocked, IdsBelow
<1>3. ImportSound(s)'
  <2>1. task[s].at # "over"
    BY <1>0, TurnParts DEF ImportSound, NewIdle
  <2>2. ChunkOpen(s)'
    BY <1>0, TurnParts DEF ChunkOpen, InChunk
  <2>3. NewIdle(s)'
    BY <1>0, TurnParts DEF ImportSound, NewIdle
  <2>4. ChunksDone(s)'
    <3>1. task[s].done = ImportRows => results[s] = Rows
      <4>1. results[s] \subseteq Rows
        BY <1>0 DEF ImportTypeOK
      <4>2. QED
        BY <1>0, <4>1 DEF ImportSound, ChunksDone, Rows
    <3>2. QED
      BY <1>0, <2>1, <3>1, TurnParts DEF ImportSound, ChunksDone
  <2>5. QED
    BY <2>2, <2>3, <2>4 DEF ImportSound
<1>4. ASSUME NEW t \in ImportSessions, t # s PROVE ImportSound(t)'
  BY <1>0, <1>4, TurnParts, ImportKeepsSound DEF OtherTasks, ImportInv
<1>5. QED
  BY <1>1, <1>2, <1>3, <1>4 DEF ImportInv

LEMMA RollsBackInv ==
  ASSUME ImportInv, NEW s \in ImportSessions, RollsBack(s)
  PROVE  ImportInv'
<1>0. ImportTypeOK /\ ImportSound(s)
  BY DEF ImportInv
<1>1. ImportTypeOK'
  BY <1>0, RollsBackParts DEF ImportTypeOK
<1>2. CreatorsLocked' /\ IdsBelow'
  <2>1. tableLock \in Creators => tableLock' = tableLock
    BY <1>0, RollsBackParts, ImportAssumption
  <2>2. QED
    BY <1>0, <2>1, RollsBackParts, CreatorsKeep DEF ImportInv, IdsBelow
<1>3. ImportSound(s)'
  <2>1. ChunkOpen(s)' /\ NewIdle(s)'
    BY <1>0, RollsBackParts DEF ChunkOpen, InChunk, ImportSound, NewIdle
  <2>2. ChunksDone(s)'
    <3>1. /\ task'[s].done = 0 /\ task[s].retries \in Nat
          /\ task'[s].at # "over" => task'[s].retries = task[s].retries + 1
          /\ task'[s].retries \in {task[s].retries, task[s].retries + 1}
          /\ UNCHANGED <<cardsOf, results, import>>
      BY <1>0, RollsBackParts, TaskParts, ImportAssumption
    <3>2. \A r \in Rows : cardsOf[s][r] \in Nat /\ cardsOf[s][r] <= task[s].retries + 1
      BY <1>0 DEF ImportTypeOK, ImportSound, ChunksDone
    <3>3. import[s].status = "COMPLETED" => results[s] = Rows
      BY <1>0 DEF ImportSound, ChunksDone
    <3>4. \A r \in Rows : cardsOf'[s][r] <= task'[s].retries + 1
      BY <3>1, <3>2
    <3>5. task'[s].at # "over" => \A r \in Rows : cardsOf'[s][r] <= task'[s].retries
      BY <3>1, <3>2
    <3>6. 1..task'[s].done \subseteq results'[s]
      BY <3>1
    <3>7. QED
      BY <3>1, <3>3, <3>4, <3>5, <3>6 DEF ChunksDone
  <2>3. QED
    BY <2>1, <2>2 DEF ImportSound
<1>4. ASSUME NEW t \in ImportSessions, t # s PROVE ImportSound(t)'
  BY <1>0, <1>4, RollsBackParts, ImportKeepsSound DEF OtherTasks, ImportInv
<1>5. QED
  BY <1>1, <1>2, <1>3, <1>4 DEF ImportInv

LEMMA BeginChunkInv ==
  ASSUME ImportInv, NEW s \in ImportSessions, BeginChunk(s)
  PROVE  ImportInv'
<1>0. ImportTypeOK /\ ImportSound(s)
  BY DEF ImportInv
<1>1. ImportTypeOK'
  BY <1>0, BeginChunkParts DEF ImportTypeOK
<1>2. CreatorsLocked' /\ IdsBelow'
  BY <1>0, BeginChunkParts, CreatorsKeep, ImportAssumption DEF ImportInv, IdsBelow
<1>3. ImportSound(s)'
  <2>1. ChunkOpen(s)'
    BY <1>0, BeginChunkParts, TaskParts, ChunkEndBounds DEF ChunkOpen, InChunk
  <2>2. ChunksDone(s)' /\ NewIdle(s)'
    BY <1>0, BeginChunkParts DEF ImportSound, ChunksDone, NewIdle
  <2>3. QED
    BY <2>1, <2>2 DEF ImportSound
<1>4. ASSUME NEW t \in ImportSessions, t # s PROVE ImportSound(t)'
  BY <1>0, <1>4, BeginChunkParts, ImportKeepsSound, ImportAssumption
     DEF OtherTasks, ImportInv
<1>5. QED
  BY <1>1, <1>2, <1>3, <1>4 DEF ImportInv

LEMMA RowInv ==
  ASSUME ImportInv, NEW s \in ImportSessions, CheckRow(s) \/ InsertRow(s) \/ FailRow(s)
  PROVE  ImportInv'
<1>0. ImportTypeOK /\ ImportSound(s) /\ ChunkOpen(s)
  BY DEF ImportInv, ImportSound
<1>1. ImportTypeOK'
  BY <1>0, RowParts DEF ImportTypeOK
<1>2. CreatorsLocked' /\ IdsBelow'
  BY <1>0, RowParts DEF ImportInv, CreatorsLocked, IdsBelow
<1>3. ImportSound(s)'
  <2>1. ChunkOpen(s)'
    <3>1. /\ task[s].done \in 0..ImportRows /\ task[s].upto \in 0..ImportRows
          /\ task[s].done <= task[s].upto /\ task[s].upto < ChunkEnd(task[s].done)
          /\ ChunkEnd(task[s].done) \in Nat
          /\ task[s].made \subseteq (task[s].done + 1)..task[s].upto
          /\ tableLock = s /\ task[s].base = sequence
      BY <1>0, RowParts, TaskParts, ChunkEndBounds DEF ChunkOpen
    <3>2. (task[s].done + 1)..task[s].upto \cup {task[s].upto + 1}
            \subseteq (task[s].done + 1)..(task[s].upto + 1)
      BY <3>1
    <3>3. task'[s].done = task[s].done /\ task'[s].base = task[s].base
          /\ UNCHANGED <<tableLock, sequence>>
      BY <1>0, RowParts
    <3>4. CASE task'[s].at = "checked" /\ task'[s].upto = task[s].upto
               /\ task'[s].made = task[s].made
      BY <3>1, <3>3, <3>4 DEF ChunkOpen
    <3>5. CASE task'[s].at = "row" /\ task'[s].upto = task[s].upto + 1
               /\ task'[s].made \subseteq task[s].made \cup {task[s].upto + 1}
      <4>1. task'[s].made \subseteq (task'[s].done + 1)..task'[s].upto
        BY <3>1, <3>2, <3>3, <3>5
      <4>2. task'[s].done <= task'[s].upto /\ task'[s].upto <= ChunkEnd(task'[s].done)
        BY <3>1, <3>3, <3>5
      <4>3. QED
        BY <3>1, <3>3, <3>5, <4>1, <4>2 DEF ChunkOpen
    <3>6. QED
      BY <1>0, <3>4, <3>5, RowParts
  <2>2. ChunksDone(s)' /\ NewIdle(s)'
    BY <1>0, RowParts DEF ImportSound, ChunksDone, NewIdle, InChunk
  <2>3. QED
    BY <2>1, <2>2 DEF ImportSound
<1>4. ASSUME NEW t \in ImportSessions, t # s PROVE ImportSound(t)'
  BY <1>0, <1>4, RowParts, ImportKeepsSound DEF OtherTasks, ImportInv
<1>5. QED
  BY <1>1, <1>2, <1>3, <1>4 DEF ImportInv

LEMMA CommitChunkInv ==
  ASSUME ImportInv, NEW s \in ImportSessions, CommitChunk(s)
  PROVE  ImportInv'
<1> DEFINE n == task[s].done
           m == task[s].upto
<1>0. ImportTypeOK /\ ImportSound(s) /\ ChunkOpen(s)
  BY DEF ImportInv, ImportSound
<1>1. /\ n \in 0..ImportRows /\ m \in 0..ImportRows /\ n <= m
      /\ task[s].made \subseteq (n + 1)..m /\ tableLock = s
      /\ sequence \in Nat /\ task[s].at = "row"
  BY <1>0, CommitParts, TaskParts DEF ChunkOpen, InChunk, ImportTypeOK
<1>2. ImportTypeOK' /\ tableLock' = NoValue /\ sequence' = sequence + (m - n)
  BY <1>0, CommitParts
<1>3. CreatorsLocked'
  <2>1. tableLock \notin Creators
    BY <1>1, ImportAssumption
  <2>2. QED
    BY <1>0, <2>1, CommitParts, CreatorsKeep DEF ImportInv
<1>4. IdsBelow'
  <2> SUFFICES ASSUME NEW d \in 1..MaxNumber
               PROVE  issued'[d] <= 1 /\ (d > sequence' => issued'[d] = 0)
    BY DEF IdsBelow
  <2>1. issued'[d] = IF d - sequence + n \in task[s].made THEN issued[d] + 1 ELSE issued[d]
    <3>1. issued' = [e \in 1..MaxNumber |->
            IF e - sequence + n \in task[s].made THEN issued[e] + 1 ELSE issued[e]]
      BY <1>0, CommitParts
    <3> HIDE DEF n
    <3>2. QED
      BY <3>1
  <2>2. issued[d] \in Nat /\ issued[d] <= 1 /\ (d > sequence => issued[d] = 0)
    BY <1>0 DEF ImportInv, IdsBelow, ImportTypeOK
  <2>3. d - sequence + n \in task[s].made => d > sequence /\ d <= sequence + (m - n)
    BY <1>1
  <2>4. d > sequence' => d > sequence
    BY <1>1, <1>2
  <2> HIDE DEF n, m
  <2>5. QED
    BY <1>1, <1>2, <2>1, <2>2, <2>3, <2>4
<1>5. ImportSound(s)'
  <2>1. ChunkOpen(s)' /\ NewIdle(s)'
    BY <1>0, <1>1, CommitParts DEF ChunkOpen, InChunk, ImportSound, NewIdle
  <2>2. /\ task'[s].done = m /\ task'[s].retries = task[s].retries
        /\ results'[s] = results[s] \cup (n + 1)..m /\ UNCHANGED import
        /\ \A r \in Rows : cardsOf'[s][r] = IF r \in task[s].made THEN cardsOf[s][r] + 1
                                            ELSE cardsOf[s][r]
    BY <1>0, CommitParts
  <2>3. /\ 1..n \subseteq results[s] /\ results[s] \subseteq Rows
        /\ task[s].retries \in Nat
        /\ \A r \in Rows : cardsOf[s][r] \in Nat
        /\ \A r \in Rows : r > n => cardsOf[s][r] <= task[s].retries
        /\ \A r \in Rows : cardsOf[s][r] <= task[s].retries + 1
        /\ import[s].status = "COMPLETED" => results[s] = Rows
    BY <1>0, <1>1, TaskParts, ImportAssumption DEF ImportSound, ChunksDone, ImportTypeOK
  <2> HIDE DEF n, m
  <2>4. 1..m \subseteq results'[s]
    BY <1>1, <2>2, <2>3
  <2>5. ASSUME NEW r \in Rows
        PROVE  /\ cardsOf'[s][r] <= task[s].retries + 1
               /\ r > m => cardsOf'[s][r] <= task[s].retries
    <3>1. cardsOf'[s][r] = IF r \in task[s].made THEN cardsOf[s][r] + 1 ELSE cardsOf[s][r]
      BY <2>2
    <3>2. r \in task[s].made => r > n /\ r <= m
      BY <1>1
    <3>3. /\ cardsOf[s][r] \in Nat /\ task[s].retries \in Nat
          /\ r > n => cardsOf[s][r] <= task[s].retries
          /\ cardsOf[s][r] <= task[s].retries + 1
      BY <2>3
    <3>4. r > m => r > n
      BY <1>1 DEF Rows
    <3>5. CASE r \in task[s].made
      <4>1. cardsOf'[s][r] = cardsOf[s][r] + 1 /\ cardsOf[s][r] <= task[s].retries
        BY <3>1, <3>2, <3>3, <3>5
      <4>2. ~(r > m)
        BY <1>1, <3>2, <3>5 DEF Rows
      <4>3. QED
        BY <3>3, <4>1, <4>2
    <3>6. CASE r \notin task[s].made
      BY <3>1, <3>3, <3>4, <3>6
    <3>7. QED
      BY <3>5, <3>6
  <2>6. import[s].status = "COMPLETED" => results'[s] = Rows
    BY <1>1, <2>2, <2>3, ImportAssumption DEF Rows
  <2>7. ChunksDone(s)'
    BY <2>2, <2>4, <2>5, <2>6 DEF ChunksDone
  <2>8. QED
    BY <2>1, <2>7 DEF ImportSound
<1>6. ASSUME NEW t \in ImportSessions, t # s PROVE ImportSound(t)'
  BY <1>0, <1>1, <1>6, CommitParts, ImportKeepsSound DEF OtherTasks, ImportInv
<1>7. QED
  BY <1>2, <1>3, <1>4, <1>5, <1>6 DEF ImportInv

LEMMA BeginCreateInv ==
  ASSUME ImportInv, NEW q \in Creators, BeginCreate(q)
  PROVE  ImportInv'
<1>0. ImportTypeOK
  BY DEF ImportInv
<1>1. ImportTypeOK' /\ IdsBelow'
  BY <1>0, BeginCreateParts DEF ImportInv, IdsBelow
<1>2. CreatorsLocked'
  BY <1>0, BeginCreateParts, ImportAssumption DEF ImportInv, CreatorsLocked
<1>3. ASSUME NEW t \in ImportSessions PROVE ImportSound(t)'
  BY <1>0, BeginCreateParts, ImportKeepsSound, ImportAssumption DEF ImportInv
<1>4. QED
  BY <1>1, <1>2, <1>3 DEF ImportInv

LEMMA CommitCreateInv ==
  ASSUME ImportInv, NEW q \in Creators, CommitCreate(q)
  PROVE  ImportInv'
<1>0. ImportTypeOK /\ tableLock = q /\ creator[q].number = sequence + 1 /\ sequence \in Nat
  <2>1. ImportTypeOK
    BY DEF ImportInv
  <2>2. QED
    BY <2>1, CommitCreateParts DEF ImportInv, CreatorsLocked, ImportTypeOK
<1>1. ImportTypeOK'
  BY <1>0, CommitCreateParts
<1>2. IdsBelow'
  <2>1. CASE UNCHANGED <<sequence, issued>>
    BY <2>1 DEF ImportInv, IdsBelow
  <2>2. CASE /\ sequence' = creator[q].number
             /\ \A d \in 1..MaxNumber :
                  issued'[d] = IF d = creator[q].number THEN issued[d] + 1 ELSE issued[d]
    <3>1. \A d \in 1..MaxNumber : /\ issued[d] \in Nat /\ issued[d] <= 1
                                  /\ d > sequence => issued[d] = 0
      BY <1>0 DEF ImportInv, IdsBelow, ImportTypeOK
    <3>2. SUFFICES ASSUME NEW d \in 1..MaxNumber
                   PROVE  issued'[d] <= 1 /\ (d > sequence' => issued'[d] = 0)
      BY DEF IdsBelow
    <3>3. sequence' = sequence + 1
      BY <1>0, <2>2
    <3>4. issued'[d] = IF d = sequence + 1 THEN issued[d] + 1 ELSE issued[d]
      BY <1>0, <2>2
    <3>5. QED
      BY <1>0, <3>1, <3>3, <3>4
  <2>3. QED
    BY <1>0, <2>1, <2>2, CommitCreateParts
<1>3. CreatorsLocked'
  <2>1. \A p \in Creators \ {q} : creator[p].at # "open"
    BY <1>0 DEF ImportInv, CreatorsLocked
  <2>2. QED
    BY <1>0, <2>1, CommitCreateParts DEF CreatorsLocked
<1>4. ASSUME NEW t \in ImportSessions PROVE ImportSound(t)'
  <2>1. tableLock # t
    BY <1>0, ImportAssumption
  <2>2. QED
    BY <1>0, <2>1, CommitCreateParts, ImportKeepsSound DEF ImportInv
<1>5. QED
  BY <1>1, <1>2, <1>3, <1>4 DEF ImportInv

LEMMA ImportInvStep == ImportInv /\ [ImportNext]_importVars => ImportInv'
<1> SUFFICES ASSUME ImportInv, [ImportNext]_importVars PROVE ImportInv'
  OBVIOUS
<1>1. CASE UNCHANGED importVars
  <2>1. UNCHANGED <<sequence, tableLock, issued, taken, cardsOf, results, import, task,
                    creator>>
    BY <1>1 DEF importVars
  <2>2. ASSUME NEW t \in ImportSessions PROVE ImportSound(t)'
    BY <2>1, ImportKeepsSound DEF ImportInv
  <2>3. ImportTypeOK' /\ CreatorsLocked' /\ IdsBelow'
    BY <2>1 DEF ImportInv, ImportTypeOK, CreatorsLocked, IdsBelow
  <2>4. QED
    BY <2>2, <2>3 DEF ImportInv
<1>2. ASSUME NEW v \in ImportValues, TakeValue(v) \/ FreeValue(v) PROVE ImportInv'
  <2>1. ASSUME NEW t \in ImportSessions PROVE ImportSound(t)'
    BY <1>2, ValueParts, ImportKeepsSound DEF ImportInv
  <2>2. QED
    BY <1>2, <2>1, ValueParts DEF ImportInv, CreatorsLocked, IdsBelow
<1>3. QED
  BY <1>1, <1>2, BeginCreateInv, CommitCreateInv, TurnInv, BeginChunkInv, RowInv,
     CommitChunkInv, RollsBackInv
     DEF ImportNext, Turns, RollsBack

LEMMA ImportInvAlways == ImportSpec => []ImportInv
BY ImportInvInit, ImportInvStep, PTL DEF ImportSpec

\* The rows and the tasks keep their types.
THEOREM ImportTypeCorrect == ImportSpec => []ImportTypeOK
<1>1. ImportInv => ImportTypeOK
  BY DEF ImportInv
<1>2. QED
  BY <1>1, ImportInvAlways, PTL

\* No two cards of a table get the same display id.
THEOREM DisplayIdsDistinctAlways == ImportSpec => []DisplayIdsDistinct
<1>1. ImportInv => DisplayIdsDistinct
  BY DEF ImportInv, IdsBelow, DisplayIdsDistinct
<1>2. QED
  BY <1>1, ImportInvAlways, PTL

\* A completed import has a result for every row.
THEOREM CompletedHasAllRowsAlways == ImportSpec => []CompletedHasAllRows
<1>1. ImportInv => CompletedHasAllRows
  BY DEF ImportInv, ImportSound, ChunksDone, CompletedHasAllRows
<1>2. QED
  BY <1>1, ImportInvAlways, PTL

\* A row becomes at most one card per attempt.
THEOREM RowsOncePerAttemptAlways == ImportSpec => []RowsOncePerAttempt
<1>1. ImportInv => RowsOncePerAttempt
  BY DEF ImportInv, ImportSound, ChunksDone, RowsOncePerAttempt
<1>2. QED
  BY <1>1, ImportInvAlways, PTL

(***************************************************************************)
(* Imports: where a duplicate raises.  The table lock keeps other imports  *)
(* out of an open chunk, so only a card edited or restored in the gap      *)
(* between the check of a value and its insert can make the insert fail.   *)
(***************************************************************************)

\* A row whose value was found free, and is not inserted yet.
InGap(s) == ImportAt(s, "checked") /\ ~task[s].duplicate

\* A step in which nobody else takes the value of such a row.
NoneTakesInGap ==
  \A v \in ImportValues : TakeValue(v) => \A s \in ImportSessions : InGap(s) => Value(s) # v

\* What was found free still is, and no insert has failed.
GapInv(s) == task[s].error # "duplicate" /\ (InGap(s) => Value(s) \notin taken)

LEMMA GapKeeps ==
  ASSUME NEW s \in ImportSessions, GapInv(s), task'[s] = task[s],
         InGap(s) /\ Value(s) \notin taken => Value(s) \notin taken'
  PROVE  GapInv(s)'
BY DEF GapInv, InGap, ImportAt, Value, Row

\* The steps of a task that leave its error, the values and the gap.
LEMMA LeavesGap ==
  ASSUME ImportInv, NEW s \in ImportSessions, GapInv(s),
         Turns(s) \/ BeginChunk(s) \/ InsertRow(s) \/ FailRow(s) \/ CommitChunk(s)
  PROVE  GapInv(s)'
<1>0. task[s] \in ImportTask /\ task \in [ImportSessions -> ImportTask]
  BY DEF ImportInv, ImportTypeOK
<1>1. CASE Turns(s)
  <2>1. PICK at \in {"queued", "reading", "over"} : task' = [task EXCEPT ![s].at = at]
    BY <1>1 DEF Turns, StartImport, BeginImport, NoHeader, CheckImportCancelled, FinishImport
  <2>2. task'[s].at # "checked" /\ task'[s].error = task[s].error
    BY <1>0, <2>1 DEF ImportTask
  <2>3. QED
    BY <2>2 DEF GapInv, InGap, ImportAt
<1>2. CASE BeginChunk(s)
  <2>1. task'[s] = [task[s] EXCEPT !.at = "row", !.upto = task[s].done, !.base = sequence,
                                   !.mine = {}, !.made = {}]
    BY <1>0, <1>2 DEF BeginChunk
  <2>2. task'[s].at = "row" /\ task'[s].error = task[s].error
    BY <1>0, <2>1 DEF ImportTask
  <2>3. QED
    BY <2>2 DEF GapInv, InGap, ImportAt
<1>3. CASE InsertRow(s)
  <2>1. PICK m, v : task'[s] = [task[s] EXCEPT !.at = "row", !.upto = Row(s),
                                              !.made = m, !.mine = v]
    BY <1>0, <1>3 DEF InsertRow
  <2>2. task'[s].at = "row" /\ task'[s].error = task[s].error
    BY <1>0, <2>1 DEF ImportTask
  <2>3. QED
    BY <2>2 DEF GapInv, InGap, ImportAt
<1>4. CASE FailRow(s)
  <2>1. task'[s] = [task[s] EXCEPT !.at = "row", !.upto = Row(s)]
    BY <1>0, <1>4 DEF FailRow
  <2>2. task'[s].at = "row" /\ task'[s].error = task[s].error
    BY <1>0, <2>1 DEF ImportTask
  <2>3. QED
    BY <2>2 DEF GapInv, InGap, ImportAt
<1>5. CASE CommitChunk(s)
  <2>1. PICK at \in {"between", "reading"} :
          task'[s] = [task[s] EXCEPT !.done = task[s].upto, !.made = {}, !.mine = {}, !.at = at]
    BY <1>0, <1>5 DEF CommitChunk, NextChunk
  <2>2. task'[s].at = at /\ task'[s].error = task[s].error
    BY <1>0, <2>1 DEF ImportTask
  <2>3. QED
    BY <2>2 DEF GapInv, InGap, ImportAt
<1>6. QED
  BY <1>1, <1>2, <1>3, <1>4, <1>5

LEMMA GapStep ==
  ASSUME ImportInv, \A s \in ImportSessions : GapInv(s),
         [ImportNext /\ NoneTakesInGap]_importVars
  PROVE  \A s \in ImportSessions : GapInv(s)'
<1>0. ImportTypeOK /\ task \in [ImportSessions -> ImportTask]
      /\ \A s \in ImportSessions : ChunkOpen(s)
  BY DEF ImportInv, ImportTypeOK, ImportSound
<1>1. ASSUME NEW q \in Creators, BeginCreate(q) \/ CommitCreate(q)
      PROVE  \A s \in ImportSessions : GapInv(s)'
  BY <1>1, GapKeeps DEF BeginCreate, CommitCreate
<1>2. ASSUME NEW v \in ImportValues, TakeValue(v) \/ FreeValue(v), NoneTakesInGap
      PROVE  \A s \in ImportSessions : GapInv(s)'
  <2>1. UNCHANGED task /\ taken' \subseteq taken \cup {v}
    BY <1>2 DEF TakeValue, FreeValue
  <2>2. TakeValue(v) => \A s \in ImportSessions : InGap(s) => Value(s) # v
    BY <1>2 DEF NoneTakesInGap
  <2>3. FreeValue(v) => taken' \subseteq taken
    BY DEF FreeValue
  <2>4. QED
    BY <1>2, <2>1, <2>2, <2>3, GapKeeps
<1>3. ASSUME NEW s \in ImportSessions,
             Turns(s) \/ BeginChunk(s) \/ InsertRow(s) \/ FailRow(s),
             NEW t \in ImportSessions
      PROVE  GapInv(t)'
  <2>1. CASE t = s
    BY <1>3, <2>1, LeavesGap
  <2>2. CASE t # s
    <3>1. task'[t] = task[t] /\ UNCHANGED taken
      BY <1>0, <1>3, <2>2, TurnParts, BeginChunkParts, RowParts DEF OtherTasks
    <3>2. QED
      BY <3>1, GapKeeps
  <2>3. QED
    BY <2>1, <2>2
<1>4. ASSUME NEW s \in ImportSessions, CheckRow(s), NEW t \in ImportSessions
      PROVE  GapInv(t)'
  <2>1. UNCHANGED taken
    BY <1>4 DEF CheckRow
  <2>2. CASE t = s
    <3> DEFINE d == Value(s) \in taken \cup task[s].mine
    <3>1. task'[s] = [task[s] EXCEPT !.at = "checked", !.duplicate = d]
      BY <1>0, <1>4 DEF CheckRow
    <3> HIDE DEF d
    <3>2. /\ task'[s].duplicate = d /\ task'[s].error = task[s].error
          /\ task'[s].upto = task[s].upto
      BY <1>0, <3>1 DEF ImportTask
    <3>3. InGap(s)' => Value(s) \notin taken
      BY <3>2 DEF InGap, d
    <3>4. QED
      BY <2>1, <2>2, <3>2, <3>3 DEF GapInv, Value, Row
  <2>3. CASE t # s
    <3>1. task'[t] = task[t]
      BY <1>0, <1>4, <2>3, RowParts DEF OtherTasks
    <3>2. QED
      BY <2>1, <3>1, GapKeeps
  <2>4. QED
    BY <2>2, <2>3
<1>5. ASSUME NEW s \in ImportSessions, CommitChunk(s), NEW t \in ImportSessions
      PROVE  GapInv(t)'
  <2>1. CASE t = s
    BY <1>5, <2>1, LeavesGap
  <2>2. CASE t # s
    <3>1. task'[t] = task[t] /\ task[s].at = "row"
      BY <1>0, <1>5, <2>2, CommitParts DEF OtherTasks
    <3>2. ~InGap(t)
      BY <1>0, <2>2, <3>1 DEF InGap, ImportAt, ChunkOpen, InChunk
    <3>3. QED
      BY <3>1, <3>2, GapKeeps
  <2>3. QED
    BY <2>1, <2>2
<1>6. ASSUME NEW s \in ImportSessions, RollsBack(s), NEW t \in ImportSessions
      PROVE  GapInv(t)'
  <2>1. CASE t = s
    <3>1. ~DuplicateRaises(s)
      BY DEF GapInv, InGap, DuplicateRaises
    <3>2. task'[s].at # "checked" /\ task'[s].error \in {"other", task[s].error}
      <4>1. \A at, n, e : NewTask(at, n, e).at = at /\ NewTask(at, n, e).error = e
        BY DEF NewTask
      <4>2. CASE FailImport(s)
        <5>1. task'[s] = IF task[s].retries < ImportRetries
                         THEN NewTask("queued", task[s].retries + 1, "other")
                         ELSE NewTask("over", task[s].retries, "other")
          BY <1>0, <4>2 DEF FailImport, RaiseImport
        <5>2. QED
          BY <4>1, <5>1
      <4>3. CASE StopImport(s)
        <5>1. task'[s] = NewTask("over", task[s].retries, task[s].error)
          BY <1>0, <4>3 DEF StopImport
        <5>2. QED
          BY <4>1, <5>1
      <4>4. QED
        BY <1>6, <3>1, <4>2, <4>3 DEF RollsBack
    <3>3. QED
      BY <2>1, <3>2 DEF GapInv, InGap, ImportAt
  <2>2. CASE t # s
    <3>1. task'[t] = task[t] /\ UNCHANGED taken
      BY <1>0, <1>6, <2>2, RollsBackParts DEF OtherTasks
    <3>2. QED
      BY <3>1, GapKeeps
  <2>3. QED
    BY <2>1, <2>2
<1>7. CASE UNCHANGED importVars
  BY <1>7, GapKeeps DEF importVars
<1>8. QED
  BY <1>1, <1>2, <1>3, <1>4, <1>5, <1>6, <1>7 DEF ImportNext, Turns, RollsBack

\* Duplicates of a workbook, of cards made before and of other imports never
\* raise: the task fails on a duplicate only where another request took the value
\* between the check of a row and its insert.
THEOREM DuplicatesRaiseInGapOnly ==
  ImportSpec /\ [][NoneTakesInGap]_importVars => []DuplicatesDoNotCrash
<1>1. ImportInit => \A s \in ImportSessions : GapInv(s)
  <2> SUFFICES ASSUME ImportInit, NEW s \in ImportSessions PROVE GapInv(s)
    OBVIOUS
  <2>1. task[s] = NewTask("none", 0, "none")
    BY DEF ImportInit
  <2>2. task[s].at = "none" /\ task[s].error = "none"
    BY <2>1 DEF NewTask
  <2>3. QED
    BY <2>2 DEF GapInv, InGap, ImportAt
<1>2. /\ ImportInv /\ (\A s \in ImportSessions : GapInv(s))
      /\ [ImportNext]_importVars /\ [NoneTakesInGap]_importVars
      => (\A s \in ImportSessions : GapInv(s))'
  BY GapStep
<1>3. (\A s \in ImportSessions : GapInv(s)) => DuplicatesDoNotCrash
  BY DEF GapInv, DuplicatesDoNotCrash
<1>4. QED
  BY <1>1, <1>2, <1>3, ImportInvAlways, PTL DEF ImportSpec

(***************************************************************************)
(* Images: types.                                                          *)
(***************************************************************************)

Working(w) == editor[w] # NoEditor

LEMMA EditorParts ==
  ASSUME MediaTypeOK, NEW w \in ImageWorkers, Working(w)
  PROVE  /\ editor[w] \in Editor
         /\ editor[w].field \in ImageFields /\ editor[w].image \in Picture
         /\ editor[w].copy \in [ImageFields -> Picture] /\ editor[w].found \in Reference
BY DEF MediaTypeOK, Editor, Working

\* What it takes to begin.
LEMMA BegunParts ==
  ASSUME MediaTypeOK, NEW w \in ImageWorkers, NEW op \in ImageOp,
         NEW f \in ImageFields, NEW i \in Picture, Begun(w, op, f, i)
  PROVE  /\ editor' \in [ImageWorkers -> Editor \cup {NoEditor}]
         /\ editor'[w] = [at |-> "fetched", op |-> op, field |-> f, image |-> i,
                          copy |-> pointer, found |-> NoReference]
         /\ \A v \in ImageWorkers \ {w} : editor'[v] = editor[v]
<1>1. NoReference \in Reference
  BY MediaAssumption DEF NoReference, Reference, Picture
<1>2. [at |-> "fetched", op |-> op, field |-> f, image |-> i, copy |-> pointer,
       found |-> NoReference] \in Editor
  BY <1>1 DEF Editor, MediaTypeOK
<1>3. QED
  BY <1>2 DEF Begun, MediaTypeOK

Fetches(w) ==
  \/ \E f \in ImageFields :
       \/ FetchToDelete(w, f)
       \/ \E i \in Images : FetchToUpload(w, f, i) \/ FetchToApprove(w, f, i)
       \/ \E i \in Picture : FetchToEdit(w, f, i)
  \/ \E i \in Images : FetchToRestore(w, i)

\* What an operation on f and i needs to begin.
BeginsWith(op, f, i) ==
  \/ op = "delete" /\ i = NoImage
  \/ op = "edit" /\ (i # NoImage => Exists(i))
  \/ op = "upload" /\ i \in Images /\ ~Exists(i)
  \/ op = "approve" /\ i \in Images /\ Exists(i)
  \/ op = "restore" /\ i \in Images /\ Exists(i) /\ media[i].deleted /\ f = media[i].field

LEMMA FetchParts ==
  ASSUME MediaTypeOK, NEW w \in ImageWorkers, Fetches(w)
  PROVE  /\ MediaTypeOK' /\ MayBegin(w)
         /\ Working(w)' /\ editor'[w].at = "fetched" /\ editor'[w].copy = pointer
         /\ BeginsWith(editor'[w].op, editor'[w].field, editor'[w].image)
         /\ \A v \in ImageWorkers \ {w} : editor'[v] = editor[v]
         /\ UNCHANGED <<media, stored, reference, pointer, made, drafted, edited, overlap>>
<1>0. NoImage \in Picture /\ Images \subseteq Picture
  BY DEF Picture
<1>1. PICK op \in ImageOp, f \in ImageFields, i \in Picture :
        Begun(w, op, f, i) /\ MayBegin(w) /\ BeginsWith(op, f, i)
  <2>1. ASSUME NEW f \in ImageFields, FetchToDelete(w, f)
        PROVE  \E op \in ImageOp, g \in ImageFields, i \in Picture :
                 Begun(w, op, g, i) /\ MayBegin(w) /\ BeginsWith(op, g, i)
    BY <1>0, <2>1 DEF FetchToDelete, BeginsWith, ImageOp
  <2>2. ASSUME NEW f \in ImageFields, NEW i \in Images,
               FetchToUpload(w, f, i) \/ FetchToApprove(w, f, i)
        PROVE  \E op \in ImageOp, g \in ImageFields, j \in Picture :
                 Begun(w, op, g, j) /\ MayBegin(w) /\ BeginsWith(op, g, j)
    BY <1>0, <2>2 DEF FetchToUpload, FetchToApprove, BeginsWith, ImageOp
  <2>3. ASSUME NEW f \in ImageFields, NEW i \in Picture, FetchToEdit(w, f, i)
        PROVE  \E op \in ImageOp, g \in ImageFields, j \in Picture :
                 Begun(w, op, g, j) /\ MayBegin(w) /\ BeginsWith(op, g, j)
    BY <2>3 DEF FetchToEdit, BeginsWith, ImageOp
  <2>4. ASSUME NEW i \in Images, FetchToRestore(w, i)
        PROVE  \E op \in ImageOp, g \in ImageFields, j \in Picture :
                 Begun(w, op, g, j) /\ MayBegin(w) /\ BeginsWith(op, g, j)
    <3>1. media[i].field \in ImageFields
      BY <2>4 DEF FetchToRestore, Exists, MediaTypeOK, MediaRow
    <3>2. QED
      BY <1>0, <2>4, <3>1 DEF FetchToRestore, BeginsWith, ImageOp
  <2>5. QED
    BY <2>1, <2>2, <2>3, <2>4 DEF Fetches
<1>2. editor'[w] = [at |-> "fetched", op |-> op, field |-> f, image |-> i,
                    copy |-> pointer, found |-> NoReference]
  BY <1>1, BegunParts
<1>3. /\ editor'[w].at = "fetched" /\ editor'[w].copy = pointer /\ editor'[w].op = op
      /\ editor'[w].image = i /\ editor'[w].field = f
  BY <1>2
<1>4. editor'[w] # NoEditor
  BY <1>3 DEF NoEditor
<1>5. UNCHANGED <<media, stored, reference, pointer, made, drafted, edited, overlap>>
  BY DEF Fetches, FetchToDelete, FetchToUpload, FetchToApprove, FetchToEdit, FetchToRestore
<1>6. MediaTypeOK'
  BY <1>1, <1>5, BegunParts DEF MediaTypeOK
<1>7. QED
  BY <1>1, <1>3, <1>4, <1>5, <1>6, BegunParts DEF Working

\* An operation goes on: it has stored its file, or looked up its reference.
LEMMA AdvanceParts ==
  ASSUME MediaTypeOK, NEW w \in ImageWorkers, StoreImage(w) \/ LookUpReference(w),
         editor[w].op = "upload" => editor[w].image \in Images
  PROVE  /\ MediaTypeOK' /\ Working(w) /\ Working(w)'
         /\ editor'[w].op = editor[w].op /\ editor'[w].image = editor[w].image
         /\ editor'[w].field = editor[w].field /\ editor'[w].copy = editor[w].copy
         /\ \/ /\ editor'[w].at = "stored" /\ editor[w].op = "upload"
               /\ stored' = stored \cup {editor[w].image}
            \/ /\ editor'[w].at = "looked" /\ stored' = stored
               /\ editor'[w].found = reference[editor[w].field]
               /\ editor[w].op = "upload" => editor[w].at = "stored"
         /\ \A v \in ImageWorkers \ {w} : editor'[v] = editor[v]
         /\ UNCHANGED <<media, reference, pointer, made, drafted, edited, overlap>>
<1>1. Working(w)
  BY DEF StoreImage, LookUpReference, EditorAt, Working
<1>2. CASE StoreImage(w)
  <2>1. editor' = [editor EXCEPT ![w] = [@ EXCEPT !.at = "stored"]]
        /\ editor[w].op = "upload" /\ stored' = stored \cup {editor[w].image}
        /\ UNCHANGED <<media, reference, pointer, made, drafted, edited, overlap>>
    BY <1>2 DEF StoreImage, SavedFile
  <2>2. \A q \in Editor :
          /\ [q EXCEPT !.at = "stored"] \in Editor
          /\ [q EXCEPT !.at = "stored"].at = "stored"
          /\ [q EXCEPT !.at = "stored"].op = q.op
          /\ [q EXCEPT !.at = "stored"].image = q.image
          /\ [q EXCEPT !.at = "stored"].field = q.field
          /\ [q EXCEPT !.at = "stored"].copy = q.copy
    BY DEF Editor
  <2>3. /\ editor'[w] = [editor[w] EXCEPT !.at = "stored"]
        /\ editor' \in [ImageWorkers -> Editor \cup {NoEditor}]
        /\ \A v \in ImageWorkers \ {w} : editor'[v] = editor[v]
    BY <1>1, <2>1, <2>2, EditorParts DEF MediaTypeOK
  <2>4. editor'[w].at = "stored" /\ Working(w)'
    BY <1>1, <2>2, <2>3, EditorParts DEF NoEditor, Working
  <2>5. stored' \subseteq Images
    BY <2>1 DEF MediaTypeOK
  <2>6. QED
    BY <1>1, <2>1, <2>2, <2>3, <2>4, <2>5, EditorParts DEF MediaTypeOK
<1>3. CASE LookUpReference(w)
  <2> DEFINE r == reference[editor[w].field]
  <2>1. r \in Reference
    BY <1>1, EditorParts DEF MediaTypeOK
  <2>2. /\ editor' = [editor EXCEPT ![w] = [editor[w] EXCEPT !.at = "looked", !.found = r]]
        /\ UNCHANGED <<media, stored, reference, pointer, made, drafted, edited, overlap>>
    BY <1>3 DEF LookUpReference
  <2>3. editor[w].op = "upload" => editor[w].at = "stored"
    BY <1>3 DEF LookUpReference, EditorAt
  <2> DEFINE q == [editor[w] EXCEPT !.at = "looked", !.found = r]
  <2>4. editor[w] \in Editor
    BY <1>1, EditorParts
  <2> HIDE DEF r
  <2>5. /\ q \in Editor /\ q.at = "looked" /\ q.found = r /\ q.op = editor[w].op
        /\ q.image = editor[w].image /\ q.field = editor[w].field
        /\ q.copy = editor[w].copy
    BY <2>1, <2>4 DEF Editor
  <2>6. editor' = [editor EXCEPT ![w] = q]
    BY <2>2
  <2> HIDE DEF q
  <2>7. /\ editor'[w] = q /\ editor' \in [ImageWorkers -> Editor \cup {NoEditor}]
        /\ \A v \in ImageWorkers \ {w} : editor'[v] = editor[v]
    BY <2>5, <2>6 DEF MediaTypeOK
  <2>8. editor'[w] # NoEditor
    BY <2>5, <2>7 DEF NoEditor
  <2>9. MediaTypeOK'
    BY <2>2, <2>7 DEF MediaTypeOK
  <2>10. QED
    BY <1>1, <2>2, <2>3, <2>5, <2>7, <2>8, <2>9 DEF Working, r
<1>4. QED
  BY <1>2, <1>3

LEMMA ReplacedParts ==
  ASSUME MediaTypeOK, NEW f \in ImageFields, NEW i \in Picture, NEW r \in Reference,
         media' = Replaced(f, i, r)
  PROVE  /\ media' \in [Images -> MediaRow]
         /\ \A m \in Images :
              /\ m = r.image => media'[m].field = media[m].field /\ media'[m].deleted
              /\ m # r.image /\ m = i => media'[m].field = f /\ ~media'[m].deleted
              /\ m # r.image /\ m # i => media'[m] = media[m]
<1>1. \A m \in Images : media[m] \in MediaRow
  BY DEF MediaTypeOK
<1>2. \A row \in MediaRow :
        /\ [row EXCEPT !.deleted = TRUE] \in MediaRow
        /\ [row EXCEPT !.deleted = TRUE].field = row.field
        /\ [row EXCEPT !.deleted = TRUE].deleted
  BY DEF MediaRow
<1>3. [field |-> f, deleted |-> FALSE] \in MediaRow
  BY DEF MediaRow
<1>4. /\ media' \in [Images -> MediaRow]
      /\ \A m \in Images :
           media'[m] = IF m = r.image THEN [media[m] EXCEPT !.deleted = TRUE]
                       ELSE IF m = i THEN [field |-> f, deleted |-> FALSE] ELSE media[m]
  BY <1>1, <1>2, <1>3 DEF Replaced
<1>5. ASSUME NEW m \in Images
      PROVE  /\ m = r.image => media'[m].field = media[m].field /\ media'[m].deleted
             /\ m # r.image /\ m = i => media'[m].field = f /\ ~media'[m].deleted
             /\ m # r.image /\ m # i => media'[m] = media[m]
  <2>1. CASE m = r.image
    BY <1>1, <1>2, <1>4, <2>1
  <2>2. CASE m # r.image /\ m = i
    <3>1. media'[m] = [field |-> f, deleted |-> FALSE]
      BY <1>4, <2>2
    <3>2. media'[m].field = f /\ ~media'[m].deleted
      BY <3>1
    <3>3. QED
      BY <2>2, <3>2
  <2>3. CASE m # r.image /\ m # i
    BY <1>4, <2>3
  <2>4. QED
    BY <2>1, <2>2, <2>3
<1>6. QED
  BY <1>4, <1>5

\* The end of an operation: the process is free again.
LEMMA FreedParts ==
  ASSUME MediaTypeOK, NEW w \in ImageWorkers, editor' = [editor EXCEPT ![w] = NoEditor]
  PROVE  /\ editor' \in [ImageWorkers -> Editor \cup {NoEditor}] /\ editor'[w] = NoEditor
         /\ \A v \in ImageWorkers \ {w} : editor'[v] = editor[v]
BY DEF MediaTypeOK

\* The reference of f is a new one, of i.
LEMMA RefersParts ==
  ASSUME MediaTypeOK, NEW f \in ImageFields, NEW i \in Picture, NEW r \in Reference,
         Refers(f, i, r)
  PROVE  /\ reference[f] \in {r, NoReference} /\ made' \in 0..MaxReferences
         /\ reference' \in [ImageFields -> Reference] /\ reference'[f].image = i
         /\ \A g \in ImageFields \ {f} : reference'[g] = reference[g]
<1> DEFINE new == [image |-> i, id |-> made + 1]
<1>1. /\ reference[f] \in {r, NoReference} /\ made < MaxReferences
      /\ made' = made + 1 /\ reference' = [reference EXCEPT ![f] = new]
  BY DEF Refers
<1>2. made + 1 \in 0..MaxReferences
  BY <1>1, MediaAssumption DEF MediaTypeOK
<1>3. new \in Reference /\ new.image = i
  BY <1>2 DEF Reference
<1> HIDE DEF new
<1>4. QED
  BY <1>1, <1>2, <1>3 DEF MediaTypeOK

LEMMA CommitImageParts ==
  ASSUME MediaTypeOK, NEW w \in ImageWorkers, CommitImage(w)
  PROVE  LET e == editor[w]
         IN /\ MediaTypeOK' /\ Working(w) /\ e.at = "looked"
            /\ e.op \in {"upload", "restore"}
            /\ reference[e.field] \in {e.found, NoReference}
            /\ media' = Replaced(e.field, e.image, e.found)
            /\ reference'[e.field].image = e.image
            /\ \A g \in ImageFields \ {e.field} : reference'[g] = reference[g]
            /\ pointer' = [e.copy EXCEPT ![e.field] = e.image]
            /\ edited' = edited \ {e.field}
            /\ editor'[w] = NoEditor
            /\ \A v \in ImageWorkers \ {w} : editor'[v] = editor[v]
            /\ UNCHANGED <<stored, drafted, overlap>>
<1> DEFINE e == editor[w]
<1>1. Working(w) /\ e.at = "looked" /\ e.op \in {"upload", "restore"}
  BY DEF CommitImage, EditorAt, Working
<1>2. /\ e.field \in ImageFields /\ e.image \in Picture
      /\ e.copy \in [ImageFields -> Picture] /\ e.found \in Reference
  BY <1>1, EditorParts
<1>3. /\ media' = Replaced(e.field, e.image, e.found)
      /\ Refers(e.field, e.image, e.found)
      /\ pointer' = [e.copy EXCEPT ![e.field] = e.image]
      /\ edited' = edited \ {e.field}
      /\ editor' = [editor EXCEPT ![w] = NoEditor] /\ UNCHANGED <<stored, drafted, overlap>>
  BY DEF CommitImage, SavedCard
<1>4. pointer' \in [ImageFields -> Picture] /\ edited' \subseteq ImageFields
  BY <1>2, <1>3 DEF MediaTypeOK
<1>5. media' \in [Images -> MediaRow]
  BY <1>2, <1>3, ReplacedParts
<1>6. MediaTypeOK'
  BY <1>2, <1>3, <1>4, <1>5, RefersParts, FreedParts DEF MediaTypeOK
<1>7. QED
  BY <1>1, <1>2, <1>3, <1>6, RefersParts, FreedParts

LEMMA CommitApprovalParts ==
  ASSUME MediaTypeOK, NEW w \in ImageWorkers, CommitApproval(w), editor[w].image \in Images
  PROVE  LET e == editor[w]
         IN /\ MediaTypeOK' /\ Working(w) /\ e.at = "looked" /\ e.op = "approve"
            /\ reference[e.field] \in {e.found, NoReference}
            /\ media' = Replaced(e.field, NoImage, e.found)
            /\ reference'[e.field].image = e.image
            /\ \A g \in ImageFields \ {e.field} : reference'[g] = reference[g]
            /\ pointer' = [e.copy EXCEPT ![e.field] = e.image]
            /\ drafted' = drafted \cup {e.image} /\ edited' = edited \ {e.field}
            /\ editor'[w] = NoEditor
            /\ \A v \in ImageWorkers \ {w} : editor'[v] = editor[v]
            /\ UNCHANGED <<stored, overlap>>
<1> DEFINE e == editor[w]
<1>1. Working(w) /\ e.at = "looked" /\ e.op = "approve"
  BY DEF CommitApproval, EditorAt, Working
<1>2. /\ e.field \in ImageFields /\ e.image \in Picture /\ NoImage \in Picture
      /\ e.copy \in [ImageFields -> Picture] /\ e.found \in Reference
  BY <1>1, EditorParts DEF Picture
<1>3. /\ media' = Replaced(e.field, NoImage, e.found)
      /\ Refers(e.field, e.image, e.found)
      /\ pointer' = [e.copy EXCEPT ![e.field] = e.image]
      /\ drafted' = drafted \cup {e.image} /\ edited' = edited \ {e.field}
      /\ editor' = [editor EXCEPT ![w] = NoEditor] /\ UNCHANGED <<stored, overlap>>
  BY DEF CommitApproval, SavedCard
<1>4. /\ pointer' \in [ImageFields -> Picture]
      /\ drafted' \subseteq Images /\ edited' \subseteq ImageFields
  BY <1>2, <1>3 DEF MediaTypeOK
<1>5. media' \in [Images -> MediaRow]
  BY <1>2, <1>3, ReplacedParts
<1>6. MediaTypeOK'
  BY <1>2, <1>3, <1>4, <1>5, RefersParts, FreedParts DEF MediaTypeOK
<1>7. QED
  BY <1>1, <1>2, <1>3, <1>6, RefersParts, FreedParts

LEMMA CommitOtherSaveParts ==
  ASSUME MediaTypeOK, NEW w \in ImageWorkers, CommitOtherSave(w)
  PROVE  /\ MediaTypeOK' /\ Working(w) /\ editor'[w] = NoEditor
         /\ \A f \in ImageFields : f \notin edited' => f \notin edited /\ pointer'[f] = pointer[f]
         /\ \A v \in ImageWorkers \ {w} : editor'[v] = editor[v]
         /\ UNCHANGED <<media, stored, reference, made, drafted, overlap>>
<1> DEFINE e == editor[w]
<1>1. Working(w)
  BY DEF CommitOtherSave, EditorAt, Working
<1>2. e.field \in ImageFields /\ e.image \in Picture /\ e.copy \in [ImageFields -> Picture]
  BY <1>1, EditorParts
<1>3. /\ pointer' = [e.copy EXCEPT ![e.field] = e.image]
      /\ edited' = edited \cup {f \in ImageFields : pointer'[f] # pointer[f]}
      /\ editor' = [editor EXCEPT ![w] = NoEditor]
      /\ UNCHANGED <<media, stored, reference, made, drafted, overlap>>
  BY DEF CommitOtherSave, SavedCard
<1>4. pointer' \in [ImageFields -> Picture] /\ edited' \subseteq ImageFields
  BY <1>2, <1>3 DEF MediaTypeOK
<1>5. MediaTypeOK'
  BY <1>3, <1>4, FreedParts DEF MediaTypeOK
<1>6. QED
  BY <1>1, <1>3, <1>5, FreedParts

LEMMA CommitDeleteParts ==
  ASSUME MediaTypeOK, NEW w \in ImageWorkers, CommitDelete(w)
  PROVE  LET e == editor[w]
         IN /\ MediaTypeOK' /\ Working(w) /\ e.at = "looked" /\ e.op = "delete"
            /\ media' = Replaced(e.field, NoImage, e.found)
            /\ reference'[e.field] = IF reference[e.field] = e.found THEN NoReference
                                     ELSE reference[e.field]
            /\ \A g \in ImageFields \ {e.field} : reference'[g] = reference[g]
            /\ \/ pointer' = [e.copy EXCEPT ![e.field] = NoImage]
               \/ e.copy[e.field] = NoImage /\ pointer' = pointer
            /\ edited' = edited \ {e.field}
            /\ editor'[w] = NoEditor
            /\ \A v \in ImageWorkers \ {w} : editor'[v] = editor[v]
            /\ UNCHANGED <<stored, drafted, overlap>>
<1> DEFINE e == editor[w]
<1>1. Working(w) /\ e.at = "looked" /\ e.op = "delete"
  BY DEF CommitDelete, EditorAt, Working
<1>2. /\ e.field \in ImageFields /\ e.copy \in [ImageFields -> Picture]
      /\ e.found \in Reference /\ NoImage \in Picture
  BY <1>1, EditorParts DEF Picture
<1>3. /\ media' = Replaced(e.field, NoImage, e.found)
      /\ reference' = IF reference[e.field] = e.found
                      THEN [reference EXCEPT ![e.field] = NoReference] ELSE reference
      /\ \/ pointer' = [e.copy EXCEPT ![e.field] = NoImage]
         \/ e.copy[e.field] = NoImage /\ pointer' = pointer
      /\ edited' = edited \ {e.field}
      /\ editor' = [editor EXCEPT ![w] = NoEditor]
      /\ UNCHANGED <<stored, made, drafted, overlap>>
  BY DEF CommitDelete, SavedCard
<1>4. NoReference \in Reference
  BY MediaAssumption DEF NoReference, Reference, Picture
<1>5. /\ reference' \in [ImageFields -> Reference]
      /\ reference'[e.field] = IF reference[e.field] = e.found THEN NoReference
                               ELSE reference[e.field]
      /\ \A g \in ImageFields \ {e.field} : reference'[g] = reference[g]
  BY <1>2, <1>3, <1>4 DEF MediaTypeOK
<1>6. pointer' \in [ImageFields -> Picture] /\ edited' \subseteq ImageFields
  BY <1>2, <1>3 DEF MediaTypeOK
<1>7. media' \in [Images -> MediaRow]
  BY <1>2, <1>3, ReplacedParts
<1>8. MediaTypeOK'
  BY <1>3, <1>5, <1>6, <1>7, FreedParts DEF MediaTypeOK
<1>9. QED
  BY <1>1, <1>3, <1>5, <1>8, FreedParts

(***************************************************************************)
(* Images: nothing is lost, whatever overlaps.                             *)
(***************************************************************************)

\* What an operation relies on until it commits.
EditorHolds(w) ==
  /\ editor[w].op \in {"upload", "restore", "approve"} => editor[w].image \in Images
  /\ editor[w].op = "upload" /\ editor[w].at \in {"stored", "looked"} =>
       editor[w].image \in stored
  /\ editor[w].op \in {"restore", "approve"} => Exists(editor[w].image)

MediaInv ==
  /\ MediaTypeOK /\ RowsHaveFiles /\ NoImageLost
  /\ \A w \in ImageWorkers : Working(w) => EditorHolds(w)

LEMMA MediaInvInit == MediaInit => MediaInv
<1> SUFFICES ASSUME MediaInit PROVE MediaInv
  OBVIOUS
<1>1. NoReference \in Reference /\ NoMedia \in MediaRow /\ 0 \in 0..MaxReferences
  BY MediaAssumption DEF NoReference, Reference, Picture, NoMedia, MediaRow
<1>2. MediaTypeOK
  BY <1>1 DEF MediaInit, MediaTypeOK, Picture
<1>3. \A i \in Images : ~Exists(i)
  BY DEF MediaInit, Exists, NoMedia
<1>4. \A w \in ImageWorkers : ~Working(w)
  BY DEF MediaInit, Working
<1>5. QED
  BY <1>2, <1>3, <1>4 DEF MediaInv, RowsHaveFiles, NoImageLost

\* Rows and files stay, so an operation that does not move still holds.
LEMMA HoldsKeep ==
  ASSUME NEW v \in ImageWorkers, EditorHolds(v), editor'[v] = editor[v],
         stored \subseteq stored', \A i \in Images : Exists(i) => Exists(i)'
  PROVE  EditorHolds(v)'
BY DEF EditorHolds

LEMMA CommitImageInv ==
  ASSUME MediaInv, NEW w \in ImageWorkers, CommitImage(w)
  PROVE  MediaInv'
<1> DEFINE e == editor[w]
           f == e.field
           i == e.image
           x == e.found.image
<1>0. MediaTypeOK /\ EditorHolds(w) /\ Working(w)
  BY CommitImageParts DEF MediaInv
<1>1. /\ f \in ImageFields /\ i \in Images /\ i \in stored /\ e.found \in Reference
      /\ e.op \in {"upload", "restore"} /\ e.at = "looked"
  <2>1. f \in ImageFields /\ e.found \in Reference
    BY <1>0, EditorParts
  <2>2. e.op \in {"upload", "restore"} /\ e.at = "looked" /\ i \in Images
    BY <1>0, CommitImageParts DEF EditorHolds
  <2>3. e.op = "restore" => i \in stored
    BY <1>0, <2>2 DEF EditorHolds, MediaInv, RowsHaveFiles
  <2>4. e.op = "upload" => i \in stored
    BY <1>0, <2>2 DEF EditorHolds
  <2>5. QED
    BY <2>1, <2>2, <2>3, <2>4
<1>2. /\ MediaTypeOK' /\ media' = Replaced(f, i, e.found)
      /\ reference[f] \in {e.found, NoReference} /\ reference'[f].image = i
      /\ \A g \in ImageFields \ {f} : reference'[g] = reference[g]
      /\ editor'[w] = NoEditor /\ UNCHANGED stored
      /\ \A v \in ImageWorkers \ {w} : editor'[v] = editor[v]
  BY <1>0, CommitImageParts
<1>3. \A m \in Images :
        /\ m = x => media'[m].field = media[m].field /\ media'[m].deleted
        /\ m # x /\ m = i => media'[m].field = f /\ ~media'[m].deleted
        /\ m # x /\ m # i => media'[m] = media[m]
  BY <1>0, <1>1, <1>2, ReplacedParts DEF Picture
<1> HIDE DEF e, f, i, x
<1>4. /\ \A m \in Images : Exists(m) => Exists(m)'
      /\ \A m \in Images : Exists(m)' => Exists(m) \/ m = i
  BY <1>1, <1>3, MediaAssumption DEF Exists
<1>5. RowsHaveFiles'
  BY <1>1, <1>2, <1>4 DEF MediaInv, RowsHaveFiles
<1>6. NoImageLost'
  <2> SUFFICES ASSUME NEW m \in Images, Exists(m)'
               PROVE  media'[m].deleted \/ \E g \in ImageFields : reference'[g].image = m
    BY DEF NoImageLost
  <2>1. CASE m = x
    BY <1>3, <2>1
  <2>2. CASE m # x /\ m = i
    BY <1>1, <1>2, <2>2
  <2>3. CASE m # x /\ m # i
    <3>1. media'[m] = media[m] /\ Exists(m)
      BY <1>3, <2>3 DEF Exists
    <3>2. media[m].deleted \/ \E g \in ImageFields : reference[g].image = m
      BY <3>1 DEF MediaInv, NoImageLost
    <3>3. reference[f].image # m
      <4>1. NoReference.image # m
        BY MediaAssumption DEF NoReference
      <4>2. e.found.image # m
        BY <2>3 DEF x
      <4>3. QED
        BY <1>2, <4>1, <4>2
    <3>4. QED
      BY <1>2, <3>1, <3>2, <3>3
  <2>4. QED
    BY <2>1, <2>2, <2>3
<1>7. ASSUME NEW v \in ImageWorkers, Working(v)' PROVE EditorHolds(v)'
  BY <1>2, <1>4, <1>7, HoldsKeep DEF MediaInv, Working
<1>8. QED
  BY <1>2, <1>5, <1>6, <1>7 DEF MediaInv

LEMMA CommitApprovalInv ==
  ASSUME MediaInv, NEW w \in ImageWorkers, CommitApproval(w)
  PROVE  MediaInv'
<1> DEFINE e == editor[w]
           f == e.field
           i == e.image
           x == e.found.image
<1>0. MediaTypeOK /\ EditorHolds(w) /\ Working(w) /\ i \in Images
  <2>1. Working(w) /\ e.op = "approve"
    BY DEF CommitApproval, EditorAt, Working
  <2>2. QED
    BY <2>1 DEF MediaInv, EditorHolds
<1>1. f \in ImageFields /\ e.found \in Reference
  BY <1>0, EditorParts
<1>2. /\ MediaTypeOK' /\ media' = Replaced(f, NoImage, e.found)
      /\ reference[f] \in {e.found, NoReference} /\ reference'[f].image = i
      /\ \A g \in ImageFields \ {f} : reference'[g] = reference[g]
      /\ editor'[w] = NoEditor /\ UNCHANGED stored
      /\ \A v \in ImageWorkers \ {w} : editor'[v] = editor[v]
  BY <1>0, CommitApprovalParts
<1>3. \A m \in Images :
        /\ m = x => media'[m].field = media[m].field /\ media'[m].deleted
        /\ m # x => media'[m] = media[m]
  BY <1>0, <1>1, <1>2, ReplacedParts, MediaAssumption DEF Picture
<1> HIDE DEF e, f, i, x
<1>4. \A m \in Images : Exists(m) <=> Exists(m)'
  BY <1>3 DEF Exists
<1>5. RowsHaveFiles'
  BY <1>2, <1>4 DEF MediaInv, RowsHaveFiles
<1>6. NoImageLost'
  <2> SUFFICES ASSUME NEW m \in Images, Exists(m)'
               PROVE  media'[m].deleted \/ \E g \in ImageFields : reference'[g].image = m
    BY DEF NoImageLost
  <2>1. CASE m = x
    BY <1>3, <2>1
  <2>2. CASE m # x
    <3>1. media'[m] = media[m] /\ Exists(m)
      BY <1>3, <1>4, <2>2
    <3>2. media[m].deleted \/ \E g \in ImageFields : reference[g].image = m
      BY <3>1 DEF MediaInv, NoImageLost
    <3>3. reference[f].image # m
      <4>1. NoReference.image # m
        BY MediaAssumption DEF NoReference
      <4>2. e.found.image # m
        BY <2>2 DEF x
      <4>3. QED
        BY <1>2, <4>1, <4>2
    <3>4. QED
      BY <1>2, <3>1, <3>2, <3>3
  <2>3. QED
    BY <2>1, <2>2
<1>7. ASSUME NEW v \in ImageWorkers, Working(v)' PROVE EditorHolds(v)'
  BY <1>2, <1>4, <1>7, HoldsKeep DEF MediaInv, Working
<1>8. QED
  BY <1>2, <1>5, <1>6, <1>7 DEF MediaInv

LEMMA CommitDeleteInv ==
  ASSUME MediaInv, NEW w \in ImageWorkers, CommitDelete(w)
  PROVE  MediaInv'
<1> DEFINE e == editor[w]
           f == e.field
           x == e.found.image
<1>0. MediaTypeOK /\ Working(w)
  BY CommitDeleteParts DEF MediaInv
<1>1. f \in ImageFields /\ e.found \in Reference
  BY <1>0, EditorParts
<1>2. /\ MediaTypeOK' /\ media' = Replaced(f, NoImage, e.found)
      /\ reference'[f] = IF reference[f] = e.found THEN NoReference ELSE reference[f]
      /\ \A g \in ImageFields \ {f} : reference'[g] = reference[g]
      /\ editor'[w] = NoEditor /\ UNCHANGED stored
      /\ \A v \in ImageWorkers \ {w} : editor'[v] = editor[v]
  BY <1>0, CommitDeleteParts
<1>3. \A m \in Images :
        /\ m = x => media'[m].field = media[m].field /\ media'[m].deleted
        /\ m # x => media'[m] = media[m]
  BY <1>0, <1>1, <1>2, ReplacedParts, MediaAssumption DEF Picture
<1> HIDE DEF e, f, x
<1>4. \A m \in Images : Exists(m) <=> Exists(m)'
  BY <1>3 DEF Exists
<1>5. RowsHaveFiles'
  BY <1>2, <1>4 DEF MediaInv, RowsHaveFiles
<1>6. NoImageLost'
  <2> SUFFICES ASSUME NEW m \in Images, Exists(m)', m # x
               PROVE  media'[m].deleted \/ \E g \in ImageFields : reference'[g].image = m
    BY <1>3 DEF NoImageLost
  <2>1. media'[m] = media[m] /\ Exists(m)
    BY <1>3, <1>4
  <2>2. media[m].deleted \/ \E g \in ImageFields : reference[g].image = m
    BY <2>1 DEF MediaInv, NoImageLost
  <2>3. e.found.image # m
    BY DEF x
  <2>4. \A g \in ImageFields : reference[g].image = m => reference'[g] = reference[g]
    BY <1>1, <1>2, <2>3
  <2>5. QED
    BY <2>1, <2>2, <2>4
<1>7. ASSUME NEW v \in ImageWorkers, Working(v)' PROVE EditorHolds(v)'
  BY <1>2, <1>4, <1>7, HoldsKeep DEF MediaInv, Working
<1>8. QED
  BY <1>2, <1>5, <1>6, <1>7 DEF MediaInv

\* The steps that change no row of the database.
LEMMA QuietInv ==
  ASSUME MediaInv, NEW w \in ImageWorkers, MediaTypeOK',
         UNCHANGED <<media, reference>>, stored \subseteq stored',
         \A v \in ImageWorkers \ {w} : editor'[v] = editor[v],
         Working(w)' => EditorHolds(w)'
  PROVE  MediaInv'
<1>1. \A i \in Images : Exists(i)' <=> Exists(i)
  BY DEF Exists
<1>2. RowsHaveFiles' /\ NoImageLost'
  BY <1>1 DEF MediaInv, RowsHaveFiles, NoImageLost
<1>3. ASSUME NEW v \in ImageWorkers, Working(v)' PROVE EditorHolds(v)'
  BY <1>1, <1>3, HoldsKeep DEF MediaInv, Working
<1>4. QED
  BY <1>2, <1>3 DEF MediaInv

LEMMA MediaInvStep == MediaInv /\ [MediaNext]_mediaVars => MediaInv'
<1> SUFFICES ASSUME MediaInv, [MediaNext]_mediaVars PROVE MediaInv'
  OBVIOUS
<1>0. MediaTypeOK
  BY DEF MediaInv
<1>1. ASSUME NEW w \in ImageWorkers, Fetches(w) PROVE MediaInv'
  <2>1. EditorHolds(w)'
    BY <1>0, <1>1, FetchParts DEF EditorHolds, BeginsWith, Exists
  <2>2. QED
    BY <1>0, <1>1, <2>1, FetchParts, QuietInv
<1>2. ASSUME NEW w \in ImageWorkers, StoreImage(w) \/ LookUpReference(w) PROVE MediaInv'
  <2>1. Working(w) /\ EditorHolds(w)
    BY <1>2 DEF MediaInv, StoreImage, LookUpReference, EditorAt, Working
  <2>2. editor[w].op = "upload" => editor[w].image \in Images
    BY <2>1 DEF EditorHolds
  <2>3. stored \subseteq stored' /\ EditorHolds(w)'
    BY <1>0, <1>2, <2>1, <2>2, AdvanceParts DEF EditorHolds, Exists
  <2>4. QED
    BY <1>0, <1>2, <2>2, <2>3, AdvanceParts, QuietInv
<1>3. ASSUME NEW w \in ImageWorkers, DropImage(w) PROVE MediaInv'
  <2>1. /\ editor' = [editor EXCEPT ![w] = NoEditor]
        /\ UNCHANGED <<media, stored, reference, pointer, made, drafted, edited, overlap>>
    BY <1>3 DEF DropImage
  <2>2. MediaTypeOK' /\ ~Working(w)'
    BY <1>0, <2>1, FreedParts DEF MediaTypeOK, Working
  <2>3. QED
    BY <1>0, <2>1, <2>2, FreedParts, QuietInv
<1>4. ASSUME NEW w \in ImageWorkers, CommitOtherSave(w) PROVE MediaInv'
  <2>1. MediaTypeOK' /\ ~Working(w)' /\ UNCHANGED <<media, stored, reference>>
    BY <1>0, <1>4, CommitOtherSaveParts DEF Working
  <2>2. QED
    BY <1>0, <1>4, <2>1, CommitOtherSaveParts, QuietInv
<1>5. CASE UNCHANGED mediaVars
  <2>1. UNCHANGED <<media, stored, reference, pointer, made, drafted, edited, overlap, editor>>
    BY <1>5 DEF mediaVars
  <2>2. \A v \in ImageWorkers : Working(v)' => EditorHolds(v)'
    BY <2>1 DEF MediaInv, EditorHolds, Working, Exists
  <2>3. QED
    BY <2>1, <2>2 DEF MediaInv, MediaTypeOK, RowsHaveFiles, NoImageLost, Exists
<1>6. QED
  BY <1>1, <1>2, <1>3, <1>4, <1>5, CommitImageInv, CommitApprovalInv, CommitDeleteInv
     DEF MediaNext, Fetches

LEMMA MediaInvAlways == MediaSpec => []MediaInv
BY MediaInvInit, MediaInvStep, PTL DEF MediaSpec

\* The rows and the operations keep their types.
THEOREM MediaTypeCorrect == MediaSpec => []MediaTypeOK
<1>1. MediaInv => MediaTypeOK
  BY DEF MediaInv
<1>2. QED
  BY <1>1, MediaInvAlways, PTL

\* An image whose upload committed is shown or in the trash.
THEOREM NoImageLostAlways == MediaSpec => []NoImageLost
<1>1. MediaInv => NoImageLost
  BY DEF MediaInv
<1>2. QED
  BY <1>1, MediaInvAlways, PTL

\* Every media row has its file.
THEOREM RowsHaveFilesAlways == MediaSpec => []RowsHaveFiles
<1>1. MediaInv => RowsHaveFiles
  BY DEF MediaInv
<1>2. QED
  BY <1>1, MediaInvAlways, PTL

(***************************************************************************)
(* Images: operations that do not overlap keep data and references equal.  *)
(***************************************************************************)

\* Nobody else works, and what an operation has read is still so.
Current(w) ==
  /\ \A v \in ImageWorkers : Working(v) => v = w
  /\ editor[w].copy = pointer
  /\ BeginsWith(editor[w].op, editor[w].field, editor[w].image)
  /\ editor[w].at = "looked" => editor[w].found = reference[editor[w].field]

\* A reference names an image that exists, one of its own field that is not in
\* the trash unless a draft has put it there; the data names it too, unless
\* another save has changed the field since.
ShownIn(f) ==
  LET i == reference[f].image
  IN /\ f \notin edited => pointer[f] = i
     /\ i # NoImage =>
          Exists(i) /\ (i \in drafted \/ (~media[i].deleted /\ media[i].field = f))

ReferencesShown == \A f \in ImageFields : ShownIn(f)

AloneInv ==
  ~overlap => ReferencesShown /\ \A w \in ImageWorkers : Working(w) => Current(w)

LEMMA AloneInvInit == MediaInit => AloneInv
BY DEF MediaInit, AloneInv, ReferencesShown, ShownIn, NoReference, Working

\* The image a commit makes active, and the one it moves to the trash.
Activated(w) == IF editor[w].op \in {"upload", "restore"} THEN editor[w].image ELSE NoImage
Shown(f) == reference[f].image

Commits(w) == CommitImage(w) \/ CommitApproval(w) \/ CommitDelete(w)

\* What a commit finds and writes: the image it replaces is the one shown.
LEMMA CommitFacts ==
  ASSUME MediaInv, AloneInv, ~overlap, NEW w \in ImageWorkers, Commits(w)
  PROVE  LET e == editor[w]
             f == e.field
             i == e.image
             a == Activated(w)
         IN /\ MediaTypeOK /\ MediaTypeOK' /\ Working(w) /\ Current(w) /\ ReferencesShown
            /\ f \in ImageFields /\ i \in Picture
            /\ BeginsWith(e.op, f, i) /\ e.op # "edit"
            /\ reference'[f].image = i
            /\ \A g \in ImageFields \ {f} : reference'[g] = reference[g]
            /\ pointer'[f] = i /\ \A g \in ImageFields \ {f} : pointer'[g] = pointer[g]
            /\ edited' = edited \ {f}
            /\ drafted \subseteq drafted' /\ (e.op = "approve" => i \in drafted')
            /\ \A m \in Images :
                 /\ m = Shown(f) => media'[m].field = media[m].field /\ media'[m].deleted
                 /\ m # Shown(f) /\ m = a => media'[m].field = f /\ ~media'[m].deleted
                 /\ m # Shown(f) /\ m # a => media'[m] = media[m]
            /\ editor'[w] = NoEditor /\ UNCHANGED overlap
            /\ \A v \in ImageWorkers \ {w} : editor'[v] = editor[v]
<1> DEFINE e == editor[w]
           f == e.field
           i == e.image
           a == Activated(w)
<1>0. MediaTypeOK /\ Working(w) /\ Current(w) /\ ReferencesShown /\ e.at = "looked"
  <2>1. Working(w) /\ e.at = "looked"
    BY DEF Commits, CommitImage, CommitApproval, CommitDelete, EditorAt, Working
  <2>2. QED
    BY <2>1 DEF MediaInv, AloneInv
<1>1. /\ f \in ImageFields /\ i \in Picture /\ NoImage \in Picture /\ e.found \in Reference
      /\ BeginsWith(e.op, f, i) /\ e.copy = pointer /\ e.found = reference[f]
  BY <1>0, EditorParts DEF Current, Picture
<1>2. /\ e.op \in {"upload", "restore", "approve", "delete"} /\ a \in {i, NoImage}
      /\ MediaTypeOK' /\ media' = Replaced(f, a, e.found)
      /\ reference'[f].image = i
      /\ \A g \in ImageFields \ {f} : reference'[g] = reference[g]
      /\ edited' = edited \ {f}
      /\ drafted \subseteq drafted' /\ (e.op = "approve" => i \in drafted')
      /\ editor'[w] = NoEditor /\ UNCHANGED overlap
      /\ \A v \in ImageWorkers \ {w} : editor'[v] = editor[v]
  <2>1. CASE CommitImage(w)
    BY <1>0, <2>1, CommitImageParts DEF Activated
  <2>2. CASE CommitApproval(w)
    <3>1. e.op = "approve"
      BY <2>2 DEF CommitApproval
    <3>2. i \in Images
      BY <1>1, <3>1 DEF BeginsWith
    <3>3. QED
      BY <1>0, <2>2, <3>1, <3>2, CommitApprovalParts DEF Activated
  <2>3. CASE CommitDelete(w)
    <3>1. e.op = "delete"
      BY <2>3 DEF CommitDelete
    <3>2. i = NoImage
      BY <1>1, <3>1 DEF BeginsWith
    <3>3. QED
      BY <1>0, <1>1, <2>3, <3>1, <3>2, CommitDeleteParts DEF Activated, NoReference
  <2>4. QED
    BY <2>1, <2>2, <2>3 DEF Commits
<1>3. pointer'[f] = i /\ \A g \in ImageFields \ {f} : pointer'[g] = pointer[g]
  <2>1. CASE CommitImage(w)
    BY <1>0, <1>1, <2>1, CommitImageParts DEF MediaTypeOK
  <2>2. CASE CommitApproval(w)
    <3>1. pointer' = [pointer EXCEPT ![f] = i]
      BY <1>1, <2>2 DEF CommitApproval, SavedCard
    <3>2. QED
      BY <1>0, <1>1, <3>1 DEF MediaTypeOK
  <2>3. CASE CommitDelete(w)
    <3>1. i = NoImage
      BY <1>1, <2>3 DEF CommitDelete, BeginsWith
    <3>2. \/ pointer' = [pointer EXCEPT ![f] = NoImage]
          \/ pointer[f] = NoImage /\ pointer' = pointer
      BY <1>0, <1>1, <2>3, CommitDeleteParts
    <3>3. QED
      BY <1>0, <1>1, <3>1, <3>2 DEF MediaTypeOK
  <2>4. QED
    BY <2>1, <2>2, <2>3 DEF Commits
<1>4. \A m \in Images :
        /\ m = Shown(f) => media'[m].field = media[m].field /\ media'[m].deleted
        /\ m # Shown(f) /\ m = a => media'[m].field = f /\ ~media'[m].deleted
        /\ m # Shown(f) /\ m # a => media'[m] = media[m]
  BY <1>0, <1>1, <1>2, ReplacedParts DEF Shown
<1>5. QED
  BY <1>0, <1>1, <1>2, <1>3, <1>4

\* The image a commit makes active is in no other field: it is new, or comes
\* from the trash.  The one it moves there is in no other field either.
LEMMA ShownAfter ==
  ASSUME MediaTypeOK, ReferencesShown, NEW op \in ImageOp, NEW f \in ImageFields,
         NEW i \in Picture, NEW a, NEW x,
         BeginsWith(op, f, i), op # "edit",
         a = IF op \in {"upload", "restore"} THEN i ELSE NoImage, x = Shown(f),
         reference'[f].image = i,
         \A g \in ImageFields \ {f} : reference'[g] = reference[g],
         pointer'[f] = i, \A g \in ImageFields \ {f} : pointer'[g] = pointer[g],
         edited' = edited \ {f}, drafted \subseteq drafted',
         op = "approve" => i \in drafted',
         \A m \in Images :
           /\ m = x => media'[m].field = media[m].field /\ media'[m].deleted
           /\ m # x /\ m = a => media'[m].field = f /\ ~media'[m].deleted
           /\ m # x /\ m # a => media'[m] = media[m]
  PROVE  ReferencesShown'
<1>1. NoImage \notin Images /\ NoImage \notin ImageFields
  BY MediaAssumption
<1>2. \A m \in Images : Exists(m) => Exists(m)'
  BY <1>1 DEF Exists
<1>3. x # NoImage => x \in Images /\ Exists(x) /\ (x \in drafted \/ media[x].field = f)
  BY DEF Shown, ReferencesShown, ShownIn, MediaTypeOK, Reference, Picture
<1>4. a # NoImage => a \in Images /\ (~Exists(a) \/ media[a].deleted)
  BY DEF BeginsWith
<1>5. ShownIn(f)'
  <2>1. f \notin edited' => pointer'[f] = reference'[f].image
    OBVIOUS
  <2>2. ASSUME i # NoImage
        PROVE  Exists(i)' /\ (i \in drafted' \/ (~media'[i].deleted /\ media'[i].field = f))
    <3>0. i \in Images
      BY <2>2 DEF Picture
    <3>1. CASE op = "approve"
      BY <1>2, <3>0, <3>1 DEF BeginsWith
    <3>2. CASE op = "upload"
      <4>1. a = i /\ ~Exists(i)
        BY <3>2 DEF BeginsWith
      <4>2. i # x
        BY <1>3, <2>2, <4>1
      <4>3. media'[i].field = f /\ ~media'[i].deleted
        BY <3>0, <4>1, <4>2
      <4>4. QED
        BY <1>1, <4>3 DEF Exists
    <3>3. CASE op = "restore"
      <4>1. a = i /\ Exists(i) /\ media[i].deleted
        BY <3>3 DEF BeginsWith
      <4>2. CASE i = x
        <5>1. x \in drafted
          BY <2>2, <4>1, <4>2 DEF Shown, ReferencesShown, ShownIn
        <5>2. QED
          BY <1>2, <3>0, <4>1, <4>2, <5>1
      <4>3. CASE i # x
        BY <1>2, <3>0, <4>1, <4>3
      <4>4. QED
        BY <4>2, <4>3
    <3>4. QED
      BY <2>2, <3>1, <3>2, <3>3 DEF BeginsWith
  <2>3. QED
    BY <2>1, <2>2 DEF ShownIn, Exists
<1>6. ASSUME NEW g \in ImageFields, g # f PROVE ShownIn(g)'
  <2>0. PICK j : j = reference[g].image
    OBVIOUS
  <2>1. /\ reference'[g] = reference[g] /\ pointer'[g] = pointer[g]
        /\ g \notin edited' => g \notin edited
    BY <1>6
  <2>2. /\ g \notin edited => pointer[g] = j
        /\ j # NoImage =>
             Exists(j) /\ (j \in drafted \/ (~media[j].deleted /\ media[j].field = g))
    BY <2>0 DEF ReferencesShown, ShownIn
  <2>3. j # NoImage => j \in Images
    BY <2>0 DEF MediaTypeOK, Reference, Picture
  <2>4. ASSUME j # NoImage, j \notin drafted' PROVE ~media'[j].deleted /\ media'[j].field = g
    <3>1. j \in Images /\ Exists(j) /\ j \notin drafted /\ ~media[j].deleted
          /\ media[j].field = g
      BY <2>2, <2>3, <2>4
    <3>2. j # x
      BY <1>3, <1>6, <2>4, <3>1
    <3>3. j # a
      BY <1>4, <2>4, <3>1
    <3>4. QED
      BY <3>1, <3>2, <3>3
  <2>5. j # NoImage => Exists(j)'
    BY <1>2, <2>2, <2>3
  <2>6. reference'[g].image = j
    BY <2>0, <2>1
  <2>7. QED
    BY <2>1, <2>2, <2>4, <2>5, <2>6 DEF ShownIn, Exists
<1>7. QED
  BY <1>5, <1>6 DEF ReferencesShown

LEMMA CommitAlone ==
  ASSUME MediaInv, AloneInv, ~overlap, NEW w \in ImageWorkers, Commits(w)
  PROVE  ReferencesShown'
<1> DEFINE e == editor[w]
<1>1. e.op \in ImageOp
  BY CommitFacts, EditorParts DEF Editor
<1>2. QED
  BY <1>1, CommitFacts, ShownAfter DEF Activated

LEMMA AloneInvStep ==
  MediaInv /\ AloneInv /\ [MediaNext]_mediaVars => AloneInv'
<1> SUFFICES ASSUME MediaInv, AloneInv, [MediaNext]_mediaVars PROVE AloneInv'
  OBVIOUS
<1>0. MediaTypeOK
  BY DEF MediaInv
<1>1. ASSUME NEW w \in ImageWorkers, Fetches(w) PROVE AloneInv'
  <2> SUFFICES ASSUME ~overlap
               PROVE  ReferencesShown' /\ \A v \in ImageWorkers : Working(v)' => Current(v)'
    BY <1>0, <1>1, FetchParts DEF AloneInv
  <2>1. \A v \in ImageWorkers : ~Working(v)
    BY <1>0, <1>1, FetchParts DEF MayBegin, Working
  <2>2. ReferencesShown'
    BY <1>0, <1>1, FetchParts DEF AloneInv, ReferencesShown, ShownIn, Exists
  <2>3. \A v \in ImageWorkers : Working(v)' => v = w
    BY <1>0, <1>1, <2>1, FetchParts DEF Working
  <2>4. Current(w)'
    BY <1>0, <1>1, <2>3, FetchParts DEF Current, BeginsWith, Exists
  <2>5. QED
    BY <2>2, <2>3, <2>4
<1>2. ASSUME NEW w \in ImageWorkers, StoreImage(w) \/ LookUpReference(w) PROVE AloneInv'
  <2>0. /\ Working(w)
        /\ editor[w].op = "upload" => editor[w].image \in Images
    BY <1>2 DEF MediaInv, EditorHolds, StoreImage, LookUpReference, EditorAt, Working
  <2> SUFFICES ASSUME ~overlap
               PROVE  ReferencesShown' /\ \A v \in ImageWorkers : Working(v)' => Current(v)'
    BY <1>0, <1>2, <2>0, AdvanceParts DEF AloneInv
  <2>1. Current(w) /\ ReferencesShown
    BY <2>0 DEF AloneInv
  <2>2. ReferencesShown'
    BY <1>0, <1>2, <2>0, <2>1, AdvanceParts DEF ReferencesShown, ShownIn, Exists
  <2>3. \A v \in ImageWorkers : Working(v)' => v = w
    BY <1>0, <1>2, <2>0, <2>1, AdvanceParts DEF Working, Current
  <2>4. Current(w)'
    BY <1>0, <1>2, <2>0, <2>1, <2>3, AdvanceParts DEF Current, BeginsWith, Exists
  <2>5. QED
    BY <2>2, <2>3, <2>4
<1>3. ASSUME NEW w \in ImageWorkers, Commits(w) \/ CommitOtherSave(w) PROVE AloneInv'
  <2>1. /\ UNCHANGED overlap /\ Working(w) /\ editor'[w] = NoEditor
        /\ \A v \in ImageWorkers \ {w} : editor'[v] = editor[v]
    <3>1. CASE CommitOtherSave(w)
      BY <1>0, <3>1, CommitOtherSaveParts
    <3>2. CASE Commits(w)
      <4>1. Working(w) /\ editor' = [editor EXCEPT ![w] = NoEditor] /\ UNCHANGED overlap
        BY <3>2 DEF Commits, CommitImage, CommitApproval, CommitDelete, EditorAt, Working
      <4>2. QED
        BY <1>0, <4>1, FreedParts
    <3>3. QED
      BY <1>3, <3>1, <3>2
  <2>2. ASSUME ~overlap, NEW v \in ImageWorkers PROVE ~Working(v)'
    <3>1. v # w => ~Working(v)
      BY <2>1, <2>2 DEF AloneInv, Current
    <3>2. QED
      BY <2>1, <3>1 DEF Working
  <2>3. ASSUME ~overlap PROVE ReferencesShown'
    <3>1. CASE CommitOtherSave(w)
      BY <1>0, <2>3, <3>1, CommitOtherSaveParts DEF AloneInv, ReferencesShown, ShownIn, Exists
    <3>2. QED
      BY <1>3, <2>3, <3>1, CommitAlone
  <2>4. QED
    BY <2>1, <2>2, <2>3 DEF AloneInv
<1>4. ASSUME NEW w \in ImageWorkers, DropImage(w) PROVE AloneInv'
  <2>1. /\ editor' = [editor EXCEPT ![w] = NoEditor]
        /\ UNCHANGED <<media, stored, reference, pointer, made, drafted, edited, overlap>>
    BY <1>4 DEF DropImage
  <2>2. \A v \in ImageWorkers : Working(v)' => Working(v) /\ editor'[v] = editor[v]
    BY <1>0, <2>1, FreedParts DEF Working
  <2>3. ASSUME ~overlap, NEW v \in ImageWorkers, Working(v)' PROVE Current(v)'
    <3>1. Current(v) /\ editor'[v] = editor[v]
      BY <2>2, <2>3 DEF AloneInv
    <3>2. \A u \in ImageWorkers : Working(u)' => u = v
      BY <2>2, <3>1 DEF Current
    <3>3. QED
      BY <2>1, <3>1, <3>2 DEF Current, BeginsWith, Exists
  <2>4. ~overlap => ReferencesShown'
    BY <2>1 DEF AloneInv, ReferencesShown, ShownIn, Exists
  <2>5. QED
    BY <2>1, <2>3, <2>4 DEF AloneInv
<1>5. CASE UNCHANGED mediaVars
  <2>1. UNCHANGED <<media, stored, reference, pointer, made, drafted, edited, overlap, editor>>
    BY <1>5 DEF mediaVars
  <2>2. \A v \in ImageWorkers : Working(v)' = Working(v)
    BY <2>1 DEF Working
  <2>3. QED
    BY <2>1, <2>2 DEF AloneInv, ReferencesShown, ShownIn, Current, BeginsWith, Exists
<1>6. QED
  BY <1>1, <1>2, <1>3, <1>4, <1>5 DEF MediaNext, Fetches, Commits

\* While operations do not overlap, the card's data names the active reference
\* of every field no other save has changed, and only a draft shows an image
\* that is in the trash.
THEOREM CardShowsReferencesAlways == MediaSpec => []CardShowsReferences
<1>1. AloneInv => CardShowsReferences
  BY DEF AloneInv, ReferencesShown, ShownIn, CardShowsReferences
<1>2. QED
  BY <1>1, AloneInvInit, AloneInvStep, MediaInvAlways, PTL DEF MediaSpec

(***************************************************************************)
(* Images: operations that do not overlap implement the atomic ones.  Only *)
(* a commit is a step of AtomicImages, but for the save of an edit, which  *)
(* changes neither references nor rows.                                    *)
(***************************************************************************)

ShownOf == [f \in ImageFields |-> reference[f].image]
InTrash == {i \in Images : Exists(i) /\ media[i].deleted}
HomeOf == [i \in Images |-> media[i].field]

\* A commit takes the image it makes active out of the trash and puts the one it
\* replaces there.
LEMMA TrashAfter ==
  ASSUME NEW x, NEW a,
         x # NoImage => x \in Images /\ Exists(x),
         \A m \in Images :
           /\ m = x => media'[m].field = media[m].field /\ media'[m].deleted
           /\ m # x /\ m = a => ~media'[m].deleted
           /\ m # x /\ m # a => media'[m] = media[m]
  PROVE  InTrash' = (InTrash \ {a}) \cup ({x} \ {NoImage})
<1>1. ASSUME NEW m \in Images
      PROVE  m \in InTrash' <=> m \in (InTrash \ {a}) \cup ({x} \ {NoImage})
  <2>1. m \in InTrash' <=> media'[m].field # NoImage /\ media'[m].deleted
    BY DEF InTrash, Exists
  <2>2. m \in InTrash <=> media[m].field # NoImage /\ media[m].deleted
    BY DEF InTrash, Exists
  <2>3. m # NoImage
    BY MediaAssumption
  <2>4. CASE m = x
    BY <2>1, <2>3, <2>4 DEF Exists
  <2>5. CASE m # x /\ m = a
    BY <2>1, <2>5
  <2>6. CASE m # x /\ m # a
    BY <2>1, <2>2, <2>6
  <2>7. QED
    BY <2>4, <2>5, <2>6
<1>2. InTrash \subseteq Images /\ InTrash' \subseteq Images
  BY DEF InTrash
<1>3. (InTrash \ {a}) \cup ({x} \ {NoImage}) \subseteq Images
  BY <1>2
<1>4. QED
  BY <1>1, <1>2, <1>3

LEMMA StepOfPromise ==
  ASSUME MediaTypeOK, ReferencesShown, NEW op \in ImageOp, NEW f \in ImageFields,
         NEW i \in Picture, NEW a, NEW x, reference' \in [ImageFields -> Reference],
         BeginsWith(op, f, i), op # "edit",
         a = IF op \in {"upload", "restore"} THEN i ELSE NoImage, x = Shown(f),
         reference'[f].image = i,
         \A g \in ImageFields \ {f} : reference'[g] = reference[g],
         \A m \in Images :
           /\ m = x => media'[m].field = media[m].field /\ media'[m].deleted
           /\ m # x /\ m = a => media'[m].field = f /\ ~media'[m].deleted
           /\ m # x /\ m # a => media'[m] = media[m]
  PROVE  Promise!A_Next
<1>1. NoImage \notin Images
  BY MediaAssumption
<1>2. x # NoImage => x \in Images /\ Exists(x)
  BY DEF Shown, ReferencesShown, ShownIn, MediaTypeOK, Reference, Picture
<1>3. InTrash' = (InTrash \ {a}) \cup ({x} \ {NoImage})
  BY <1>2, TrashAfter
<1>4. ShownOf' = [ShownOf EXCEPT ![f] = i] /\ ShownOf[f] = x
  BY DEF ShownOf, Shown, MediaTypeOK
<1>5. CASE op = "upload"
  <2>1. i \in Images /\ ~Exists(i) /\ a = i
    BY <1>5 DEF BeginsWith
  <2>2. i # x /\ i \notin InTrash
    BY <1>1, <1>2, <2>1 DEF InTrash
  <2>3. InTrash' = InTrash \cup ({ShownOf[f]} \ {NoImage})
    BY <1>3, <1>4, <2>1, <2>2
  <2>4. HomeOf[i] = NoImage
    BY <2>1 DEF HomeOf, Exists
  <2>5. HomeOf' = [HomeOf EXCEPT ![i] = f]
    BY <2>1, <2>2 DEF HomeOf
  <2>6. Promise!A_Upload(f, i)
    BY <1>4, <2>3, <2>4, <2>5 DEF Promise!A_Upload, Promise!Show, ShownOf, InTrash, HomeOf
  <2>7. QED
    BY <2>1, <2>6 DEF Promise!A_Next
<1>6. CASE op = "restore"
  <2>1. i \in Images /\ Exists(i) /\ media[i].deleted /\ f = media[i].field /\ a = i
    BY <1>6 DEF BeginsWith
  <2>2. i \in InTrash /\ HomeOf[i] = f
    BY <2>1 DEF InTrash, HomeOf
  <2>3. InTrash' = (InTrash \ {i}) \cup ({ShownOf[f]} \ {NoImage})
    BY <1>3, <1>4, <2>1
  <2>4. HomeOf' = HomeOf
    BY <2>1 DEF HomeOf
  <2>5. Promise!A_Restore(i)
    BY <1>4, <2>2, <2>3, <2>4 DEF Promise!A_Restore, Promise!Show, ShownOf, InTrash, HomeOf
  <2>6. QED
    BY <2>1, <2>5 DEF Promise!A_Next
<1>7. CASE op \in {"approve", "delete"}
  <2>1. a = NoImage
    BY <1>7
  <2>2. InTrash' = InTrash \cup ({ShownOf[f]} \ {NoImage})
    BY <1>1, <1>3, <1>4, <2>1 DEF InTrash
  <2>3. HomeOf' = HomeOf
    BY <1>1, <2>1 DEF HomeOf
  <2>4. CASE op = "approve"
    <3>1. i \in Images /\ HomeOf[i] # NoImage
      BY <2>4 DEF BeginsWith, HomeOf, Exists
    <3>2. Promise!A_Approve(f, i)
      BY <1>4, <2>2, <2>3, <3>1 DEF Promise!A_Approve, Promise!Show, ShownOf, InTrash, HomeOf
    <3>3. QED
      BY <3>1, <3>2 DEF Promise!A_Next
  <2>5. CASE op = "delete"
    <3>1. i = NoImage
      BY <2>5 DEF BeginsWith
    <3>2. Promise!A_Delete(f)
      BY <1>4, <2>2, <2>3, <3>1 DEF Promise!A_Delete, Promise!Show, ShownOf, InTrash, HomeOf
    <3>3. QED
      BY <3>2 DEF Promise!A_Next
  <2>6. QED
    BY <1>7, <2>4, <2>5
<1>8. QED
  BY <1>5, <1>6, <1>7 DEF BeginsWith

LEMMA CommitIsAtomic ==
  ASSUME MediaInv, AloneInv, ~overlap, NEW w \in ImageWorkers, Commits(w)
  PROVE  Promise!A_Next
<1> DEFINE e == editor[w]
<1>1. e.op \in ImageOp /\ reference' \in [ImageFields -> Reference]
  BY CommitFacts, EditorParts DEF Editor, MediaTypeOK
<1>2. QED
  BY <1>1, CommitFacts, StepOfPromise DEF Activated

LEMMA StepIsAtomic ==
  ASSUME MediaInv, AloneInv, ~overlap, [MediaNext]_mediaVars
  PROVE  /\ [Promise!A_Next]_(Promise!imageVars) /\ ~overlap'
<1>0. MediaTypeOK
  BY DEF MediaInv
<1>1. ASSUME UNCHANGED <<media, reference, overlap>>
      PROVE  [Promise!A_Next]_(Promise!imageVars) /\ ~overlap'
  BY <1>1 DEF Promise!imageVars, Exists
<1>2. ASSUME NEW w \in ImageWorkers, Fetches(w) PROVE UNCHANGED <<media, reference, overlap>>
  BY <1>0, <1>2, FetchParts
<1>3. ASSUME NEW w \in ImageWorkers,
             StoreImage(w) \/ LookUpReference(w) \/ CommitOtherSave(w) \/ DropImage(w)
      PROVE  UNCHANGED <<media, reference, overlap>>
  BY <1>3 DEF StoreImage, LookUpReference, CommitOtherSave, DropImage
<1>4. ASSUME NEW w \in ImageWorkers, Commits(w)
      PROVE  Promise!A_Next /\ ~overlap'
  BY <1>4, CommitFacts, CommitIsAtomic
<1>5. CASE UNCHANGED mediaVars
  BY <1>1, <1>5 DEF mediaVars
<1>6. QED
  BY <1>1, <1>2, <1>3, <1>4, <1>5 DEF MediaNext, Fetches, Commits

\* The media service keeps the promise of AtomicImages: while the operations on
\* the card do not overlap, each is one step on what the references show.
THEOREM ImagesAtomicAlone == MediaSpec => ImplementsAtomicImages
<1>1. MediaInit => Promise!A_Init
  <2> SUFFICES ASSUME MediaInit PROVE Promise!A_Init
    OBVIOUS
  <2>1. \A i \in Images : media[i].field = NoImage
    BY DEF MediaInit, NoMedia
  <2>2. InTrash = {} /\ HomeOf = [i \in Images |-> NoImage]
    BY <2>1 DEF InTrash, HomeOf, Exists
  <2>3. ShownOf = [f \in ImageFields |-> NoImage]
    BY DEF MediaInit, ShownOf, NoReference
  <2>4. QED
    BY <2>2, <2>3 DEF Promise!A_Init, ShownOf, InTrash, HomeOf
<1>2. /\ ~overlap /\ MediaInv /\ AloneInv /\ [MediaNext]_mediaVars
      => [Promise!A_Next]_(Promise!imageVars) /\ ~overlap'
  BY StepIsAtomic
<1>3. QED
  BY <1>1, <1>2, MediaInvAlways, AloneInvInit, AloneInvStep, PTL
     DEF MediaSpec, ImplementsAtomicImages, Promise!A_Spec
=============================================================================
