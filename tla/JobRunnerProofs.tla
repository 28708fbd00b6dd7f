--------------------------- MODULE JobRunnerProofs ---------------------------
(***************************************************************************)
(* Proofs about JobRunner, for any jobs, workers, number of retries, units *)
(* of work and queues.  Its liveness stays with TLC; at the end, what of   *)
(* it is safety: no job is forgotten and every task goes forward.          *)
(***************************************************************************)
EXTENDS JobRunner, TLAPS

(***************************************************************************)
(* Type correctness.                                                       *)
(***************************************************************************)

\* Rows keep being rows when their status or their task id changes.
LEMMA RowTypes ==
  /\ \A r \in Row : \A s \in JobStatus : [r EXCEPT !.status = s] \in Row
  /\ \A r \in Row : [r EXCEPT !.task = TRUE] \in Row
  /\ NoRow \notin Row
BY DEF Row, NoRow, Type

\* The units of work of any job are among those of a batch.
LEMMA UnitsType == \A type \in Type : Units(type) \subseteq 1..ImportUnits
BY JobAssumption DEF Units, Type, Batch

LEMMA InitType == Init => TypeOK
BY DEF Init, TypeOK

\* A worker is idle or runs a well-typed task.
LEMMA TaskType ==
  ASSUME TypeOK, NEW w \in Workers, ~Idle(w)
  PROVE  /\ worker[w] \in Task
         /\ worker[w].job \in Jobs /\ worker[w].copy \in Row
BY DEF TypeOK, Idle, Task

\* A worker at a step of a task is not idle.
LEMMA Busy ==
  ASSUME NEW w \in Workers, NEW pc, At(w, pc), pc # "idle"
  PROVE  ~Idle(w)
BY DEF At, Idle, NoTask

\* A step of a task that goes on.
GoesOn(w) ==
  \/ Start(w) \/ Report(w) \/ Work(w) \/ Skip(w) \/ Refuse(w)
  \/ CheckCancelled(w) \/ CleanUp(w)

\* A submitted job has its row, and its request a copy of it; only submitted
\* jobs have messages and tasks.  What keeps NoRow out of every update.
RowsExist ==
  /\ \A j \in Jobs : view[j].at # "start" => job[j] \in Row /\ view[j].copy \in Row
  /\ \A m \in queue : view[m.job].at # "start"
  /\ \A w \in Workers : ~Idle(w) => view[worker[w].job].at # "start"

WellTyped == TypeOK /\ RowsExist

LEMMA InitWellTyped == Init => WellTyped
BY InitType DEF Init, WellTyped, RowsExist, Idle

LEMMA RequestsWellTyped ==
  ASSUME WellTyped, NEW j \in Jobs,
         \/ \E type \in Type : Submit(j, type)
         \/ Publish(j) \/ StoreTaskId(j) \/ FetchToCancel(j) \/ Cancel(j)
  PROVE  WellTyped'
<1> USE DEF WellTyped, outcome
<1>1. ASSUME NEW type \in Type, Submit(j, type) PROVE WellTyped'
  <2>1. [type |-> type, status |-> "QUEUED", task |-> FALSE] \in Row
    BY DEF Row, JobStatus
  <2>2. TypeOK'
    BY <1>1, <2>1 DEF Submit, TypeOK, EventType
  <2>3. RowsExist'
    BY <1>1, <2>1 DEF Submit, TypeOK, RowsExist, Idle, Message, Task
  <2> QED
    BY <2>2, <2>3
<1>2. CASE Publish(j)
  <2>1. [job |-> j, retries |-> 0] \in Message
    BY JobAssumption DEF Message
  <2>2. TypeOK'
    BY <1>2, <2>1 DEF Publish, TypeOK
  <2>3. RowsExist'
    BY <1>2, <2>1 DEF Publish, TypeOK, RowsExist, Idle, Message, Task
  <2> QED
    BY <2>2, <2>3
<1>3. CASE StoreTaskId(j)
  <2>1. WithTaskId(j) \in Row
    BY <1>3, RowTypes DEF StoreTaskId, WithTaskId, RowsExist
  <2>2. TypeOK'
    BY <1>3, <2>1 DEF StoreTaskId, TypeOK
  <2>3. RowsExist'
    BY <1>3, <2>1 DEF StoreTaskId, TypeOK, RowsExist, Idle, Message, Task
  <2> QED
    BY <2>2, <2>3
<1>4. CASE FetchToCancel(j)
  <2>1. TypeOK'
    BY <1>4 DEF FetchToCancel, TypeOK
  <2>2. RowsExist'
    BY <1>4 DEF FetchToCancel, RowsExist, Idle
  <2> QED
    BY <2>1, <2>2
<1>5. CASE Cancel(j)
  <2>1. [cancel[j] EXCEPT !.status = "CANCELLED"] \in Row
    BY <1>5, RowTypes DEF Cancel, TypeOK, JobStatus, Final
  <2>2. TypeOK'
    <3>1. /\ job' = [job EXCEPT ![j] = [cancel[j] EXCEPT !.status = "CANCELLED"]]
             \/ UNCHANGED job
          /\ events' = [events EXCEPT ![j] = @ \cup {"CANCELLED"}] \/ UNCHANGED events
          /\ revoked' \subseteq revoked \cup {j}
          /\ cancel' = [cancel EXCEPT ![j] = NoRow]
          /\ UNCHANGED <<file, committed, view, queue, worker, lost, skipped, refused,
                         unremoved>>
      BY <1>5 DEF Cancel
    <3>2. /\ job' \in [Jobs -> Row \cup {NoRow}]
          /\ cancel' \in [Jobs -> Row \cup {NoRow}]
          /\ revoked' \subseteq Jobs
      BY <2>1, <3>1 DEF TypeOK
    <3>3. events' \in [Jobs -> SUBSET EventType]
      BY <3>1 DEF TypeOK, EventType, Final
    <3> QED
      BY <3>1, <3>2, <3>3 DEF TypeOK
  <2>3. RowsExist'
    BY <1>5, <2>1 DEF Cancel, TypeOK, RowsExist, Idle
  <2> QED
    BY <2>2, <2>3
<1> QED
  BY <1>1, <1>2, <1>3, <1>4, <1>5

\* What a save of a worker's copy that keeps the task does to the worker.
LEMMA HoldingEffect ==
  ASSUME WellTyped, NEW w \in Workers, ~Idle(w), NEW status \in JobStatus,
         NEW pc \in {"taken", "ready", "committed", "finished", "cleaned"},
         Holding(w, status, pc)
  PROVE  /\ [worker[w].copy EXCEPT !.status = status] \in Row
         /\ worker' = [worker EXCEPT ![w] = worker'[w]]
         /\ worker'[w] \in Task
         /\ worker'[w].job = worker[w].job
         /\ worker'[w].copy = [worker[w].copy EXCEPT !.status = status]
         /\ worker'[w].pc = pc
         /\ worker'[w].units = worker[w].units
<1> DEFINE t == worker[w]
           r == [t.copy EXCEPT !.status = status]
<1>1. t \in Task /\ r \in Row
  BY TaskType, RowTypes DEF WellTyped
<1>2. worker' = [worker EXCEPT ![w] = [t EXCEPT !.copy = r, !.pc = pc]]
  BY <1>1 DEF Holding, WellTyped, TypeOK, Task, Row
<1>3. worker'[w] = [t EXCEPT !.copy = r, !.pc = pc]
  BY <1>2 DEF WellTyped, TypeOK
<1> HIDE DEF r
<1>4. worker'[w] \in Task
  BY <1>1, <1>3 DEF Task
<1>5. /\ [t EXCEPT !.copy = r, !.pc = pc].job = t.job
      /\ [t EXCEPT !.copy = r, !.pc = pc].copy = r
      /\ [t EXCEPT !.copy = r, !.pc = pc].pc = pc
      /\ [t EXCEPT !.copy = r, !.pc = pc].units = t.units
  BY <1>1 DEF Task
<1> QED
  BY <1>1, <1>2, <1>3, <1>4, <1>5 DEF r

LEMMA WorkersWellTyped ==
  ASSUME WellTyped, NEW w \in Workers, Advance(w) \/ Report(w) \/ Die(w)
  PROVE  WellTyped'
<1> USE DEF WellTyped, outcome
<1> DEFINE t == worker[w]
<1>0. ASSUME ~Idle(w)
      PROVE  /\ t \in Task /\ t.job \in Jobs /\ t.copy \in Row
             /\ job[t.job] \in Row
  BY <1>0, TaskType DEF RowsExist, Task
<1>1. ASSUME NEW m \in queue, Take(w, m) PROVE WellTyped'
  <2>1. m.job \in Jobs /\ m.retries \in 0..MaxRetries /\ job[m.job] \in Row
    BY DEF TypeOK, Message, RowsExist
  <2>2. [job |-> m.job, retries |-> m.retries, copy |-> job[m.job],
         pc |-> "taken", units |-> {}] \in Task
    BY <2>1 DEF Task
  <2>3. TypeOK'
    BY <1>1, <2>2 DEF Take, TypeOK, Remaining
  <2>4. RowsExist'
    BY <1>1, <2>2 DEF Take, TypeOK, RowsExist, Remaining, Idle
  <2> QED
    BY <2>3, <2>4
<1>2. CASE Start(w)
  <2>1. ~Idle(w)
    BY <1>2, Busy DEF Start
  <2>2. Holding(w, "RUNNING", "ready") /\ "RUNNING" \in JobStatus
    BY <1>2 DEF Start, JobStatus
  <2>3. /\ [t.copy EXCEPT !.status = "RUNNING"] \in Row
        /\ worker' = [worker EXCEPT ![w] = worker'[w]]
        /\ worker'[w] \in Task /\ worker'[w].job = t.job
    BY <2>1, <2>2, HoldingEffect
  <2>4. /\ job' = [job EXCEPT ![t.job] = [t.copy EXCEPT !.status = "RUNNING"]]
        /\ events' = [events EXCEPT ![t.job] = @ \cup {"STARTED"}]
        /\ UNCHANGED <<file, committed, view, cancel, queue, revoked, lost, outcome>>
    BY <1>2 DEF Start, Saved, Logged
  <2>5. TypeOK'
    BY <2>1, <2>3, <2>4, <1>0 DEF TypeOK, EventType
  <2>6. RowsExist'
    BY <2>1, <2>3, <2>4, <1>0 DEF TypeOK, RowsExist, Idle
  <2> QED
    BY <2>5, <2>6
<1>3. CASE Report(w)
  <2>1. ~Idle(w)
    BY <1>3, Busy DEF Report
  <2>2. [t.copy EXCEPT !.status = t.copy.status] \in Row
    BY <2>1, <1>0 DEF Row
  <2>3. TypeOK'
    BY <1>3, <2>1, <2>2, <1>0 DEF Report, Saved, Logged, TypeOK, EventType
  <2>4. RowsExist'
    BY <1>3, <2>1, <2>2, <1>0 DEF Report, Saved, TypeOK, RowsExist, Idle
  <2> QED
    BY <2>3, <2>4
<1>4. CASE Work(w)
  <2>1. ~Idle(w)
    BY <1>4, Busy DEF Work
  <2>2. PICK u \in Units(t.copy.type) \ t.units, pc \in {"ready", "committed", "finished"} :
          /\ committed' = [committed EXCEPT ![t.job] = @ \cup {u}]
          /\ worker' = [worker EXCEPT ![w].units = @ \cup {u}, ![w].pc = pc]
    BY <1>4 DEF Work
  <2>3. u \in 1..ImportUnits
    BY <2>1, <2>2, <1>0, UnitsType DEF Row
  <2>4. worker'[w] \in Task /\ worker'[w].job = t.job
    BY <2>1, <2>2, <2>3, <1>0 DEF TypeOK, Task
  <2>5. TypeOK'
    BY <1>4, <2>1, <2>2, <2>3, <2>4, <1>0 DEF Work, TypeOK
  <2>6. RowsExist'
    BY <1>4, <2>1, <2>2, <2>4, <1>0 DEF Work, TypeOK, RowsExist, Idle
  <2> QED
    BY <2>5, <2>6
<1>5. CASE CheckCancelled(w)
  <2>1. ~Idle(w)
    BY <1>5, Busy DEF CheckCancelled
  <2>2. PICK pc \in {"ready", "finished"} :
          worker' = [worker EXCEPT ![w].copy = job[t.job], ![w].pc = pc]
    BY <1>5 DEF CheckCancelled
  <2>3. worker'[w] \in Task /\ worker'[w].job = t.job
    BY <2>1, <2>2, <1>0 DEF TypeOK, Task
  <2>4. TypeOK'
    <3>1. /\ refused' \subseteq refused \cup {t.job}
          /\ UNCHANGED <<job, events, file, committed, view, cancel, queue, revoked, lost,
                         skipped, unremoved>>
      BY <1>5 DEF CheckCancelled
    <3> QED
      BY <1>0, <2>1, <2>2, <2>3, <3>1 DEF TypeOK
  <2>5. RowsExist'
    BY <1>5, <2>1, <2>2, <2>3 DEF CheckCancelled, TypeOK, RowsExist, Idle
  <2> QED
    BY <2>4, <2>5
<1>6. CASE CleanUp(w)
  <2>1. ~Idle(w)
    BY <1>6, Busy DEF CleanUp
  <2>2. worker'[w] \in Task /\ worker'[w].job = t.job
    BY <1>6, <2>1, <1>0 DEF CleanUp, TypeOK, Task
  <2>3. TypeOK'
    BY <1>6, <2>1, <2>2, <1>0 DEF CleanUp, Removal, TypeOK
  <2>4. RowsExist'
    BY <1>6, <2>1, <2>2, <1>0 DEF CleanUp, TypeOK, RowsExist, Idle
  <2> QED
    BY <2>3, <2>4
<1>7. ASSUME NEW status \in {"COMPLETED", "FAILED"},
             Saved(w, status), Logged(w, status), Ended(w), ~Idle(w),
             UNCHANGED <<committed, view, cancel, queue, revoked, lost, skipped, refused>>,
             file' \in [Jobs -> BOOLEAN], unremoved' \subseteq Jobs
      PROVE  WellTyped'
  <2>1. [t.copy EXCEPT !.status = status] \in Row
    BY <1>7, <1>0, RowTypes DEF JobStatus, Final
  <2>2. TypeOK'
    BY <1>7, <2>1, <1>0 DEF Saved, Logged, Ended, TypeOK, EventType, Final
  <2>3. RowsExist'
    BY <1>7, <2>1, <1>0 DEF Saved, Ended, TypeOK, RowsExist, Idle
  <2> QED
    BY <2>2, <2>3
<1>8. CASE Complete(w)
  BY <1>8, <1>7, Busy DEF Complete, TypeOK
<1>9. CASE Fail(w)
  <2>1. file' \in [Jobs -> BOOLEAN] /\ unremoved' \subseteq Jobs
    BY <1>9, <1>0 DEF Fail, Removal, TypeOK
  <2> QED
    BY <1>9, <1>7, <2>1 DEF Fail
<1>10. CASE Retry(w)
  <2>1. [job |-> t.job, retries |-> t.retries + 1] \in Message
    BY <1>10, <1>0, JobAssumption DEF Retry, MayRetry, Task, Message
  <2>2. TypeOK'
    BY <1>10, <2>1 DEF Retry, Ended, TypeOK
  <2>3. RowsExist'
    BY <1>10, <2>1 DEF Retry, Ended, TypeOK, RowsExist, Idle
  <2> QED
    BY <2>2, <2>3
<1>11. CASE Die(w)
  <2>1. TypeOK'
    BY <1>11, <1>0 DEF Die, Ended, TypeOK
  <2>2. RowsExist'
    BY <1>11 DEF Die, Ended, TypeOK, RowsExist, Idle
  <2> QED
    BY <2>1, <2>2
<1>12. CASE Skip(w)
  <2>1. ~Idle(w)
    BY <1>12, Busy DEF Skip
  <2>2. PICK u \in Units(t.copy.type) \ t.units, pc \in {"ready", "finished"} :
          /\ skipped' = [skipped EXCEPT ![t.job] = @ \cup {u}]
          /\ worker' = [worker EXCEPT ![w].units = @ \cup {u}, ![w].pc = pc]
    BY <1>12 DEF Skip, Counted
  <2>3. u \in 1..ImportUnits
    BY <2>1, <2>2, <1>0, UnitsType DEF Row
  <2>4. worker'[w] \in Task /\ worker'[w].job = t.job
    BY <2>1, <2>2, <2>3, <1>0 DEF TypeOK, Task
  <2>5. TypeOK'
    BY <1>12, <2>1, <2>2, <2>3, <2>4, <1>0 DEF Skip, TypeOK
  <2>6. RowsExist'
    BY <1>12, <2>1, <2>2, <2>4, <1>0 DEF Skip, TypeOK, RowsExist, Idle
  <2> QED
    BY <2>5, <2>6
<1>13. CASE Refuse(w)
  <2>1. ~Idle(w)
    BY <1>13, Busy DEF Refuse
  <2>2. worker'[w] \in Task /\ worker'[w].job = t.job
    BY <1>13, <2>1, <1>0 DEF Refuse, TypeOK, Task
  <2>3. TypeOK'
    BY <1>13, <2>1, <2>2, <1>0 DEF Refuse, TypeOK
  <2>4. RowsExist'
    BY <1>13, <2>1, <2>2, <1>0 DEF Refuse, TypeOK, RowsExist, Idle
  <2> QED
    BY <2>3, <2>4
<1> QED
  BY <1>1, <1>2, <1>3, <1>4, <1>5, <1>6, <1>8, <1>9, <1>10, <1>11, <1>12, <1>13 DEF Advance

LEMMA Stutter == WellTyped /\ UNCHANGED vars => WellTyped'
BY DEF WellTyped, TypeOK, RowsExist, Idle, vars, outcome

\* Rows, messages, tasks and copies keep their types, and no task ever holds a
\* row that does not exist.
THEOREM TypeCorrect == Spec => []TypeOK
<1>1. WellTyped /\ [Next]_vars => WellTyped'
  BY RequestsWellTyped, WorkersWellTyped, Stutter DEF Next
<1>2. WellTyped => TypeOK
  BY DEF WellTyped
<1> QED
  BY InitWellTyped, <1>1, <1>2, PTL DEF Spec

(***************************************************************************)
(* One attempt at a time.                                                  *)
(***************************************************************************)

\* The message of the job is published.
Sent(j) == view[j].at \in {"sent", "done"}

\* At most one message or running task of each job, and none before its
\* message is published: a retry replaces the attempt that ends.
AttemptsAlone ==
  /\ \A m, n \in queue : m.job = n.job => m = n
  /\ \A v, w \in Workers :
       ~Idle(v) /\ ~Idle(w) /\ worker[v].job = worker[w].job => v = w
  /\ \A m \in queue, w \in Workers : ~Idle(w) => worker[w].job # m.job
  /\ \A m \in queue : Sent(m.job)
  /\ \A w \in Workers : ~Idle(w) => Sent(worker[w].job)

\* A step of a task that goes on changes no other task, and keeps the job.
LEMMA TaskGoesOn ==
  ASSUME WellTyped, NEW w \in Workers,
         GoesOn(w)
  PROVE  /\ ~Idle(w) /\ worker'[w] \in Task
         /\ worker' = [worker EXCEPT ![w] = worker'[w]]
         /\ worker'[w].job = worker[w].job
         /\ \A v \in Workers : (v # w => worker'[v] = worker[v])
                               /\ (Idle(v)' <=> Idle(v))
         /\ UNCHANGED <<view, cancel, queue>>
<1> DEFINE t == worker[w]
<1> USE DEF WellTyped
<1>1. ~Idle(w)
  BY Busy DEF GoesOn, Start, Report, Work, Skip, Refuse, CheckCancelled, CleanUp
<1>2. t \in Task /\ t.job \in Jobs /\ t.copy \in Row /\ job[t.job] \in Row
  BY <1>1, TaskType DEF RowsExist
<1>3. NoTask \notin Task
  BY DEF NoTask, Task
<1>4. SUFFICES /\ worker' = [worker EXCEPT ![w] = worker'[w]]
               /\ worker'[w] \in Task /\ worker'[w].job = t.job
               /\ UNCHANGED <<view, cancel, queue>>
  BY <1>1, <1>3, <1>4 DEF Idle, TypeOK
<1>5. CASE Start(w)
  BY <1>1, <1>5, HoldingEffect DEF Start, JobStatus
<1>6. CASE Report(w)
  BY <1>6, <1>2 DEF Report, TypeOK
<1>7. CASE Work(w)
  <2>1. PICK u \in Units(t.copy.type) \ t.units, pc \in {"ready", "committed", "finished"} :
          worker' = [worker EXCEPT ![w].units = @ \cup {u}, ![w].pc = pc]
    BY <1>7 DEF Work
  <2>2. u \in 1..ImportUnits
    BY <2>1, <1>2, UnitsType DEF Row
  <2>3. worker'[w] \in Task /\ worker'[w].job = t.job
    BY <2>1, <2>2, <1>2 DEF TypeOK, Task
  <2>4. worker' = [worker EXCEPT ![w] = [t EXCEPT !.units = t.units \cup {u}, !.pc = pc]]
    BY <2>1, <1>2 DEF TypeOK, Task
  <2>5. worker' = [worker EXCEPT ![w] = worker'[w]]
    BY <2>4 DEF TypeOK
  <2> QED
    BY <1>7, <2>3, <2>5 DEF Work
<1>8. CASE CheckCancelled(w)
  <2>1. PICK pc \in {"ready", "finished"} :
          worker' = [worker EXCEPT ![w].copy = job[t.job], ![w].pc = pc]
    BY <1>8 DEF CheckCancelled
  <2>2. worker'[w] \in Task /\ worker'[w].job = t.job
    BY <2>1, <1>2 DEF TypeOK, Task
  <2>3. worker' = [worker EXCEPT ![w] = [t EXCEPT !.copy = job[t.job], !.pc = pc]]
    BY <2>1, <1>2 DEF TypeOK, Task
  <2>4. worker' = [worker EXCEPT ![w] = worker'[w]]
    BY <2>3 DEF TypeOK
  <2> QED
    BY <1>8, <2>2, <2>4 DEF CheckCancelled
<1>9. CASE CleanUp(w)
  BY <1>9, <1>2 DEF CleanUp, TypeOK, Task
<1>10. CASE Skip(w)
  <2>1. PICK u \in Units(t.copy.type) \ t.units, pc \in {"ready", "finished"} :
          worker' = [worker EXCEPT ![w].units = @ \cup {u}, ![w].pc = pc]
    BY <1>10 DEF Skip
  <2>2. u \in 1..ImportUnits
    BY <2>1, <1>2, UnitsType DEF Row
  <2>3. worker'[w] \in Task /\ worker'[w].job = t.job
    BY <2>1, <2>2, <1>2 DEF TypeOK, Task
  <2>4. worker' = [worker EXCEPT ![w] = [t EXCEPT !.units = t.units \cup {u}, !.pc = pc]]
    BY <2>1, <1>2 DEF TypeOK, Task
  <2>5. worker' = [worker EXCEPT ![w] = worker'[w]]
    BY <2>4 DEF TypeOK
  <2> QED
    BY <1>10, <2>3, <2>5 DEF Skip
<1>11. CASE Refuse(w)
  BY <1>11, <1>2 DEF Refuse, TypeOK, Task
<1> QED
  BY <1>5, <1>6, <1>7, <1>8, <1>9, <1>10, <1>11 DEF GoesOn

LEMMA RequestsKeepAttempts ==
  ASSUME WellTyped, AttemptsAlone, NEW j \in Jobs,
         \/ \E type \in Type : Submit(j, type)
         \/ Publish(j) \/ StoreTaskId(j) \/ FetchToCancel(j) \/ Cancel(j)
  PROVE  AttemptsAlone'
<1> USE DEF WellTyped, AttemptsAlone, Sent, Idle
<1>1. ASSUME NEW type \in Type, Submit(j, type) PROVE AttemptsAlone'
  BY <1>1 DEF Submit, TypeOK, Message, Task
<1>2. CASE Publish(j)
  BY <1>2 DEF Publish, TypeOK, Message, Task
<1>3. CASE StoreTaskId(j)
  BY <1>3 DEF StoreTaskId, TypeOK, Message, Task
<1>4. CASE FetchToCancel(j)
  BY <1>4 DEF FetchToCancel
<1>5. CASE Cancel(j)
  BY <1>5 DEF Cancel
<1> QED
  BY <1>1, <1>2, <1>3, <1>4, <1>5

LEMMA WorkersKeepAttempts ==
  ASSUME WellTyped, AttemptsAlone, NEW w \in Workers, Advance(w) \/ Report(w) \/ Die(w)
  PROVE  AttemptsAlone'
<1> USE DEF WellTyped, Sent
<1>1. ASSUME NEW m \in queue, Take(w, m) PROVE AttemptsAlone'
  BY <1>1 DEF Take, Remaining, AttemptsAlone, TypeOK, Idle
<1>2. CASE GoesOn(w)
  <2>1. /\ \A v \in Workers : worker'[v].job = worker[v].job \/ Idle(v)
        /\ \A v \in Workers : Idle(v)' <=> Idle(v)
        /\ UNCHANGED <<view, queue>>
    BY <1>2, TaskGoesOn
  <2> QED
    BY <2>1 DEF AttemptsAlone
<1>3. CASE Complete(w) \/ Fail(w) \/ Die(w)
  <2>1. worker' = [worker EXCEPT ![w] = NoTask] /\ UNCHANGED <<view, queue>>
    BY <1>3 DEF Complete, Fail, Die, Ended
  <2> QED
    BY <2>1 DEF AttemptsAlone, TypeOK, Idle
<1>4. CASE Retry(w)
  <2>1. /\ ~Idle(w) /\ worker' = [worker EXCEPT ![w] = NoTask]
        /\ queue' = queue \cup {[job |-> worker[w].job, retries |-> worker[w].retries + 1]}
        /\ UNCHANGED view
    BY <1>4 DEF Retry, Ended
  <2> QED
    BY <2>1 DEF AttemptsAlone, TypeOK, Idle
<1> QED
  BY <1>1, <1>2, <1>3, <1>4 DEF Advance, GoesOn

\* No job ever has two attempts under way.
THEOREM OneAttemptAtATime == Spec => []OneAttempt
<1>1. Init => AttemptsAlone
  BY DEF Init, AttemptsAlone, Idle
<1>2. WellTyped /\ AttemptsAlone /\ UNCHANGED vars => AttemptsAlone'
  BY DEF AttemptsAlone, Sent, Idle, vars
<1>3. WellTyped /\ AttemptsAlone /\ [Next]_vars => AttemptsAlone'
  BY <1>2, RequestsKeepAttempts, WorkersKeepAttempts DEF Next
<1>4. WellTyped /\ [Next]_vars => WellTyped'
  BY RequestsWellTyped, WorkersWellTyped, Stutter DEF Next
<1>5. AttemptsAlone => OneAttempt
  BY DEF AttemptsAlone, OneAttempt, Tasks, Runners
<1> QED
  BY InitWellTyped, <1>1, <1>3, <1>4, <1>5, PTL DEF Spec

(***************************************************************************)
(* What the end of a job says stays.                                       *)
(***************************************************************************)

\* Every copy of a job, a request's or a worker's, has the type of its row;
\* nothing is known of a job before its submission.
CopiesAgree ==
  /\ \A j \in Jobs :
       /\ view[j].at = "start" => /\ job[j] = NoRow /\ cancel[j] = NoRow
                                  /\ committed[j] = {} /\ skipped[j] = {}
       /\ view[j].at # "start" => view[j].copy.type = job[j].type
                                  /\ view[j].copy.status = "QUEUED"
       /\ cancel[j] # NoRow => cancel[j].type = job[j].type
  /\ \A w \in Workers : ~Idle(w) => worker[w].copy.type = job[worker[w].job].type

Ends == {"COMPLETED", "FAILED"}

\* A job that says COMPLETED or FAILED has no message and no task, and no
\* task holds a copy that says so.
OnlyIdleJobsEnded ==
  /\ \A j \in Jobs : job[j].status \in Ends => Sent(j)
  /\ \A m \in queue : job[m.job].status \notin Ends
  /\ \A w \in Workers : ~Idle(w) =>
       job[worker[w].job].status \notin Ends /\ worker[w].copy.status \notin Ends

\* A row with another status.
LEMMA RowWithStatus ==
  ASSUME NEW r \in Row, NEW s
  PROVE  [r EXCEPT !.status = s].type = r.type /\ [r EXCEPT !.status = s].status = s
BY DEF Row

\* A task takes its copy from itself, with another status, or from the row.
LEMMA CopyOfTask ==
  ASSUME WellTyped, NEW w \in Workers,
         GoesOn(w)
  PROVE  LET t == worker[w]
         IN \/ /\ worker'[w].copy = [t.copy EXCEPT !.status = "RUNNING"]
               /\ job' = [job EXCEPT ![t.job] = [t.copy EXCEPT !.status = "RUNNING"]]
               /\ UNCHANGED <<committed, file>>
            \/ /\ worker'[w].copy = t.copy
               /\ job' = [job EXCEPT ![t.job] = t.copy]
               /\ UNCHANGED <<committed, file>>
            \/ worker'[w].copy = t.copy /\ UNCHANGED job
            \/ worker'[w].copy = job[t.job] /\ UNCHANGED job
<1> DEFINE t == worker[w]
<1> USE DEF WellTyped
<1>1. ~Idle(w) /\ t \in Task /\ t.job \in Jobs /\ t.copy \in Row
  BY TaskGoesOn, TaskType
<1>2. CASE Start(w)
  BY <1>1, <1>2, HoldingEffect DEF Start, Saved, JobStatus
<1>3. CASE Report(w)
  <2>1. [t.copy EXCEPT !.status = t.copy.status] = t.copy
    BY <1>1 DEF Row
  <2> QED
    BY <1>3, <2>1 DEF Report, Saved
<1>4. CASE Work(w)
  <2>1. PICK u, pc : worker' = [worker EXCEPT ![w].units = @ \cup {u}, ![w].pc = pc]
    BY <1>4 DEF Work
  <2> QED
    BY <1>4, <1>1, <2>1 DEF Work, TypeOK, Task
<1>5. CASE CheckCancelled(w)
  <2>1. PICK pc : worker' = [worker EXCEPT ![w].copy = job[t.job], ![w].pc = pc]
    BY <1>5 DEF CheckCancelled
  <2> QED
    BY <1>5, <1>1, <2>1 DEF CheckCancelled, TypeOK, Task
<1>6. CASE CleanUp(w)
  BY <1>6, <1>1 DEF CleanUp, TypeOK, Task
<1>7. CASE Skip(w)
  <2>1. PICK u, pc : worker' = [worker EXCEPT ![w].units = @ \cup {u}, ![w].pc = pc]
    BY <1>7 DEF Skip
  <2> QED
    BY <1>7, <1>1, <2>1 DEF Skip, TypeOK, Task
<1>8. CASE Refuse(w)
  BY <1>8, <1>1 DEF Refuse, TypeOK, Task
<1> QED
  BY <1>2, <1>3, <1>4, <1>5, <1>6, <1>7, <1>8 DEF GoesOn

LEMMA RequestsKeepCopies ==
  ASSUME WellTyped, CopiesAgree, NEW j \in Jobs,
         \/ \E type \in Type : Submit(j, type)
         \/ Publish(j) \/ StoreTaskId(j) \/ FetchToCancel(j) \/ Cancel(j)
  PROVE  CopiesAgree'
<1> USE DEF WellTyped, outcome
<1>1. ASSUME NEW type \in Type, Submit(j, type) PROVE CopiesAgree'
  <2> DEFINE row == [type |-> type, status |-> "QUEUED", task |-> FALSE]
  <2>1. row # NoRow /\ row.type = type /\ row.status = "QUEUED"
    BY DEF NoRow
  <2>2. /\ view[j].at = "start"
        /\ job' = [job EXCEPT ![j] = row]
        /\ view' = [view EXCEPT ![j] = [at |-> "created", copy |-> row]]
        /\ UNCHANGED <<committed, cancel, worker, skipped>>
    BY <1>1 DEF Submit
  <2> HIDE DEF row
  <2> QED
    BY <2>1, <2>2 DEF CopiesAgree, TypeOK, RowsExist, Idle, Task
<1>2. CASE Publish(j)
  BY <1>2 DEF Publish, CopiesAgree, TypeOK, Idle
<1>3. CASE StoreTaskId(j)
  <2>1. view[j].copy \in Row /\ job[j] \in Row /\ view[j].at = "sent"
    BY <1>3 DEF StoreTaskId, RowsExist
  <2>2. WithTaskId(j).type = job[j].type
    BY <2>1 DEF WithTaskId, Row, CopiesAgree
  <2>3. /\ job' = [job EXCEPT ![j] = WithTaskId(j)]
        /\ view' = [view EXCEPT ![j].at = "done"]
        /\ UNCHANGED <<committed, cancel, worker, skipped>>
    BY <1>3 DEF StoreTaskId
  <2> QED
    BY <2>1, <2>2, <2>3 DEF CopiesAgree, TypeOK, RowsExist, Idle, Task
<1>4. CASE FetchToCancel(j)
  BY <1>4 DEF FetchToCancel, CopiesAgree, TypeOK, Idle
<1>5. CASE Cancel(j)
  <2>1. cancel[j] \in Row /\ view[j].at # "start"
    BY <1>5 DEF Cancel, TypeOK, CopiesAgree
  <2>2. [cancel[j] EXCEPT !.status = "CANCELLED"].type = job[j].type
    BY <1>5, <2>1, RowWithStatus DEF Cancel, CopiesAgree
  <2>3. /\ job' = [job EXCEPT ![j] = [cancel[j] EXCEPT !.status = "CANCELLED"]]
           \/ UNCHANGED job
        /\ cancel' = [cancel EXCEPT ![j] = NoRow]
        /\ UNCHANGED <<view, committed, worker, skipped>>
    BY <1>5 DEF Cancel
  <2> QED
    BY <2>1, <2>2, <2>3 DEF CopiesAgree, TypeOK, RowsExist, Idle, Task
<1> QED
  BY <1>1, <1>2, <1>3, <1>4, <1>5

LEMMA WorkersKeepCopies ==
  ASSUME WellTyped, CopiesAgree, NEW w \in Workers, Advance(w) \/ Report(w) \/ Die(w)
  PROVE  CopiesAgree'
<1> DEFINE t == worker[w]
<1> USE DEF WellTyped, outcome
<1>1. ASSUME NEW m \in queue, Take(w, m) PROVE CopiesAgree'
  BY <1>1 DEF Take, CopiesAgree, TypeOK, Idle
<1>2. CASE GoesOn(w)
  <2>1. /\ ~Idle(w) /\ worker'[w].job = t.job
        /\ \A v \in Workers : (v # w => worker'[v] = worker[v]) /\ (Idle(v)' <=> Idle(v))
        /\ UNCHANGED <<view, cancel>>
    BY <1>2, TaskGoesOn
  <2>2. /\ t \in Task /\ t.job \in Jobs /\ t.copy \in Row
        /\ t.copy.type = job[t.job].type /\ view[t.job].at # "start"
    BY <2>1, TaskType DEF CopiesAgree, RowsExist
  <2> DEFINE run == [t.copy EXCEPT !.status = "RUNNING"]
  <2>3. run.type = t.copy.type
    BY <2>2, RowWithStatus
  <2>4. \/ worker'[w].copy = run /\ job' = [job EXCEPT ![t.job] = run]
        \/ worker'[w].copy = t.copy /\ job' = [job EXCEPT ![t.job] = t.copy]
        \/ worker'[w].copy = t.copy /\ UNCHANGED job
        \/ worker'[w].copy = job[t.job] /\ UNCHANGED job
    BY <1>2, CopyOfTask
  <2> HIDE DEF run
  <2>5. /\ worker'[w].copy.type = t.copy.type
        /\ \A j \in Jobs : job'[j].type = job[j].type /\ (j # t.job => job'[j] = job[j])
    BY <2>2, <2>3, <2>4 DEF TypeOK
  <2>6. \A j \in Jobs : j # t.job => /\ committed'[j] = committed[j]
                                     /\ skipped'[j] = skipped[j]
    BY <1>2, <2>2 DEF GoesOn, Start, Report, Work, Skip, Refuse, CheckCancelled, CleanUp,
                      Counted, TypeOK
  <2>7. \A v \in Workers : ~Idle(v) => worker[v].job \in Jobs
    BY TaskType
  <2> QED
    BY <2>1, <2>2, <2>5, <2>6, <2>7 DEF CopiesAgree
<1>3. CASE Complete(w) \/ Fail(w) \/ Die(w) \/ Retry(w)
  <2>1. /\ ~Idle(w) /\ worker' = [worker EXCEPT ![w] = NoTask]
        /\ UNCHANGED <<view, cancel, committed, skipped>>
    BY <1>3, Busy DEF Complete, Fail, Die, Retry, Ended
  <2>2. /\ t.job \in Jobs /\ t.copy \in Row
        /\ t.copy.type = job[t.job].type /\ view[t.job].at # "start"
    BY <2>1, TaskType DEF CopiesAgree, RowsExist
  <2>3. \A j \in Jobs : job'[j].type = job[j].type /\ (j # t.job => job'[j] = job[j])
    <3> DEFINE saved(s) == [t.copy EXCEPT !.status = s]
    <3>1. saved("COMPLETED").type = t.copy.type /\ saved("FAILED").type = t.copy.type
      BY <2>2, RowWithStatus
    <3>2. \/ UNCHANGED job
          \/ job' = [job EXCEPT ![t.job] = saved("COMPLETED")]
          \/ job' = [job EXCEPT ![t.job] = saved("FAILED")]
      BY <1>3 DEF Complete, Fail, Die, Retry, Saved
    <3> HIDE DEF saved
    <3> QED
      BY <2>2, <3>1, <3>2 DEF TypeOK
  <2>4. \A v \in Workers : ~Idle(v) => worker[v].job \in Jobs
    BY TaskType
  <2> QED
    BY <2>1, <2>2, <2>3, <2>4 DEF CopiesAgree, TypeOK, Idle
<1> QED
  BY <1>1, <1>2, <1>3 DEF Advance, GoesOn

LEMMA RequestsKeepEnds ==
  ASSUME WellTyped, AttemptsAlone, CopiesAgree, OnlyIdleJobsEnded, NEW j \in Jobs,
         \/ \E type \in Type : Submit(j, type)
         \/ Publish(j) \/ StoreTaskId(j) \/ FetchToCancel(j) \/ Cancel(j)
  PROVE  OnlyIdleJobsEnded'
<1> USE DEF WellTyped, Sent, Ends
<1>0. /\ \A m \in queue : m.job \in Jobs
      /\ \A w \in Workers : ~Idle(w) => worker[w].job \in Jobs
  BY TaskType DEF TypeOK, Message
<1>1. ASSUME NEW type \in Type, Submit(j, type) PROVE OnlyIdleJobsEnded'
  BY <1>0, <1>1 DEF Submit, OnlyIdleJobsEnded, AttemptsAlone, TypeOK, Idle
<1>2. CASE Publish(j)
  BY <1>0, <1>2 DEF Publish, OnlyIdleJobsEnded, TypeOK, Idle
<1>3. CASE StoreTaskId(j)
  <2>1. view[j].copy \in Row /\ job[j] \in Row /\ view[j].at = "sent"
    BY <1>3 DEF StoreTaskId, RowsExist
  <2>2. WithTaskId(j).status \in {"QUEUED", job[j].status}
    BY <2>1 DEF WithTaskId, Row, CopiesAgree
  <2>3. /\ job' = [job EXCEPT ![j] = WithTaskId(j)]
        /\ view' = [view EXCEPT ![j].at = "done"]
        /\ UNCHANGED <<queue, worker>>
    BY <1>3 DEF StoreTaskId
  <2> QED
    BY <1>0, <2>1, <2>2, <2>3 DEF OnlyIdleJobsEnded, TypeOK, Idle
<1>4. CASE FetchToCancel(j)
  BY <1>4 DEF FetchToCancel, OnlyIdleJobsEnded, Idle
<1>5. CASE Cancel(j)
  <2>1. cancel[j] \in Row
    BY <1>5 DEF Cancel, TypeOK
  <2> DEFINE row == [cancel[j] EXCEPT !.status = "CANCELLED"]
  <2>2. row.status = "CANCELLED"
    BY <2>1, RowWithStatus
  <2>3. job' = [job EXCEPT ![j] = row] \/ UNCHANGED job
    BY <1>5 DEF Cancel
  <2>4. UNCHANGED <<view, queue, worker>>
    BY <1>5 DEF Cancel
  <2> HIDE DEF row
  <2> QED
    BY <1>0, <2>2, <2>3, <2>4 DEF OnlyIdleJobsEnded, TypeOK, Idle
<1> QED
  BY <1>1, <1>2, <1>3, <1>4, <1>5

LEMMA WorkersKeepEnds ==
  ASSUME WellTyped, AttemptsAlone, OnlyIdleJobsEnded, NEW w \in Workers,
         Advance(w) \/ Report(w) \/ Die(w)
  PROVE  OnlyIdleJobsEnded'
<1> DEFINE t == worker[w]
<1> USE DEF WellTyped, Sent, Ends
<1>0. /\ \A m \in queue : m.job \in Jobs
      /\ \A v \in Workers : ~Idle(v) => worker[v].job \in Jobs
  BY TaskType DEF TypeOK, Message
<1>1. ASSUME NEW m \in queue, Take(w, m) PROVE OnlyIdleJobsEnded'
  BY <1>1 DEF Take, Remaining, OnlyIdleJobsEnded, TypeOK, Idle
<1>2. CASE GoesOn(w)
  <2>1. /\ ~Idle(w) /\ worker'[w].job = t.job
        /\ \A v \in Workers : (v # w => worker'[v] = worker[v]) /\ (Idle(v)' <=> Idle(v))
        /\ UNCHANGED <<view, queue>>
    BY <1>2, TaskGoesOn
  <2>2. t.job \in Jobs /\ t.copy \in Row
    BY <2>1, TaskType
  <2> DEFINE run == [t.copy EXCEPT !.status = "RUNNING"]
  <2>3. run.status = "RUNNING"
    BY <2>2, RowWithStatus
  <2>4. \/ worker'[w].copy = run /\ job' = [job EXCEPT ![t.job] = run]
        \/ worker'[w].copy = t.copy /\ job' = [job EXCEPT ![t.job] = t.copy]
        \/ worker'[w].copy = t.copy /\ UNCHANGED job
        \/ worker'[w].copy = job[t.job] /\ UNCHANGED job
    BY <1>2, CopyOfTask
  <2> HIDE DEF run
  <2>5. /\ t.copy.status \notin Ends /\ job[t.job].status \notin Ends
        /\ view[t.job].at \in {"sent", "done"}
    BY <2>1 DEF OnlyIdleJobsEnded, AttemptsAlone
  <2>6. /\ worker'[w].copy.status \notin Ends /\ job'[t.job].status \notin Ends
        /\ \A j \in Jobs : j # t.job => job'[j] = job[j]
    BY <2>2, <2>3, <2>4, <2>5 DEF TypeOK
  <2> QED
    BY <1>0, <2>1, <2>5, <2>6 DEF OnlyIdleJobsEnded
<1>3. CASE Complete(w) \/ Fail(w)
  <2>1. /\ ~Idle(w) /\ worker' = [worker EXCEPT ![w] = NoTask]
        /\ UNCHANGED <<view, queue>>
    BY <1>3, Busy DEF Complete, Fail, Ended
  <2>2. \A j \in Jobs : j # t.job => job'[j] = job[j]
    BY <1>3, <2>1, TaskType DEF Complete, Fail, Saved, TypeOK
  <2>3. /\ view[t.job].at \in {"sent", "done"}
        /\ \A m \in queue : m.job # t.job
        /\ \A v \in Workers : ~Idle(v) /\ v # w => worker[v].job # t.job
    BY <2>1 DEF AttemptsAlone
  <2> QED
    BY <1>0, <2>1, <2>2, <2>3 DEF OnlyIdleJobsEnded, TypeOK, Idle
<1>4. CASE Die(w) \/ Retry(w)
  <2>1. /\ ~Idle(w) /\ worker' = [worker EXCEPT ![w] = NoTask]
        /\ \A m \in queue' : m \in queue \/ m.job = t.job
        /\ UNCHANGED <<job, view>>
    BY <1>4 DEF Die, Retry, Ended
  <2> QED
    BY <2>1 DEF OnlyIdleJobsEnded, TypeOK, Idle
<1> QED
  BY <1>1, <1>2, <1>3, <1>4 DEF Advance, GoesOn

\* The invariant of all of the above.
JobInvariant == WellTyped /\ AttemptsAlone /\ CopiesAgree /\ OnlyIdleJobsEnded

LEMMA JobInvariantHolds == Spec => []JobInvariant
<1>1. Init => JobInvariant
  BY InitWellTyped DEF Init, JobInvariant, AttemptsAlone, CopiesAgree, NoRow,
     OnlyIdleJobsEnded, Ends, Idle
<1>2. JobInvariant /\ UNCHANGED vars => JobInvariant'
  BY Stutter DEF JobInvariant, AttemptsAlone, CopiesAgree, OnlyIdleJobsEnded, Sent,
     Idle, vars, outcome
<1>3. JobInvariant /\ Next => JobInvariant'
  BY RequestsWellTyped, WorkersWellTyped, RequestsKeepAttempts, WorkersKeepAttempts,
     RequestsKeepCopies, WorkersKeepCopies, RequestsKeepEnds, WorkersKeepEnds
     DEF JobInvariant, Next
<1> QED
  BY <1>1, <1>2, <1>3, PTL DEF Spec

\* The end of a job that is no batch stays, but for a cancellation.
LEMMA EndStays ==
  ASSUME JobInvariant, Next, NEW j \in Jobs,
         job[j].type \notin Batch, job[j].status \in Ends
  PROVE  job'[j].status \in {job[j].status, "CANCELLED"}
<1> USE DEF JobInvariant, WellTyped, Ends
<1>1. job[j] # NoRow /\ view[j].at # "start" /\ job[j] \in Row
  BY DEF NoRow, CopiesAgree, RowsExist
<1>2. ASSUME NEW k \in Jobs, NEW type \in Type, Submit(k, type)
      PROVE  job'[j].status = job[j].status
  BY <1>1, <1>2 DEF Submit, TypeOK
<1>3. ASSUME NEW k \in Jobs, Publish(k) \/ FetchToCancel(k)
      PROVE  job'[j].status = job[j].status
  BY <1>3 DEF Publish, FetchToCancel
<1>4. ASSUME NEW k \in Jobs, StoreTaskId(k)
      PROVE  job'[j].status = job[j].status
  <2>1. WithTaskId(j).status = job[j].status
    BY <1>1 DEF WithTaskId, Row
  <2> QED
    BY <1>4, <2>1 DEF StoreTaskId, TypeOK
<1>5. ASSUME NEW k \in Jobs, Cancel(k)
      PROVE  job'[j].status \in {job[j].status, "CANCELLED"}
  <2> DEFINE row == [cancel[k] EXCEPT !.status = "CANCELLED"]
  <2>1. row.status = "CANCELLED"
    BY <1>5, RowWithStatus DEF Cancel, TypeOK
  <2>2. job' = [job EXCEPT ![k] = row] \/ UNCHANGED job
    BY <1>5 DEF Cancel
  <2> HIDE DEF row
  <2> QED
    BY <2>1, <2>2 DEF TypeOK
<1>6. ASSUME NEW w \in Workers, Advance(w) \/ Report(w) \/ Die(w)
      PROVE  job'[j].status = job[j].status
  <2>1. ~Idle(w) => worker[w].job # j
    BY DEF OnlyIdleJobsEnded
  <2>2. Start(w) \/ Report(w) \/ Complete(w) \/ Fail(w) => ~Idle(w)
    BY Busy DEF Start, Report, Complete, Fail
  <2> QED
    BY <1>6, <2>1, <2>2
       DEF Advance, Take, Start, Report, Work, Skip, Refuse, CheckCancelled, CleanUp, Complete,
           Retry, Fail, Die, Saved, TypeOK
<1> QED
  BY <1>2, <1>3, <1>4, <1>5, <1>6 DEF Next

\* COMPLETED and FAILED are the last word on a job that is no batch, unless a
\* cancellation read it before: no retry, progress report or task id that is
\* stored late takes it back.
THEOREM EndsStay == Spec => FinishedStaysFinished
<1>1. JobInvariant /\ [Next]_vars =>
        [\A j \in Jobs :
           job[j].type \notin Batch /\ job[j].status \in {"COMPLETED", "FAILED"}
             => job'[j].status \in {job[j].status, "CANCELLED"}]_vars
  BY EndStays DEF Ends
<1> QED
  BY <1>1, JobInvariantHolds, PTL DEF Spec, FinishedStaysFinished

(***************************************************************************)
(* COMPLETED means done, and leaves no upload.                             *)
(***************************************************************************)

\* How far a task is tells what is done, and that the upload is gone.
TaskSound(w) ==
  LET t == worker[w]
  IN /\ t.units \subseteq committed[t.job] \cup skipped[t.job]
     /\ t.pc \in {"finished", "cleaned"} =>
          t.units = Units(t.copy.type) \/ t.job \in refused
     /\ t.pc = "cleaned" => ~file[t.job] \/ t.job \in unremoved

\* What is committed or counted is work of the job, and what its end says of its
\* work is true.
JobSound(j) ==
  /\ committed[j] \cup skipped[j] \subseteq Units(job[j].type)
  /\ job[j].status = "COMPLETED" =>
       committed[j] \cup skipped[j] = Units(job[j].type) \/ j \in refused
  /\ job[j].status \in Ends => ~file[j] \/ j \in unremoved

WorkDone ==
  /\ \A j \in Jobs : JobSound(j)
  /\ \A w \in Workers : ~Idle(w) => TaskSound(w)

LEMMA RequestsKeepWork ==
  ASSUME JobInvariant, WorkDone, NEW j \in Jobs,
         \/ \E type \in Type : Submit(j, type)
         \/ Publish(j) \/ StoreTaskId(j) \/ FetchToCancel(j) \/ Cancel(j)
  PROVE  WorkDone'
<1> USE DEF JobInvariant, WellTyped
<1>0. \A w \in Workers : ~Idle(w) => worker[w].job \in Jobs
  BY TaskType
<1>1. ASSUME NEW type \in Type, Submit(j, type) PROVE WorkDone'
  <2> DEFINE row == [type |-> type, status |-> "QUEUED", task |-> FALSE]
  <2>1. \A w \in Workers : ~Idle(w) => worker[w].job # j
    BY <1>1 DEF Submit, RowsExist
  <2>2. /\ job'[j].status = "QUEUED" /\ committed'[j] = {} /\ skipped'[j] = {}
        /\ \A k \in Jobs : k # j => job'[k] = job[k] /\ file'[k] = file[k]
        /\ UNCHANGED <<committed, worker, skipped, refused, unremoved>>
    BY <1>1 DEF Submit, TypeOK, CopiesAgree, outcome
  <2>3. JobSound(j)'
    BY <2>2 DEF JobSound, Ends
  <2>4. \A k \in Jobs : k # j => JobSound(k)'
    BY <2>2 DEF WorkDone, JobSound
  <2>5. \A w \in Workers : ~Idle(w)' => TaskSound(w)'
    BY <1>0, <2>1, <2>2 DEF WorkDone, TaskSound, Idle
  <2> QED
    BY <2>3, <2>4, <2>5 DEF WorkDone
<1>2. CASE Publish(j) \/ FetchToCancel(j)
  <2>1. UNCHANGED <<job, file, committed, worker, outcome>>
    BY <1>2 DEF Publish, FetchToCancel
  <2> QED
    BY <2>1 DEF WorkDone, JobSound, TaskSound, Idle, outcome
<1>3. CASE StoreTaskId(j) \/ Cancel(j)
  <2>1. /\ job'[j].type = job[j].type
        /\ job'[j].status \in {"QUEUED", job[j].status, "CANCELLED"}
        /\ \A k \in Jobs : k # j => job'[k] = job[k]
    <3>1. CASE StoreTaskId(j)
      <4>1. view[j].copy \in Row /\ job[j] \in Row /\ view[j].at = "sent"
        BY <3>1 DEF StoreTaskId, RowsExist
      <4>2. /\ WithTaskId(j).status \in {"QUEUED", job[j].status}
            /\ WithTaskId(j).type = job[j].type
        BY <4>1 DEF WithTaskId, Row, CopiesAgree
      <4> QED
        BY <3>1, <4>2 DEF StoreTaskId, TypeOK
    <3>2. CASE Cancel(j)
      <4> DEFINE row == [cancel[j] EXCEPT !.status = "CANCELLED"]
      <4>1. row.status = "CANCELLED" /\ row.type = job[j].type
        BY <3>2, RowWithStatus DEF Cancel, TypeOK, CopiesAgree
      <4>2. job' = [job EXCEPT ![j] = row] \/ UNCHANGED job
        BY <3>2 DEF Cancel
      <4> HIDE DEF row
      <4> QED
        BY <4>1, <4>2 DEF TypeOK
    <3> QED
      BY <1>3, <3>1, <3>2
  <2>2. UNCHANGED <<file, committed, worker, skipped, refused, unremoved>>
    BY <1>3 DEF StoreTaskId, Cancel, outcome
  <2>3. \A k \in Jobs : JobSound(k)'
    BY <2>1, <2>2 DEF WorkDone, JobSound, Ends
  <2>4. \A w \in Workers : ~Idle(w)' => TaskSound(w)'
    BY <1>0, <2>1, <2>2 DEF WorkDone, TaskSound, Idle
  <2> QED
    BY <2>3, <2>4 DEF WorkDone
<1> QED
  BY <1>1, <1>2, <1>3

\* A step of a task touches its own job only, and keeps the type of that job.
LEMMA TaskTouchesItsJob ==
  ASSUME JobInvariant, NEW w \in Workers, ~Idle(w), Advance(w) \/ Report(w) \/ Die(w)
  PROVE  LET j == worker[w].job
         IN /\ j \in Jobs
            /\ \A k \in Jobs : k # j => /\ job'[k] = job[k] /\ file'[k] = file[k]
                                        /\ committed'[k] = committed[k]
                                        /\ skipped'[k] = skipped[k]
                                        /\ k \in refused' <=> k \in refused
                                        /\ k \in unremoved' <=> k \in unremoved
            /\ job'[j].type = job[j].type
            /\ \A v \in Workers : v # w => worker'[v] = worker[v]
            /\ \A v \in Workers : v # w /\ ~Idle(v) => worker[v].job # j
<1> DEFINE t == worker[w]
           j == t.job
<1> USE DEF JobInvariant, WellTyped
<1>1. t \in Task /\ j \in Jobs /\ t.copy \in Row /\ t.copy.type = job[j].type
  BY TaskType DEF CopiesAgree
<1>2. \A v \in Workers : v # w /\ ~Idle(v) => worker[v].job # j
  BY DEF AttemptsAlone
<1>3. \A m \in queue : ~Take(w, m)
  BY DEF Take
<1> DEFINE saved(s) == [t.copy EXCEPT !.status = s]
<1>4. /\ saved("RUNNING").type = job[j].type /\ saved("COMPLETED").type = job[j].type
      /\ saved("FAILED").type = job[j].type /\ saved(t.copy.status).type = job[j].type
  BY <1>1, RowWithStatus
<1>5. \/ UNCHANGED job
      \/ \E s \in {"RUNNING", "COMPLETED", "FAILED", t.copy.status} :
           job' = [job EXCEPT ![j] = saved(s)]
  BY <1>3 DEF Advance, Start, Report, Work, Skip, Refuse, CheckCancelled, CleanUp, Complete, Retry,
     Fail, Die, Saved
<1>6. /\ job'[j].type = job[j].type
      /\ \A k \in Jobs : k # j => job'[k] = job[k]
  <2> HIDE DEF saved
  <2> QED
    BY <1>1, <1>4, <1>5 DEF TypeOK
<1>7. \A k \in Jobs : k # j => /\ skipped'[k] = skipped[k]
                               /\ k \in refused' <=> k \in refused
                               /\ k \in unremoved' <=> k \in unremoved
  BY <1>1, <1>3 DEF Advance, Start, Report, Work, Skip, Refuse, CheckCancelled, CleanUp,
     Complete, Retry, Fail, Die, Removal, Counted, TypeOK, outcome
<1>8. \A k \in Jobs : k # j => file'[k] = file[k] /\ committed'[k] = committed[k]
  BY <1>1, <1>3 DEF Advance, Start, Report, Work, Skip, Refuse, CheckCancelled, CleanUp,
     Complete, Retry, Fail, Die, Removal, TypeOK
<1>9. \A v \in Workers : v # w => worker'[v] = worker[v]
  BY <1>3 DEF Advance, Start, Report, Work, Skip, Refuse, CheckCancelled, CleanUp, Complete,
     Retry, Fail, Die, Holding, Ended, TypeOK
<1> QED
  BY <1>1, <1>2, <1>6, <1>7, <1>8, <1>9

LEMMA TakeKeepsWork ==
  ASSUME JobInvariant, WorkDone, NEW w \in Workers, NEW m \in queue, Take(w, m)
  PROVE  WorkDone'
<1> USE DEF JobInvariant, WellTyped
<1>1. UNCHANGED <<job, file, committed, skipped, refused, unremoved>>
  BY DEF Take, outcome
<1>2. \/ UNCHANGED worker
      \/ worker' = [worker EXCEPT ![w] =
           [job |-> m.job, retries |-> m.retries, copy |-> job[m.job],
            pc |-> "taken", units |-> {}]]
  BY DEF Take
<1>3. m.job \in Jobs
  BY DEF TypeOK, Message
<1>4. \A k \in Jobs : JobSound(k)'
  BY <1>1 DEF WorkDone, JobSound
<1>5. \A v \in Workers : ~Idle(v)' => TaskSound(v)'
  <2> SUFFICES ASSUME NEW v \in Workers, ~Idle(v)' PROVE TaskSound(v)'
    OBVIOUS
  <2>1. CASE worker'[v] = worker[v]
    BY <1>1, <2>1 DEF WorkDone, TaskSound, Idle
  <2>2. CASE worker'[v] = [job |-> m.job, retries |-> m.retries, copy |-> job[m.job],
                           pc |-> "taken", units |-> {}]
    BY <2>2 DEF TaskSound
  <2> QED
    BY <1>2, <2>1, <2>2 DEF TypeOK
<1> QED
  BY <1>4, <1>5 DEF WorkDone

LEMMA TasksKeepWork ==
  ASSUME JobInvariant, WorkDone, NEW w \in Workers, ~Idle(w),
         NEW j \in Jobs, worker[w].job = j,
         Advance(w) \/ Report(w) \/ Die(w)
  PROVE  WorkDone'
<1> DEFINE t == worker[w]
<1> USE DEF JobInvariant, WellTyped
<1>1. \A m \in queue : ~Take(w, m)
  BY DEF Take
<1>2. SUFFICES JobSound(j)' /\ (~Idle(w)' => TaskSound(w)')
  <2>1. /\ \A k \in Jobs : k # j => /\ job'[k] = job[k] /\ file'[k] = file[k]
                                    /\ committed'[k] = committed[k]
                                    /\ skipped'[k] = skipped[k]
                                    /\ k \in refused' <=> k \in refused
                                    /\ k \in unremoved' <=> k \in unremoved
        /\ \A v \in Workers : v # w => worker'[v] = worker[v]
        /\ \A v \in Workers : v # w /\ ~Idle(v) => worker[v].job # j
    BY TaskTouchesItsJob
  <2>2. \A k \in Jobs : JobSound(k)'
    BY <1>2, <2>1 DEF WorkDone, JobSound
  <2>3. \A v \in Workers : ~Idle(v) => worker[v].job \in Jobs
    BY TaskType
  <2>4. \A v \in Workers : ~Idle(v)' => TaskSound(v)'
    BY <1>2, <2>1, <2>3 DEF WorkDone, TaskSound, Idle
  <2> QED
    BY <2>2, <2>4 DEF WorkDone
<1>3. /\ t \in Task /\ t.copy \in Row /\ job[j] \in Row
      /\ JobSound(j) /\ TaskSound(w)
      /\ job[j].status \notin Ends /\ t.copy.status \notin Ends
      /\ t.copy.type = job[j].type /\ job'[j].type = job[j].type
  BY TaskType, TaskTouchesItsJob
     DEF WorkDone, OnlyIdleJobsEnded, CopiesAgree, RowsExist
<1>4. CASE Start(w)
  <2> DEFINE run == [t.copy EXCEPT !.status = "RUNNING"]
  <2>1. /\ worker'[w].copy = run /\ worker'[w].job = j
        /\ worker'[w].pc = "ready" /\ worker'[w].units = t.units
    BY <1>4, HoldingEffect DEF Start, JobStatus
  <2>2. run.status = "RUNNING"
    BY <1>3, RowWithStatus
  <2>3. job'[j] = run /\ UNCHANGED <<file, committed, skipped, refused, unremoved>>
    BY <1>4 DEF Start, Saved, TypeOK, outcome
  <2> HIDE DEF run
  <2>4. JobSound(j)'
    BY <1>3, <2>2, <2>3 DEF JobSound, Ends
  <2>5. TaskSound(w)'
    BY <1>3, <2>1, <2>2, <2>3 DEF TaskSound
  <2> QED
    BY <2>4, <2>5
<1>5. CASE Report(w)
  <2>1. [t.copy EXCEPT !.status = t.copy.status].status = t.copy.status
    BY <1>3 DEF Row
  <2>2. /\ job'[j].status = t.copy.status
        /\ UNCHANGED <<file, committed, worker, skipped, refused, unremoved>>
    BY <1>5, <2>1 DEF Report, Saved, TypeOK, outcome
  <2>3. JobSound(j)'
    BY <1>3, <2>2 DEF JobSound, TaskSound, Ends
  <2>4. TaskSound(w)'
    BY <1>3, <2>2 DEF TaskSound
  <2> QED
    BY <2>3, <2>4
<1>6. CASE Work(w)
  <2> DEFINE left == Units(t.copy.type) \ t.units
  <2>1. PICK u \in left, pc \in {"ready", "committed", "finished"} :
          /\ pc = "finished" => DoneWith(left, u)
          /\ committed' = [committed EXCEPT ![j] = @ \cup {u}]
          /\ worker' = [worker EXCEPT ![w].units = @ \cup {u}, ![w].pc = pc]
    BY <1>6 DEF Work
  <2>2. UNCHANGED <<job, file, skipped, unremoved>>
    BY <1>6 DEF Work
  <2>3. /\ worker'[w].job = j /\ worker'[w].copy = t.copy
        /\ worker'[w].units = t.units \cup {u} /\ worker'[w].pc = pc
    BY <1>3, <2>1 DEF TypeOK, Task
  <2>4. committed'[j] = committed[j] \cup {u}
    BY <2>1 DEF TypeOK
  <2>5. pc = "finished" => t.units \cup {u} = Units(t.copy.type)
    <3>1. t.units \subseteq Units(t.copy.type)
      BY <1>3 DEF JobSound, TaskSound
    <3> QED
      BY <2>1, <3>1 DEF DoneWith
  <2>6. JobSound(j)'
    BY <1>3, <2>1, <2>2, <2>4 DEF JobSound, Ends
  <2>7. TaskSound(w)'
    BY <1>3, <2>1, <2>2, <2>3, <2>4, <2>5 DEF TaskSound
  <2> QED
    BY <2>6, <2>7
<1>7. CASE CheckCancelled(w)
  <2>1. PICK pc \in {"ready", "finished"} :
          /\ worker' = [worker EXCEPT ![w].copy = job[j], ![w].pc = pc]
          /\ pc = "finished" =>
               job[j].status = "CANCELLED" \/ t.units = Units(t.copy.type)
    BY <1>7 DEF CheckCancelled
  <2>2. /\ worker'[w].job = j /\ worker'[w].copy = job[j]
        /\ worker'[w].units = t.units /\ worker'[w].pc = pc
    BY <1>3, <2>1 DEF TypeOK, Task
  <2>3. /\ UNCHANGED <<job, file, committed, skipped, unremoved>>
        /\ job[j].status = "CANCELLED" => j \in refused'
        /\ job[j].status \notin Ends
    BY <1>3, <1>7 DEF CheckCancelled
  <2>4. JobSound(j)'
    BY <1>3, <2>3 DEF JobSound, Ends
  <2>5. TaskSound(w)'
    BY <1>3, <2>1, <2>2, <2>3 DEF TaskSound, JobSound
  <2> QED
    BY <2>4, <2>5
<1>8. CASE CleanUp(w)
  <2>1. /\ worker'[w].job = j /\ worker'[w].copy = t.copy
        /\ worker'[w].units = t.units /\ worker'[w].pc = "cleaned"
    BY <1>3, <1>8 DEF CleanUp, TypeOK, Task
  <2>2. /\ UNCHANGED <<job, committed, skipped, refused>> /\ t.pc = "finished"
        /\ ~file'[j] \/ j \in unremoved'
    BY <1>8 DEF CleanUp, Removal, At, TypeOK
  <2>3. JobSound(j)'
    BY <1>3, <2>2 DEF JobSound, Ends
  <2>4. TaskSound(w)'
    BY <1>3, <2>1, <2>2 DEF TaskSound
  <2> QED
    BY <2>3, <2>4
<1>9. CASE Complete(w)
  <2>1. /\ UNCHANGED <<file, committed, skipped, refused, unremoved>>
        /\ t.pc = "cleaned" /\ Idle(w)'
    BY <1>9 DEF Complete, At, Ended, Idle, TypeOK, outcome
  <2>2. [t.copy EXCEPT !.status = "COMPLETED"].status = "COMPLETED"
    BY <1>3, RowWithStatus
  <2>3. job'[j].status = "COMPLETED"
    BY <1>9, <2>2 DEF Complete, Saved, TypeOK
  <2>4. JobSound(j)'
    BY <1>3, <2>1, <2>3 DEF JobSound, TaskSound
  <2> QED
    BY <2>1, <2>4
<1>10. CASE Fail(w)
  <2>1. /\ UNCHANGED <<committed, skipped, refused>> /\ Idle(w)'
        /\ ~file'[j] \/ j \in unremoved'
    BY <1>10 DEF Fail, Removal, Ended, Idle, TypeOK
  <2>2. [t.copy EXCEPT !.status = "FAILED"].status = "FAILED"
    BY <1>3, RowWithStatus
  <2>3. job'[j].status = "FAILED"
    BY <1>10, <2>2 DEF Fail, Saved, TypeOK
  <2>4. JobSound(j)'
    BY <1>3, <2>1, <2>3 DEF JobSound
  <2> QED
    BY <2>1, <2>4
<1>11. CASE Retry(w) \/ Die(w)
  <2>1. UNCHANGED <<job, file, committed, skipped, refused, unremoved>> /\ Idle(w)'
    BY <1>11 DEF Retry, Die, Ended, Idle, TypeOK, outcome
  <2> QED
    BY <1>3, <2>1 DEF JobSound
<1>12. CASE Skip(w)
  <2> DEFINE left == Units(t.copy.type) \ t.units
  <2>1. PICK u \in left, pc \in {"ready", "finished"} :
          /\ pc = "finished" => left = {u}
          /\ skipped' = [skipped EXCEPT ![j] = @ \cup {u}]
          /\ worker' = [worker EXCEPT ![w].units = @ \cup {u}, ![w].pc = pc]
    BY <1>12 DEF Skip, Counted
  <2>2. UNCHANGED <<job, file, committed, refused, unremoved>>
    BY <1>12 DEF Skip
  <2>3. /\ worker'[w].job = j /\ worker'[w].copy = t.copy
        /\ worker'[w].units = t.units \cup {u} /\ worker'[w].pc = pc
    BY <1>3, <2>1 DEF TypeOK, Task
  <2>4. skipped'[j] = skipped[j] \cup {u}
    BY <2>1 DEF TypeOK
  <2>5. pc = "finished" => t.units \cup {u} = Units(t.copy.type)
    <3>1. t.units \subseteq Units(t.copy.type)
      BY <1>3 DEF JobSound, TaskSound
    <3> QED
      BY <2>1, <3>1
  <2>6. JobSound(j)'
    BY <1>3, <2>1, <2>2, <2>4 DEF JobSound, Ends
  <2>7. TaskSound(w)'
    BY <1>3, <2>1, <2>2, <2>3, <2>4, <2>5 DEF TaskSound
  <2> QED
    BY <2>6, <2>7
<1>13. CASE Refuse(w)
  <2>1. /\ worker'[w].job = j /\ worker'[w].copy = t.copy
        /\ worker'[w].units = t.units /\ worker'[w].pc = "finished"
    BY <1>3, <1>13 DEF Refuse, TypeOK, Task
  <2>2. UNCHANGED <<job, file, committed, skipped, unremoved>> /\ j \in refused'
    BY <1>13 DEF Refuse
  <2>3. JobSound(j)'
    BY <1>3, <2>2 DEF JobSound, Ends
  <2>4. TaskSound(w)'
    BY <1>3, <2>1, <2>2 DEF TaskSound
  <2> QED
    BY <2>3, <2>4
<1> QED
  BY <1>1, <1>4, <1>5, <1>6, <1>7, <1>8, <1>9, <1>10, <1>11, <1>12, <1>13 DEF Advance

LEMMA WorkDoneHolds == Spec => []WorkDone
<1>1. Init => WorkDone
  BY DEF Init, WorkDone, JobSound, NoRow, Ends, Idle
<1>2. WorkDone /\ UNCHANGED vars => WorkDone'
  BY DEF WorkDone, JobSound, TaskSound, Idle, vars, outcome
<1>3. ASSUME JobInvariant, WorkDone, NEW w \in Workers, Advance(w) \/ Report(w) \/ Die(w)
      PROVE  WorkDone'
  <2>1. CASE Idle(w)
    <3>1. PICK m \in queue : Take(w, m)
      BY <1>3, <2>1, Busy DEF Advance, Report, Die, Start, Work, Skip, Refuse, CheckCancelled,
         CleanUp, Complete, Retry, Fail
    <3> QED
      BY <1>3, <3>1, TakeKeepsWork
  <2>2. CASE ~Idle(w)
    BY <1>3, <2>2, TasksKeepWork, TaskType DEF JobInvariant, WellTyped
  <2> QED
    BY <2>1, <2>2
<1>4. JobInvariant /\ WorkDone /\ [Next]_vars => WorkDone'
  BY <1>2, <1>3, RequestsKeepWork DEF Next
<1> QED
  BY <1>1, <1>4, JobInvariantHolds, PTL DEF Spec

\* COMPLETED means that every unit of the job's work is committed, or counted as
\* failed by the session of a reupload, and that the session of an import that
\* stopped early, cancelled or without a header row, says FAILED.
THEOREM CompletedMeansDone == Spec => []CompletedDidWork
<1>1. WorkDone => CompletedDidWork
  BY DEF WorkDone, JobSound, CompletedDidWork
<1> QED
  BY <1>1, WorkDoneHolds, PTL

\* A job that ended by itself, well or not, left no temporary upload, but one
\* that could not be removed.
THEOREM NoUploadLeft == Spec => []FinishedLeavesNoFile
<1>1. WorkDone => FinishedLeavesNoFile
  BY DEF WorkDone, JobSound, Ends, FinishedLeavesNoFile
<1> QED
  BY <1>1, WorkDoneHolds, PTL

(***************************************************************************)
(* Nothing is forgotten, and nothing turns in circles: what is left of     *)
(* PublishedJobsEnd without the fairness of the workers.                   *)
(***************************************************************************)

\* There is something in the system that will end this job, or something is
\* known to have taken that from it.
Accounted(j) ==
  Sent(j) /\ job[j].type \notin Batch =>
    \/ job[j].status \in Final
    \/ \E m \in queue : m.job = j
    \/ \E w \in Workers : ~Idle(w) /\ worker[w].job = j
    \/ j \in lost \cup revoked

NoJobForgotten ==
  \A j \in Jobs :
    Sent(j) /\ job[j].type \notin Batch /\ job[j].status \notin Final =>
      Tasks(j) # {} \/ Runners(j) # {} \/ j \in lost \cup revoked

LEMMA RequestsAccount ==
  ASSUME JobInvariant, \A k \in Jobs : Accounted(k), NEW j \in Jobs,
         \/ \E type \in Type : Submit(j, type)
         \/ Publish(j) \/ StoreTaskId(j) \/ FetchToCancel(j) \/ Cancel(j)
  PROVE  \A k \in Jobs : Accounted(k)'
<1> USE DEF JobInvariant, WellTyped
<1>1. /\ queue \subseteq queue' /\ revoked \subseteq revoked'
      /\ UNCHANGED <<worker, lost>>
      /\ \A k \in Jobs : k # j => job'[k] = job[k] /\ view'[k] = view[k]
  BY DEF Submit, Publish, StoreTaskId, FetchToCancel, Cancel, TypeOK
<1>2. \A k \in Jobs : k # j => Accounted(k)'
  BY <1>1 DEF Accounted, Sent, Idle
<1>8. SUFFICES Accounted(j)'
  BY <1>2
<1>3. ASSUME NEW type \in Type, Submit(j, type) PROVE Accounted(j)'
  BY <1>3 DEF Submit, Accounted, Sent, TypeOK
<1>4. CASE Publish(j)
  <2>1. [job |-> j, retries |-> 0] \in queue'
    BY <1>4 DEF Publish
  <2> QED
    BY <2>1 DEF Accounted
<1>5. CASE StoreTaskId(j)
  <2>1. Sent(j) /\ job[j] \in Row
    BY <1>5 DEF StoreTaskId, Sent, RowsExist
  <2>2. job'[j].type = job[j].type
        /\ (job[j].type \notin Batch => job'[j].status = job[j].status)
    BY <1>5, <2>1 DEF StoreTaskId, WithTaskId, RowsExist, CopiesAgree, Row, TypeOK
  <2> QED
    BY <1>1, <2>1, <2>2 DEF Accounted, Idle
<1>6. CASE FetchToCancel(j)
  BY <1>6 DEF FetchToCancel, Accounted, Sent, Idle
<1>7. CASE Cancel(j)
  <2>1. /\ job'[j].type = job[j].type /\ UNCHANGED view
        /\ job'[j].status = "CANCELLED" \/ job'[j] = job[j]
    <3> DEFINE row == [cancel[j] EXCEPT !.status = "CANCELLED"]
    <3>1. row.status = "CANCELLED" /\ row.type = job[j].type
      BY <1>7, RowWithStatus DEF Cancel, TypeOK, CopiesAgree
    <3>2. (job' = [job EXCEPT ![j] = row] \/ UNCHANGED job) /\ UNCHANGED view
      BY <1>7 DEF Cancel
    <3> HIDE DEF row
    <3> QED
      BY <3>1, <3>2 DEF TypeOK
  <2> QED
    BY <1>1, <2>1 DEF Accounted, Sent, Idle, Final
<1> QED
  BY <1>3, <1>4, <1>5, <1>6, <1>7

LEMMA WorkersAccount ==
  ASSUME JobInvariant, \A k \in Jobs : Accounted(k),
         NEW w \in Workers, Advance(w) \/ Report(w) \/ Die(w)
  PROVE  \A k \in Jobs : Accounted(k)'
<1> USE DEF JobInvariant, WellTyped
<1> DEFINE t == worker[w]
<1>0. /\ UNCHANGED view /\ UNCHANGED revoked /\ lost \subseteq lost'
      /\ ~Idle(w) => t.job \in Jobs /\ t.copy \in Row
  BY TaskType DEF Advance, Take, Start, Work, Skip, Refuse, CheckCancelled, CleanUp, Complete, Retry, Fail,
     Report, Die
<1>1. ASSUME NEW m \in queue, Take(w, m) PROVE \A k \in Jobs : Accounted(k)'
  <2>1. /\ Idle(w) /\ UNCHANGED <<job, lost>> /\ m.job \in Jobs
        /\ \A n \in queue : n # m => n \in queue'
        /\ \A v \in Workers : v # w => worker'[v] = worker[v]
    BY <1>1 DEF Take, Remaining, TypeOK, Message
  <2>2. \A k \in Jobs : k # m.job => Accounted(k)'
    BY <1>0, <2>1 DEF Accounted, Sent, Idle
  <2>3. CASE Skips(m.job)
    <3>1. Accounted(m.job)'
      BY <1>0, <2>1, <2>3 DEF Skips, Accounted, Final
    <3> QED
      BY <2>2, <3>1
  <2>4. CASE ~Skips(m.job)
    <3>1. worker'[w].job = m.job /\ worker'[w].pc = "taken"
      BY <1>1, <2>4 DEF Take, TypeOK
    <3>2. Accounted(m.job)'
      BY <3>1 DEF Accounted, Idle, NoTask
    <3> QED
      BY <2>2, <3>2
  <2> QED
    BY <2>3, <2>4
<1>2. CASE GoesOn(w)
  <2>1. /\ ~Idle(w) /\ worker'[w].job = t.job /\ UNCHANGED queue
        /\ \A v \in Workers : (v # w => worker'[v] = worker[v]) /\ (Idle(v)' <=> Idle(v))
    BY <1>2, TaskGoesOn
  <2>2. \A k \in Jobs : k # t.job => job'[k] = job[k]
    BY <1>2, <2>1, TaskTouchesItsJob DEF Advance
  <2>3. \A k \in Jobs : k # t.job => Accounted(k)'
    BY <1>0, <2>1, <2>2 DEF Accounted, Sent
  <2>4. \A k \in Jobs : k = t.job => Accounted(k)'
    BY <2>1 DEF Accounted
  <2> QED
    BY <2>3, <2>4
<1>3. CASE Complete(w) \/ Fail(w) \/ Retry(w) \/ Die(w)
  <2>1. ~Idle(w)
    BY <1>3, Busy DEF Complete, Fail, Retry, Die
  <2>2. /\ \A k \in Jobs : k # t.job => job'[k] = job[k]
        /\ \A v \in Workers : v # w => worker'[v] = worker[v]
        /\ queue \subseteq queue'
    BY <1>3, <2>1, TaskTouchesItsJob DEF Advance, Complete, Fail, Retry, Die
  <2>3. \A k \in Jobs : k # t.job => Accounted(k)'
    BY <1>0, <2>2 DEF Accounted, Sent, Idle
  <2>4. ASSUME NEW k \in Jobs, k = t.job PROVE Accounted(k)'
    <3>1. CASE Complete(w) \/ Fail(w)
      <4>1. /\ [t.copy EXCEPT !.status = "COMPLETED"].status = "COMPLETED"
            /\ [t.copy EXCEPT !.status = "FAILED"].status = "FAILED"
        BY <1>0, <2>1, RowWithStatus
      <4>2. job'[k].status \in Final
        BY <1>0, <2>4, <2>1, <3>1, <4>1 DEF Complete, Fail, Saved, Final, TypeOK
      <4> QED
        BY <4>2 DEF Accounted
    <3>2. CASE Retry(w)
      <4>1. [job |-> k, retries |-> t.retries + 1] \in queue'
        BY <2>4, <3>2 DEF Retry
      <4> QED
        BY <4>1 DEF Accounted
    <3>3. CASE Die(w)
      BY <2>4, <3>3 DEF Die, Accounted
    <3> QED
      BY <1>3, <3>1, <3>2, <3>3
  <2> QED
    BY <2>3, <2>4
<1> QED
  BY <1>1, <1>2, <1>3 DEF Advance, GoesOn

\* A published job that is no batch and has not ended has a message at the broker
\* or a task at a worker, unless the worker died with it or a cancellation told
\* the workers to revoke it: no retry and no late save drops it.
THEOREM NoJobForgottenAlways == Spec => []NoJobForgotten
<1> DEFINE AllAccounted == \A j \in Jobs : Accounted(j)
<1>1. Init => AllAccounted
  BY DEF Init, Accounted, Sent
<1>2. AllAccounted /\ UNCHANGED vars => AllAccounted'
  BY DEF Accounted, Sent, Idle, vars
<1>3. JobInvariant /\ AllAccounted /\ [Next]_vars => AllAccounted'
  BY <1>2, RequestsAccount, WorkersAccount DEF Next
<1>4. AllAccounted => NoJobForgotten
  BY DEF Accounted, NoJobForgotten, Tasks, Runners
<1> QED
  BY <1>1, <1>3, <1>4, JobInvariantHolds, PTL DEF Spec

\* How far a task is.  After a committed unit an import looks at its row before
\* it is ready for the next.
Rank(pc) == CASE pc = "taken"     -> 0
              [] pc = "committed" -> 1
              [] pc = "ready"     -> 2
              [] pc = "finished"  -> 3
              [] OTHER            -> 4

\* The same attempt, with more of its units done or nearer to its end.
Further(t, u) ==
  /\ u.job = t.job /\ u.retries = t.retries /\ t.units \subseteq u.units
  /\ t.units # u.units \/ Rank(t.pc) < Rank(u.pc)

\* A step changes a task by ending it, with or without a retry, or by getting it
\* further; and a message is a new one or the next try of a task that ends.
TasksGoForward ==
  /\ \A w \in Workers : ~Idle(w) =>
       worker'[w] = worker[w] \/ Idle(w)' \/ Further(worker[w], worker'[w])
  /\ \A m \in queue' \ queue :
       \/ view[m.job].at = "created" /\ m.retries = 0
       \/ \E w \in Workers : /\ ~Idle(w) /\ Idle(w)'
                             /\ m.job = worker[w].job /\ m.retries = worker[w].retries + 1

\* A job takes at most MaxRetries + 1 attempts and each of them at most as many
\* steps as it has units and stages, progress reports aside: together with
\* NoJobForgotten and the fairness of the workers, every published job ends.
THEOREM TasksGoForwardAlways == Spec => [][TasksGoForward]_vars
<1> USE DEF WellTyped
<1>1. ASSUME WellTyped, NEW w \in Workers, ~Idle(w), Advance(w) \/ Report(w) \/ Die(w)
      PROVE  worker'[w] = worker[w] \/ Idle(w)' \/ Further(worker[w], worker'[w])
  <2> DEFINE t == worker[w]
  <2>1. TypeOK /\ t \in Task /\ t.copy \in Row /\ \A m \in queue : ~Take(w, m)
    BY <1>1, TaskType DEF Take
  <2>0. /\ Rank("taken") = 0 /\ Rank("committed") = 1 /\ Rank("ready") = 2
        /\ Rank("finished") = 3 /\ Rank("cleaned") = 4
    BY DEF Rank
  <2>2. CASE Start(w)
    <3>1. /\ worker'[w].job = t.job /\ worker'[w].units = t.units
          /\ worker'[w].pc = "ready" /\ t.pc = "taken"
      BY <1>1, <2>2, HoldingEffect DEF Start, At, JobStatus
    <3>2. worker'[w].retries = t.retries
      BY <2>1, <2>2 DEF Start, Holding, TypeOK, Task, Row
    <3> QED
      BY <2>0, <3>1, <3>2 DEF Further
  <2>3. CASE Work(w)
    <3>1. PICK u \in Units(t.copy.type) \ t.units, pc \in {"ready", "committed", "finished"} :
            worker' = [worker EXCEPT ![w].units = @ \cup {u}, ![w].pc = pc]
      BY <2>3 DEF Work
    <3>2. worker'[w].units = t.units \cup {u} /\ worker'[w].job = t.job
          /\ worker'[w].retries = t.retries
      BY <2>1, <3>1 DEF TypeOK, Task
    <3> QED
      BY <3>1, <3>2 DEF Further
  <2>4. CASE CheckCancelled(w)
    <3>1. PICK pc \in {"ready", "finished"} :
            worker' = [worker EXCEPT ![w].copy = job[t.job], ![w].pc = pc]
      BY <2>4 DEF CheckCancelled
    <3>2. /\ worker'[w].units = t.units /\ worker'[w].job = t.job
          /\ worker'[w].retries = t.retries /\ worker'[w].pc = pc
      BY <2>1, <3>1 DEF TypeOK, Task
    <3>3. t.pc = "committed" /\ Rank(t.pc) < Rank(worker'[w].pc)
      BY <2>0, <2>4, <3>1, <3>2 DEF CheckCancelled, At
    <3> QED
      BY <3>2, <3>3 DEF Further
  <2>5. CASE CleanUp(w)
    <3>1. /\ worker'[w].units = t.units /\ worker'[w].job = t.job
          /\ worker'[w].retries = t.retries /\ worker'[w].pc = "cleaned"
      BY <2>1, <2>5 DEF CleanUp, TypeOK, Task
    <3> QED
      BY <2>0, <2>5, <3>1 DEF Further, CleanUp, At
  <2>6. CASE Complete(w) \/ Retry(w) \/ Fail(w) \/ Die(w)
    BY <1>1, <2>6 DEF Complete, Retry, Fail, Die, Ended, Idle, TypeOK
  <2>7. CASE Report(w)
    BY <2>7 DEF Report
  <2>8. CASE Skip(w)
    <3>1. PICK u \in Units(t.copy.type) \ t.units, pc \in {"ready", "finished"} :
            worker' = [worker EXCEPT ![w].units = @ \cup {u}, ![w].pc = pc]
      BY <2>8 DEF Skip
    <3>2. /\ worker'[w].units = t.units \cup {u} /\ worker'[w].job = t.job
          /\ worker'[w].retries = t.retries
      BY <2>1, <3>1 DEF TypeOK, Task
    <3> QED
      BY <3>1, <3>2 DEF Further
  <2>9. CASE Refuse(w)
    <3>1. /\ worker'[w].units = t.units /\ worker'[w].job = t.job
          /\ worker'[w].retries = t.retries /\ worker'[w].pc = "finished"
      BY <2>1, <2>9 DEF Refuse, TypeOK, Task
    <3> QED
      BY <2>0, <2>9, <3>1 DEF Further, Refuse, At
  <2> QED
    BY <1>1, <2>1, <2>2, <2>3, <2>4, <2>5, <2>6, <2>7, <2>8, <2>9 DEF Advance
<1>2. ASSUME WellTyped, NEW w \in Workers, Advance(w) \/ Report(w) \/ Die(w)
      PROVE  TasksGoForward
  <2>1. \A v \in Workers : v # w => worker'[v] = worker[v]
    BY <1>2 DEF Advance, Take, Start, Report, Work, Skip, Refuse, CheckCancelled, CleanUp, Complete,
       Retry, Fail, Die, Holding, Ended, TypeOK
  <2>2. ASSUME NEW m \in queue' \ queue
        PROVE  /\ ~Idle(w) /\ Idle(w)'
               /\ m.job = worker[w].job /\ m.retries = worker[w].retries + 1
    BY <1>2, <2>2 DEF Advance, Take, Remaining, Start, Report, Work, Skip, Refuse, CheckCancelled,
       CleanUp, Complete, Retry, Fail, Die, Ended, Idle, TypeOK
  <2> QED
    BY <1>1, <1>2, <2>1, <2>2 DEF TasksGoForward
<1>3. ASSUME WellTyped, NEW j \in Jobs,
             \/ \E type \in Type : Submit(j, type)
             \/ Publish(j) \/ StoreTaskId(j) \/ FetchToCancel(j) \/ Cancel(j)
      PROVE  TasksGoForward
  <2>1. /\ UNCHANGED worker
        /\ \A m \in queue' \ queue : view[m.job].at = "created" /\ m.retries = 0
    BY <1>3 DEF Submit, Publish, StoreTaskId, FetchToCancel, Cancel
  <2> QED
    BY <2>1 DEF TasksGoForward
<1>4. WellTyped /\ [Next]_vars => [TasksGoForward]_vars
  BY <1>2, <1>3 DEF Next
<1>5. JobInvariant => WellTyped
  BY DEF JobInvariant
<1> QED
  BY <1>4, <1>5, JobInvariantHolds, PTL DEF Spec
=============================================================================
