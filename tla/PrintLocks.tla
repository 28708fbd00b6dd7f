----------------------------- MODULE PrintLocks -----------------------------
(***************************************************************************)
(* DesktopWorkflowService.request_print, statement by statement.  The one  *)
(* transaction of a request locks its cards in the order the client sent   *)
(* them (SELECT ... FOR UPDATE) and keeps every lock until it commits; its *)
(* writes are its own until then.  Two requests with opposite orders wait  *)
(* for each other: PostgreSQL detects it and aborts one of them.           *)
(***************************************************************************)
EXTENDS WorkflowRules, Integers, Sequences

CONSTANTS PrintCards,     \* the cards of the organization
          PrintRequests,  \* the requests the stations make
          PrintLists,     \* the lists of card ids a request may send
          PrintArrivals   \* bound: how often a card becomes APPROVED

ASSUME PrintAssumption ==
  /\ PrintLists \subseteq Seq(PrintCards)
  /\ PrintArrivals \in Nat
  /\ None \notin PrintRequests

VARIABLES printStatus,  \* the committed status of each card
          holder,       \* the transaction that holds the row lock of a card
          request,      \* the requests with their transactions
          arrivals,     \* how often a card became APPROVED
          prints        \* the WorkflowHistory rows of print requests, per card

printVars == <<printStatus, holder, request, arrivals, prints>>

\* DESKTOP_ALLOWED_STATUSES.  Mutant: verified cards too.
PrintableVerifiedToo == {"VERIFIED", "APPROVED", "DOWNLOADED"}
PrintableStatuses == {"APPROVED", "DOWNLOADED"}

\* A request: the ids it has yet to look at and the lists of its answer, which
\* name the cards it has written.
PrintRequest == [at : {"new", "open", "done", "failed"}, todo : Seq(PrintCards),
                 transitioned : SUBSET PrintCards, already : SUBSET PrintCards]
NewRequest == [at |-> "new", todo |-> << >>, transitioned |-> {}, already |-> {}]

\* Type correctness of the rows, the locks and the requests.
PrintTypeOK ==
  /\ printStatus \in [PrintCards -> Status]
  /\ holder \in [PrintCards -> PrintRequests \cup {None}]
  /\ request \in [PrintRequests -> PrintRequest]
  /\ arrivals \in [PrintCards -> 0..PrintArrivals]
  /\ prints \in [PrintCards -> Nat]

PrintInit ==
  /\ printStatus = [c \in PrintCards |-> "VERIFIED"]
  /\ holder = [c \in PrintCards |-> None]
  /\ request = [r \in PrintRequests |-> NewRequest]
  /\ arrivals = [c \in PrintCards |-> 0]
  /\ prints = [c \in PrintCards |-> 0]
-----------------------------------------------------------------------------
Open(r) == request[r].at = "open"
Asked(r) == Head(request[r].todo)
Looking(r) == Open(r) /\ request[r].todo # << >>

\* POST /desktop/print/: the transaction begins.
OpenPrint(r, ids) ==
  /\ request[r].at = "new"
  /\ request' = [request EXCEPT ![r].at = "open", ![r].todo = ids]
  /\ UNCHANGED <<printStatus, holder, arrivals, prints>>

\* The status the transaction sees: what it wrote, or what is committed.
Seen(r, c) == IF c \in request[r].transitioned THEN "DOWNLOADED" ELSE printStatus[c]

\* The row lock is free, or its own.  Mutant: a SELECT without FOR UPDATE.
GrantedAlways(r, c) == TRUE
Granted(r, c) == holder[c] \in {None, r}

\* No row: the card is skipped, without a wait.
SkipCard(r) ==
  /\ Looking(r)
  /\ Seen(r, Asked(r)) \notin PrintableStatuses
  /\ request' = [request EXCEPT ![r].todo = Tail(@)]
  /\ UNCHANGED <<printStatus, holder, arrivals, prints>>

\* The row is locked and, if it is APPROVED, written.  A statement that had to
\* wait looks at the row again.
LockCard(r) ==
  LET c == Asked(r)
  IN /\ Looking(r)
     /\ Seen(r, c) \in PrintableStatuses /\ Granted(r, c)
     /\ holder' = [holder EXCEPT ![c] = r]
     /\ request' = IF Seen(r, c) = "DOWNLOADED"
          THEN [request EXCEPT ![r].todo = Tail(@), ![r].already = @ \cup {c}]
          ELSE [request EXCEPT ![r].todo = Tail(@), ![r].transitioned = @ \cup {c}]
     /\ UNCHANGED <<printStatus, arrivals, prints>>

\* The end of a transaction frees its locks.  Mutant: those of written rows only.
FreedWritten(r) ==
  [c \in PrintCards |-> IF c \in request[r].transitioned THEN None ELSE holder[c]]
Freed(r) == [c \in PrintCards |-> IF holder[c] = r THEN None ELSE holder[c]]

CommitPrint(r) ==
  LET T == request[r].transitioned
  IN /\ Open(r) /\ request[r].todo = << >>
     /\ printStatus' = [c \in PrintCards |->
                          IF c \in T THEN "DOWNLOADED" ELSE printStatus[c]]
     /\ prints' = [c \in PrintCards |-> IF c \in T THEN prints[c] + 1 ELSE prints[c]]
     /\ holder' = Freed(r)
     /\ request' = [request EXCEPT ![r].at = "done"]
     /\ UNCHANGED arrivals

RollBack(r) ==
  /\ holder' = Freed(r)
  /\ request' = [request EXCEPT ![r] = [NewRequest EXCEPT !.at = "failed"]]
  /\ UNCHANGED <<printStatus, arrivals, prints>>

\* An error, or the death of the server process or its connection.
FailPrint(r) == Open(r) /\ RollBack(r)

\* A request waits for the transaction that holds the row it asks for.
Waits(r) == Looking(r) /\ Seen(r, Asked(r)) \in PrintableStatuses /\ ~Granted(r, Asked(r))
WaitsFor(r) == holder[Asked(r)]

\* Requests that wait for one another in circles.
Deadlocked(S) == (\A r \in S : Waits(r)) /\ S = {WaitsFor(r) : r \in S}

\* deadlock_timeout: one of the circle is aborted.
BreakDeadlock ==
  \E S \in SUBSET PrintRequests :
    Deadlocked(S) /\ \E r \in S : RollBack(r)

\* Another request moves the card, in a transaction of its own: its UPDATE
\* waits for the row lock.
MovePrintable(c, t) ==
  /\ holder[c] = None
  /\ \/ \E a \in Action : Target(printStatus[c], a) = t
     \/ printStatus[c] = "DELETED" /\ t \in Live
  /\ t = "APPROVED" => arrivals[c] < PrintArrivals
  /\ printStatus' = [printStatus EXCEPT ![c] = t]
  /\ arrivals' = IF t = "APPROVED" THEN [arrivals EXCEPT ![c] = @ + 1] ELSE arrivals
  /\ UNCHANGED <<holder, request, prints>>

AdvancePrint(r) == SkipCard(r) \/ LockCard(r) \/ CommitPrint(r)

PrintNext ==
  \/ \E r \in PrintRequests :
       \/ \E ids \in PrintLists : OpenPrint(r, ids)
       \/ AdvancePrint(r) \/ FailPrint(r)
  \/ BreakDeadlock
  \/ \E c \in PrintCards, t \in Status : MovePrintable(c, t)

\* The server runs its requests, and the database its deadlock detector.
PrintFairness ==
  /\ \A r \in PrintRequests : WF_printVars(AdvancePrint(r))
  /\ WF_printVars(BreakDeadlock)

PrintSpec == PrintInit /\ [][PrintNext]_printVars /\ PrintFairness
-----------------------------------------------------------------------------
(* Properties *)

\* A request keeps the lock of every card it will answer for: until it commits,
\* nobody else prints or moves them.
LocksHeld ==
  \A r \in PrintRequests : Open(r) =>
    \A c \in request[r].transitioned \cup request[r].already : holder[c] = r

\* A card is printed at most once for each time it becomes APPROVED, however
\* many stations ask for it at once, in whatever order, and whoever is aborted.
PrintedOnce == \A c \in PrintCards : prints[c] <= arrivals[c]

\* A print request is atomic: the locks, the order of the cards and the aborted
\* transactions leave no trace.
Prints == INSTANCE AtomicPrints
  WITH status <- printStatus,
       answer <- [r \in PrintRequests |->
                    IF request[r].at = "done"
                    THEN [transitioned |-> request[r].transitioned,
                          already |-> request[r].already, done |-> TRUE]
                    ELSE [transitioned |-> {}, already |-> {}, done |-> FALSE]]
ImplementsAtomicPrints == Prints!P_Spec

\* Every request is answered or aborted: no two wait for each other forever.
PrintsEnd == \A r \in PrintRequests : Open(r) ~> ~Open(r)
=============================================================================
