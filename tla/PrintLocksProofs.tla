-------------------------- MODULE PrintLocksProofs --------------------------
(***************************************************************************)
(* Proofs about PrintLocks, for any cards, requests, lists of cards and    *)
(* number of approvals: a card is printed once per approval, the requests  *)
(* never stand still unless they wait for one another in a circle, and the *)
(* transaction with its locks implements the atomic print request.         *)
(***************************************************************************)
EXTENDS PrintLocks, FiniteSetTheorems, TLAPS

(***************************************************************************)
(* The rows.                                                               *)
(***************************************************************************)

LEMMA TargetStatus ==
  ASSUME NEW s, NEW a
  PROVE  /\ Target(s, a) = "APPROVED" => s = "VERIFIED"
         /\ Target(s, a) \in Status \cup {None}
BY DEF Target, Status, Live, None

\* A request that locks no more than its record's fields stays a request.
LEMMA RequestParts ==
  ASSUME PrintTypeOK, NEW r \in PrintRequests
  PROVE  /\ request[r] \in PrintRequest
         /\ request[r].todo \in Seq(PrintCards)
         /\ request[r].transitioned \in SUBSET PrintCards
         /\ request[r].already \in SUBSET PrintCards
         /\ request[r].todo # << >> =>
              Head(request[r].todo) \in PrintCards /\ Tail(request[r].todo) \in Seq(PrintCards)
<1>1. request[r] \in PrintRequest
  BY DEF PrintTypeOK
<1>2. QED
  BY <1>1 DEF PrintRequest

LEMMA PrintInitType == PrintInit => PrintTypeOK
BY PrintAssumption DEF PrintInit, PrintTypeOK, PrintRequest, NewRequest, Status, Live

LEMMA FreedType ==
  ASSUME PrintTypeOK, NEW r \in PrintRequests
  PROVE  Freed(r) \in [PrintCards -> PrintRequests \cup {None}]
BY DEF PrintTypeOK, Freed

LEMMA RollBackType ==
  ASSUME PrintTypeOK, NEW r \in PrintRequests, RollBack(r)
  PROVE  PrintTypeOK'
<1>1. [NewRequest EXCEPT !.at = "failed"] \in PrintRequest
  <2>1. NewRequest \in PrintRequest
    BY DEF NewRequest, PrintRequest
  <2>2. \A q \in PrintRequest : [q EXCEPT !.at = "failed"] \in PrintRequest
    BY DEF PrintRequest
  <2>3. QED
    BY <2>1, <2>2
<1>2. request' \in [PrintRequests -> PrintRequest]
  BY <1>1 DEF PrintTypeOK, RollBack
<1>3. QED
  BY <1>2, FreedType DEF PrintTypeOK, RollBack

LEMMA PrintTypeStep == PrintTypeOK /\ [PrintNext]_printVars => PrintTypeOK'
<1> SUFFICES ASSUME PrintTypeOK, [PrintNext]_printVars PROVE PrintTypeOK'
  OBVIOUS
<1>1. ASSUME NEW r \in PrintRequests, NEW ids \in PrintLists, OpenPrint(r, ids)
      PROVE  PrintTypeOK'
  <2>1. ids \in Seq(PrintCards)
    BY PrintAssumption
  <2>2. [request[r] EXCEPT !.at = "open", !.todo = ids] \in PrintRequest
    BY <2>1, RequestParts DEF PrintRequest
  <2>3. request' = [request EXCEPT ![r] = [request[r] EXCEPT !.at = "open", !.todo = ids]]
    BY <1>1 DEF OpenPrint, PrintTypeOK
  <2>4. request' \in [PrintRequests -> PrintRequest]
    BY <2>2, <2>3 DEF PrintTypeOK
  <2>5. QED
    BY <1>1, <2>4 DEF OpenPrint, PrintTypeOK
<1>2. ASSUME NEW r \in PrintRequests, SkipCard(r) PROVE PrintTypeOK'
  <2>1. Tail(request[r].todo) \in Seq(PrintCards)
    BY <1>2, RequestParts DEF SkipCard, Looking
  <2>2. [request[r] EXCEPT !.todo = Tail(@)] \in PrintRequest
    BY <2>1, RequestParts DEF PrintRequest
  <2>3. request' \in [PrintRequests -> PrintRequest]
    BY <1>2, <2>2 DEF SkipCard, PrintTypeOK
  <2>4. QED
    BY <1>2, <2>3 DEF SkipCard, PrintTypeOK
<1>3. ASSUME NEW r \in PrintRequests, LockCard(r) PROVE PrintTypeOK'
  <2> DEFINE c == Asked(r)
  <2>1. c \in PrintCards /\ Tail(request[r].todo) \in Seq(PrintCards)
    BY <1>3, RequestParts DEF LockCard, Looking, Asked
  <2>2. /\ [request[r] EXCEPT !.todo = Tail(@), !.already = @ \cup {c}] \in PrintRequest
        /\ [request[r] EXCEPT !.todo = Tail(@), !.transitioned = @ \cup {c}] \in PrintRequest
    <3> HIDE DEF c
    <3> QED BY <2>1, RequestParts DEF PrintRequest
  <2>3. request' \in [PrintRequests -> PrintRequest]
    BY <1>3, <2>2 DEF LockCard, PrintTypeOK
  <2>4. holder' \in [PrintCards -> PrintRequests \cup {None}]
    BY <1>3, <2>1 DEF LockCard, PrintTypeOK
  <2>5. QED
    BY <1>3, <2>3, <2>4 DEF LockCard, PrintTypeOK
<1>4. ASSUME NEW r \in PrintRequests, CommitPrint(r) PROVE PrintTypeOK'
  <2>1. [request[r] EXCEPT !.at = "done"] \in PrintRequest
    BY RequestParts DEF PrintRequest
  <2>2. request' \in [PrintRequests -> PrintRequest]
    BY <1>4, <2>1 DEF CommitPrint, PrintTypeOK
  <2>3. printStatus' \in [PrintCards -> Status] /\ prints' \in [PrintCards -> Nat]
    BY <1>4 DEF CommitPrint, PrintTypeOK, Status, Live
  <2>4. QED
    BY <1>4, <2>2, <2>3, FreedType DEF CommitPrint, PrintTypeOK
<1>5. ASSUME NEW r \in PrintRequests, FailPrint(r) PROVE PrintTypeOK'
  BY <1>5, RollBackType DEF FailPrint
<1>6. CASE BreakDeadlock
  BY <1>6, RollBackType DEF BreakDeadlock
<1>7. ASSUME NEW c \in PrintCards, NEW t \in Status, MovePrintable(c, t)
      PROVE  PrintTypeOK'
  <2>1. arrivals' \in [PrintCards -> 0..PrintArrivals]
    BY <1>7, PrintAssumption DEF MovePrintable, PrintTypeOK
  <2>2. QED
    BY <1>7, <2>1 DEF MovePrintable, PrintTypeOK
<1>8. CASE UNCHANGED printVars
  BY <1>8 DEF printVars, PrintTypeOK
<1>9. QED
  BY <1>1, <1>2, <1>3, <1>4, <1>5, <1>6, <1>7, <1>8 DEF PrintNext, AdvancePrint

\* The rows, the locks and the requests keep their types.
THEOREM PrintTypeCorrect == PrintSpec => []PrintTypeOK
BY PrintInitType, PrintTypeStep, PTL DEF PrintSpec

(***************************************************************************)
(* The locks keep what a transaction has seen true until it commits.       *)
(***************************************************************************)

\* The cards a transaction has written are still APPROVED for all others, and
\* those it found printed are so still.
AnswersHold ==
  \A r \in PrintRequests : Open(r) =>
    /\ \A c \in request[r].transitioned : printStatus[c] = "APPROVED"
    /\ \A c \in request[r].already :
         printStatus[c] = "DOWNLOADED" \/ c \in request[r].transitioned

\* A request that has not begun has no answer.
NewHasNone ==
  \A r \in PrintRequests : request[r].at = "new" =>
    request[r].transitioned = {} /\ request[r].already = {}

\* A card that is APPROVED has an arrival no print was made for yet.
ArrivalsLeft ==
  \A c \in PrintCards :
    /\ prints[c] <= arrivals[c]
    /\ printStatus[c] = "APPROVED" => prints[c] < arrivals[c]

LockInv == PrintTypeOK /\ LocksHeld /\ AnswersHold /\ NewHasNone /\ ArrivalsLeft

LEMMA LockInvInit == PrintInit => LockInv
BY PrintInitType
   DEF PrintInit, LockInv, LocksHeld, AnswersHold, NewHasNone, ArrivalsLeft, Open, NewRequest

LEMMA RollBackInv ==
  ASSUME LockInv, NEW r \in PrintRequests, RollBack(r)
  PROVE  LockInv'
<1>1. PrintTypeOK /\ PrintTypeOK'
  BY RollBackType DEF LockInv
<1>2. /\ request'[r].at = "failed"
      /\ \A q \in PrintRequests : q # r => request'[q] = request[q]
  BY <1>1 DEF RollBack, NewRequest, PrintTypeOK
<1>3. \A q \in PrintRequests, c \in PrintCards :
        q # r /\ holder[c] = q => holder'[c] = q
  BY DEF RollBack, Freed
<1>4. LocksHeld'
  BY <1>1, <1>2, <1>3, RequestParts DEF LockInv, LocksHeld, Open
<1>5. AnswersHold' /\ NewHasNone' /\ ArrivalsLeft'
  BY <1>2 DEF RollBack, LockInv, AnswersHold, NewHasNone, ArrivalsLeft, Open
<1>6. QED
  BY <1>1, <1>4, <1>5 DEF LockInv

\* A step of one request leaves the others as they are.
Others(r) == \A q \in PrintRequests : q # r => request'[q] = request[q]

LEMMA OpenLeaves ==
  ASSUME PrintTypeOK, NEW r \in PrintRequests, NEW ids \in PrintLists, OpenPrint(r, ids)
  PROVE  /\ Others(r) /\ request[r].at = "new" /\ request'[r].at = "open"
         /\ request'[r].transitioned = request[r].transitioned
         /\ request'[r].already = request[r].already
<1>1. request' = [request EXCEPT ![r] = [@ EXCEPT !.at = "open", !.todo = ids]]
  BY DEF OpenPrint
<1>2. request'[r] = [request[r] EXCEPT !.at = "open", !.todo = ids] /\ Others(r)
  BY <1>1 DEF PrintTypeOK, Others
<1>3. QED
  BY <1>2 DEF OpenPrint, PrintTypeOK, PrintRequest

LEMMA LockCardInv ==
  ASSUME LockInv, NEW r \in PrintRequests, LockCard(r)
  PROVE  LocksHeld' /\ AnswersHold' /\ NewHasNone' /\ ArrivalsLeft'
<1> DEFINE c == Asked(r)
<1>0. PrintTypeOK
  BY DEF LockInv
<1>1. c \in PrintCards /\ request[r].at = "open" /\ Granted(r, c)
  BY <1>0, RequestParts DEF LockCard, Looking, Asked, Open
<1>2. Others(r) /\ request'[r].at = "open"
  BY <1>0, <1>1 DEF LockCard, Others, PrintTypeOK
<1>3. /\ \/ /\ Seen(r, c) = "DOWNLOADED"
            /\ request'[r].transitioned = request[r].transitioned
            /\ request'[r].already = request[r].already \cup {c}
         \/ /\ Seen(r, c) = "APPROVED"
            /\ request'[r].transitioned = request[r].transitioned \cup {c}
            /\ request'[r].already = request[r].already
  BY <1>0 DEF LockCard, PrintTypeOK, PrintRequest, PrintableStatuses
<1>4. holder' = [holder EXCEPT ![c] = r] /\ UNCHANGED <<printStatus, arrivals, prints>>
  BY DEF LockCard
<1>5. holder'[c] = r /\ \A d \in PrintCards : d # c => holder'[d] = holder[d]
  BY <1>0, <1>1, <1>4 DEF PrintTypeOK
<1>6. LocksHeld'
  <2> SUFFICES ASSUME NEW q \in PrintRequests, Open(q)',
                      NEW d \in (request[q].transitioned \cup request[q].already)'
               PROVE  holder'[d] = q
    BY DEF LocksHeld
  <2>1. CASE q = r
    <3>1. d = c \/ d \in request[r].transitioned \cup request[r].already
      BY <1>3, <2>1
    <3>2. d \in PrintCards
      BY <1>0, <1>1, <3>1, RequestParts
    <3>3. QED
      BY <1>1, <1>5, <2>1, <3>1, <3>2 DEF LockInv, LocksHeld, Open
  <2>2. CASE q # r
    <3>1. Open(q) /\ d \in request[q].transitioned \cup request[q].already
      BY <1>2, <2>2 DEF Others, Open
    <3>2. d \in PrintCards /\ holder[d] = q
      BY <1>0, <3>1, RequestParts DEF LockInv, LocksHeld
    <3>3. d # c
      BY <1>1, <2>2, <3>2, PrintAssumption DEF Granted
    <3>4. QED
      BY <1>5, <3>2, <3>3
  <2>3. QED
    BY <2>1, <2>2
<1>7. AnswersHold'
  <2>1. Seen(r, c) = "APPROVED" => printStatus[c] = "APPROVED"
    BY DEF Seen
  <2>2. Seen(r, c) = "DOWNLOADED" =>
          printStatus[c] = "DOWNLOADED" \/ c \in request[r].transitioned
    BY DEF Seen
  <2> HIDE DEF c
  <2>3. QED
    BY <1>1, <1>2, <1>3, <1>4, <2>1, <2>2 DEF LockInv, AnswersHold, Others, Open
<1>8. NewHasNone' /\ ArrivalsLeft'
  BY <1>2, <1>4 DEF LockInv, NewHasNone, ArrivalsLeft, Others
<1>9. QED
  BY <1>6, <1>7, <1>8

LEMMA CommitInv ==
  ASSUME LockInv, NEW r \in PrintRequests, CommitPrint(r)
  PROVE  LocksHeld' /\ AnswersHold' /\ NewHasNone' /\ ArrivalsLeft'
<1> DEFINE T == request[r].transitioned
<1>0. PrintTypeOK
  BY DEF LockInv
<1>1. Others(r) /\ request'[r].at = "done" /\ Open(r)
  BY <1>0 DEF CommitPrint, Others, PrintTypeOK
<1>2. T \subseteq PrintCards /\ \A c \in T : printStatus[c] = "APPROVED" /\ holder[c] = r
  BY <1>0, <1>1, RequestParts DEF LockInv, AnswersHold, LocksHeld
<1>3. \A q \in PrintRequests, c \in PrintCards :
        q # r /\ holder[c] = q => holder'[c] = q /\ printStatus'[c] = printStatus[c]
  BY <1>2 DEF CommitPrint, Freed
<1>4. LocksHeld' /\ AnswersHold'
  BY <1>0, <1>1, <1>3, RequestParts DEF LockInv, LocksHeld, AnswersHold, Others, Open
<1>5. NewHasNone'
  BY <1>1 DEF LockInv, NewHasNone, Others
<1>6. ArrivalsLeft'
  <2> SUFFICES ASSUME NEW c \in PrintCards
               PROVE  /\ prints'[c] <= arrivals'[c]
                      /\ printStatus'[c] = "APPROVED" => prints'[c] < arrivals'[c]
    BY DEF ArrivalsLeft
  <2>1. arrivals' = arrivals /\ prints[c] \in Nat /\ arrivals[c] \in Int
    BY <1>0, PrintAssumption DEF CommitPrint, PrintTypeOK
  <2>2. CASE c \in T
    <3>1. prints'[c] = prints[c] + 1 /\ printStatus'[c] = "DOWNLOADED"
      BY <2>2 DEF CommitPrint
    <3>2. prints[c] < arrivals[c]
      BY <1>2, <2>2 DEF LockInv, ArrivalsLeft
    <3>3. QED
      BY <2>1, <3>1, <3>2
  <2>3. CASE c \notin T
    BY <2>1, <2>3 DEF CommitPrint, LockInv, ArrivalsLeft
  <2>4. QED
    BY <2>2, <2>3
<1>7. QED
  BY <1>4, <1>5, <1>6

LEMMA MoveInv ==
  ASSUME LockInv, NEW c \in PrintCards, NEW t \in Status, MovePrintable(c, t)
  PROVE  LocksHeld' /\ AnswersHold' /\ NewHasNone' /\ ArrivalsLeft'
<1>0. PrintTypeOK
  BY DEF LockInv
<1>1. holder[c] = None /\ UNCHANGED <<holder, request, prints>>
  BY DEF MovePrintable
<1>2. \A d \in PrintCards : d # c =>
        printStatus'[d] = printStatus[d] /\ arrivals'[d] = arrivals[d]
  BY <1>0 DEF MovePrintable, PrintTypeOK
<1>3. LocksHeld' /\ NewHasNone'
  BY <1>1 DEF LockInv, LocksHeld, NewHasNone, Open
<1>4. AnswersHold'
  <2>1. \A r \in PrintRequests : Open(r) =>
          c \notin request[r].transitioned \cup request[r].already
    BY <1>1, PrintAssumption DEF LockInv, LocksHeld
  <2>2. QED
    BY <1>0, <1>1, <1>2, <2>1, RequestParts DEF LockInv, AnswersHold, Open
<1>5. ArrivalsLeft'
  <2>1. /\ printStatus'[c] = t
        /\ arrivals'[c] = IF t = "APPROVED" THEN arrivals[c] + 1 ELSE arrivals[c]
        /\ prints[c] \in Nat /\ arrivals[c] \in Int
    BY <1>0, PrintAssumption DEF MovePrintable, PrintTypeOK
  <2>2. prints'[c] <= arrivals'[c] /\ (t = "APPROVED" => prints'[c] < arrivals'[c])
    BY <1>1, <2>1 DEF LockInv, ArrivalsLeft
  <2>3. QED
    BY <1>1, <1>2, <2>1, <2>2 DEF LockInv, ArrivalsLeft
<1>6. QED
  BY <1>3, <1>4, <1>5

LEMMA LockInvStep == LockInv /\ [PrintNext]_printVars => LockInv'
<1> SUFFICES ASSUME LockInv, [PrintNext]_printVars PROVE LockInv'
  OBVIOUS
<1>0. PrintTypeOK /\ PrintTypeOK'
  BY PrintTypeStep DEF LockInv
<1>1. ASSUME NEW r \in PrintRequests,
             \/ \E ids \in PrintLists : OpenPrint(r, ids)
             \/ SkipCard(r)
      PROVE  LockInv'
  <2>1. UNCHANGED <<printStatus, holder, arrivals, prints>>
    BY <1>1 DEF OpenPrint, SkipCard
  <2>2. /\ Others(r) /\ request'[r].at # "new"
        /\ request'[r].transitioned = request[r].transitioned
        /\ request'[r].already = request[r].already
    <3>1. CASE \E ids \in PrintLists : OpenPrint(r, ids)
      BY <1>0, <3>1, OpenLeaves
    <3>2. CASE SkipCard(r)
      <4>1. request'[r] = [request[r] EXCEPT !.todo = Tail(@)] /\ Others(r)
        BY <1>0, <3>2 DEF SkipCard, PrintTypeOK, Others
      <4>2. QED
        BY <1>0, <3>2, <4>1 DEF SkipCard, Looking, Open, PrintTypeOK, PrintRequest
    <3>3. QED
      BY <1>1, <3>1, <3>2
  <2>3. request[r].at = "open" \/ request[r].transitioned \cup request[r].already = {}
    BY <1>1 DEF OpenPrint, SkipCard, Looking, Open, LockInv, NewHasNone
  <2>4. LocksHeld' /\ AnswersHold' /\ NewHasNone' /\ ArrivalsLeft'
    BY <2>1, <2>2, <2>3
       DEF LockInv, LocksHeld, AnswersHold, NewHasNone, ArrivalsLeft, Others, Open
  <2>5. QED
    BY <1>0, <2>4 DEF LockInv
<1>2. ASSUME NEW r \in PrintRequests, LockCard(r) PROVE LockInv'
  BY <1>0, <1>2, LockCardInv DEF LockInv
<1>3. ASSUME NEW r \in PrintRequests, CommitPrint(r) PROVE LockInv'
  BY <1>0, <1>3, CommitInv DEF LockInv
<1>4. ASSUME NEW r \in PrintRequests, FailPrint(r) PROVE LockInv'
  BY <1>4, RollBackInv DEF FailPrint
<1>5. CASE BreakDeadlock
  BY <1>5, RollBackInv DEF BreakDeadlock
<1>6. ASSUME NEW c \in PrintCards, NEW t \in Status, MovePrintable(c, t) PROVE LockInv'
  BY <1>0, <1>6, MoveInv DEF LockInv
<1>7. CASE UNCHANGED printVars
  BY <1>0, <1>7
     DEF printVars, LockInv, LocksHeld, AnswersHold, NewHasNone, ArrivalsLeft, Open
<1>8. QED
  BY <1>1, <1>2, <1>3, <1>4, <1>5, <1>6, <1>7 DEF PrintNext, AdvancePrint

LEMMA LockInvAlways == PrintSpec => []LockInv
BY LockInvInit, LockInvStep, PTL DEF PrintSpec

\* An open request holds the lock of every card it will answer for.
THEOREM LocksHeldAlways == PrintSpec => []LocksHeld
<1>1. LockInv => LocksHeld
  BY DEF LockInv
<1>2. QED
  BY <1>1, LockInvAlways, PTL

\* No card is printed more often than it became APPROVED.
THEOREM PrintedOnceAlways == PrintSpec => []PrintedOnce
<1>1. LockInv => PrintedOnce
  BY DEF LockInv, ArrivalsLeft, PrintedOnce
<1>2. QED
  BY <1>1, LockInvAlways, PTL

(***************************************************************************)
(* Waiting.  Only open transactions hold locks, so who waits is waited for *)
(* by nobody who has ended, and what fairness cannot give is only this: a  *)
(* circle of waiters, which the deadlock detector is there for.            *)
(***************************************************************************)

HoldersOpen == \A c \in PrintCards : holder[c] # None => Open(holder[c])

WaitInv == LockInv /\ HoldersOpen

LEMMA HoldersOpenStep == WaitInv /\ [PrintNext]_printVars => HoldersOpen'
<1> SUFFICES ASSUME WaitInv, [PrintNext]_printVars PROVE HoldersOpen'
  OBVIOUS
<1>0. PrintTypeOK /\ LockInv /\ HoldersOpen
  BY DEF WaitInv, LockInv
<1>1. \A c \in PrintCards : holder[c] # None =>
        holder[c] \in PrintRequests /\ request[holder[c]].at = "open"
  BY <1>0 DEF HoldersOpen, Open, PrintTypeOK
<1>2. ASSUME NEW r \in PrintRequests,
             (\E ids \in PrintLists : OpenPrint(r, ids)) \/ SkipCard(r)
      PROVE  HoldersOpen'
  <2>1. Others(r) /\ request'[r].at = "open"
    <3>1. CASE \E ids \in PrintLists : OpenPrint(r, ids)
      BY <1>0, <3>1, OpenLeaves
    <3>2. CASE SkipCard(r)
      BY <1>0, <3>2 DEF SkipCard, Looking, Open, Others, PrintTypeOK, PrintRequest
    <3>3. QED
      BY <1>2, <3>1, <3>2
  <2>2. holder' = holder
    BY <1>2 DEF OpenPrint, SkipCard
  <2>3. QED
    BY <1>1, <2>1, <2>2 DEF HoldersOpen, Open, Others
<1>3. ASSUME NEW r \in PrintRequests, LockCard(r) PROVE HoldersOpen'
  <2>1. Others(r) /\ request'[r].at = "open"
    BY <1>0, <1>3 DEF LockCard, Looking, Open, Others, PrintTypeOK, PrintRequest
  <2>2. \A c \in PrintCards : holder'[c] \in {holder[c], r}
    BY <1>0, <1>3 DEF LockCard, PrintTypeOK
  <2>3. QED
    BY <1>1, <2>1, <2>2 DEF HoldersOpen, Open, Others
<1>4. ASSUME NEW r \in PrintRequests, CommitPrint(r) \/ RollBack(r) PROVE HoldersOpen'
  <2>1. Others(r)
    BY <1>0, <1>4 DEF CommitPrint, RollBack, Others, PrintTypeOK
  <2>2. \A c \in PrintCards : holder'[c] = None \/ (holder'[c] = holder[c] /\ holder[c] # r)
    BY <1>4 DEF CommitPrint, RollBack, Freed
  <2>3. QED
    BY <1>1, <2>1, <2>2 DEF HoldersOpen, Open, Others
<1>5. ASSUME NEW r \in PrintRequests, FailPrint(r) PROVE HoldersOpen'
  BY <1>4, <1>5 DEF FailPrint
<1>6. CASE BreakDeadlock
  BY <1>4, <1>6 DEF BreakDeadlock
<1>7. ASSUME NEW c \in PrintCards, NEW t \in Status, MovePrintable(c, t)
      PROVE  HoldersOpen'
  BY <1>0, <1>7 DEF MovePrintable, HoldersOpen, Open
<1>8. CASE UNCHANGED printVars
  BY <1>0, <1>8 DEF printVars, HoldersOpen, Open
<1>9. QED
  BY <1>2, <1>3, <1>4, <1>5, <1>6, <1>7, <1>8 DEF PrintNext, AdvancePrint

LEMMA WaitInvAlways == PrintSpec => []WaitInv
<1>1. PrintInit => WaitInv
  BY LockInvInit DEF PrintInit, WaitInv, HoldersOpen
<1>2. WaitInv /\ [PrintNext]_printVars => WaitInv'
  BY LockInvStep, HoldersOpenStep DEF WaitInv
<1>3. QED
  BY <1>1, <1>2, PTL DEF PrintSpec

\* Who waits, waits for another request, one that is still at work.
LEMMA WaitedForIsOpen ==
  ASSUME WaitInv, NEW r \in PrintRequests, Waits(r)
  PROVE  /\ Asked(r) \in PrintCards /\ WaitsFor(r) = holder[Asked(r)]
         /\ WaitsFor(r) \in PrintRequests /\ WaitsFor(r) # r /\ Open(WaitsFor(r))
<1>1. PrintTypeOK
  BY DEF WaitInv, LockInv
<1>2. Asked(r) \in PrintCards
  BY <1>1, RequestParts DEF Waits, Looking, Asked
<1>3. holder[Asked(r)] \in PrintRequests /\ holder[Asked(r)] # r
  BY <1>1, <1>2 DEF Waits, Granted, PrintTypeOK
<1>4. QED
  BY <1>2, <1>3, PrintAssumption DEF WaitInv, HoldersOpen, WaitsFor

\* A map of a finite set into itself has a circle: a smallest set that it does
\* not leave.
LEMMA SomeCircle ==
  ASSUME NEW W, W # {}, IsFiniteSet(W), NEW f \in [W -> W]
  PROVE  \E S \in SUBSET W : S # {} /\ S = {f[r] : r \in S}
<1> DEFINE Closed == {S \in SUBSET W : S # {} /\ \A r \in S : f[r] \in S}
           Less == StrictSubsetOrdering(W)
<1>1. Closed \subseteq FiniteSubsetsOf(W)
  BY FS_Subset DEF FiniteSubsetsOf
<1>2. W \in Closed
  OBVIOUS
<1>3. IsWellFoundedOn(Less, FiniteSubsetsOf(W))
  BY FS_StrictSubsetOrderingWellFounded
<1>4. \E S \in Closed : \A T \in Closed : ~(<<T, S>> \in Less)
  <2> HIDE DEF Closed, Less
  <2> QED BY <1>1, <1>2, <1>3, WFMin
<1>5. PICK S \in Closed : \A T \in Closed : ~(<<T, S>> \in Less)
  BY <1>4
<1> DEFINE T == {f[r] : r \in S}
<1>6. T \in Closed /\ T \subseteq S
  OBVIOUS
<1>7. T = S
  BY <1>5, <1>6 DEF StrictSubsetOrdering
<1>8. QED
  BY <1>5, <1>7

\* Everybody waits only where a circle does.
CircleOrAdvance ==
  (\E r \in PrintRequests : Open(r)) =>
    \/ \E r \in PrintRequests : Open(r) /\ ~Waits(r)
    \/ \E S \in SUBSET PrintRequests : S # {} /\ Deadlocked(S)

\* However many requests there are and whatever they lock: while one of them is
\* open, one can go on or PostgreSQL has a circle of them to break, so no request
\* waits for anything but the work of another.
THEOREM NoStall ==
  ASSUME IsFiniteSet(PrintRequests)
  PROVE  PrintSpec => []CircleOrAdvance
<1>1. ASSUME WaitInv PROVE CircleOrAdvance
  <2> DEFINE W == {r \in PrintRequests : Open(r)}
             f == [r \in W |-> WaitsFor(r)]
  <2> SUFFICES ASSUME W # {}, \A r \in W : Waits(r)
               PROVE  \E S \in SUBSET PrintRequests : S # {} /\ Deadlocked(S)
    BY DEF CircleOrAdvance
  <2>1. IsFiniteSet(W)
    BY FS_Subset
  <2>2. f \in [W -> W]
    BY <1>1, WaitedForIsOpen
  <2>3. PICK S \in SUBSET W : S # {} /\ S = {f[r] : r \in S}
    <3> HIDE DEF W, f
    <3> QED BY <2>1, <2>2, SomeCircle
  <2>4. Deadlocked(S)
    BY <2>3 DEF Deadlocked
  <2>5. QED
    BY <2>3, <2>4
<1>2. WaitInv => CircleOrAdvance
  BY <1>1
<1>3. QED
  BY <1>2, WaitInvAlways, PTL

\* Requests that wait for one another in a circle.
CirclesHold ==
  \A S \in SUBSET PrintRequests :
    S # {} /\ Deadlocked(S) => Deadlocked(S)' \/ \E r \in S : request'[r].at = "failed"

LEMMA CirclesHoldStep == WaitInv /\ [PrintNext]_printVars => CirclesHold
<1> SUFFICES ASSUME WaitInv, [PrintNext]_printVars, NEW S \in SUBSET PrintRequests,
                    Deadlocked(S), \A r \in S : request'[r].at # "failed"
             PROVE  Deadlocked(S)'
  BY DEF CirclesHold
<1>0. PrintTypeOK /\ LockInv
  BY DEF WaitInv, LockInv
<1>1. ASSUME NEW r \in S
      PROVE  /\ Waits(r) /\ WaitsFor(r) \in S
             /\ Asked(r) \in PrintCards /\ holder[Asked(r)] \in S
  BY WaitedForIsOpen DEF Deadlocked
<1> DEFINE Kept == /\ \A r \in S : request'[r] = request[r]
                   /\ \A c \in PrintCards : holder[c] \in S =>
                        holder'[c] = holder[c] /\ printStatus'[c] = printStatus[c]
<1>2. ASSUME NEW r \in PrintRequests,
             (\E ids \in PrintLists : OpenPrint(r, ids)) \/ SkipCard(r)
      PROVE  Kept
  <2>1. UNCHANGED <<holder, printStatus>>
    BY <1>2 DEF OpenPrint, SkipCard
  <2>2. Others(r)
    <3>1. CASE \E ids \in PrintLists : OpenPrint(r, ids)
      BY <1>0, <3>1, OpenLeaves
    <3>2. CASE SkipCard(r)
      BY <1>0, <3>2 DEF SkipCard, Others, PrintTypeOK
    <3>3. QED
      BY <1>2, <3>1, <3>2
  <2>3. r \notin S
    BY <1>1, <1>2 DEF OpenPrint, SkipCard, Waits, Looking, Open
  <2>4. QED
    BY <2>1, <2>2, <2>3 DEF Others
<1>3. ASSUME NEW r \in PrintRequests, LockCard(r) PROVE Kept
  <2>1. Others(r) /\ printStatus' = printStatus
    BY <1>0, <1>3 DEF LockCard, Others, PrintTypeOK
  <2>2. r \notin S
    BY <1>1, <1>3 DEF LockCard, Waits
  <2>3. \A c \in PrintCards : holder'[c] = holder[c] \/ holder[c] \in {None, r}
    BY <1>0, <1>3 DEF LockCard, Granted, PrintTypeOK
  <2>4. None \notin S
    BY PrintAssumption
  <2>5. QED
    BY <2>1, <2>2, <2>3, <2>4 DEF Others
<1>4. ASSUME NEW r \in PrintRequests, CommitPrint(r) PROVE Kept
  <2>1. Others(r) /\ Open(r)
    BY <1>0, <1>4 DEF CommitPrint, Others, PrintTypeOK
  <2>2. r \notin S
    BY <1>1, <1>4 DEF CommitPrint, Waits, Looking
  <2>3. \A c \in request[r].transitioned : holder[c] = r
    BY <1>0, <2>1 DEF LockInv, LocksHeld
  <2>4. \A c \in PrintCards : holder[c] # r =>
          holder'[c] = holder[c] /\ printStatus'[c] = printStatus[c]
    BY <1>4, <2>3 DEF CommitPrint, Freed
  <2>5. QED
    BY <2>1, <2>2, <2>4 DEF Others
<1>5. ASSUME NEW r \in PrintRequests, RollBack(r) PROVE Kept
  <2>1. Others(r) /\ request'[r].at = "failed"
    BY <1>0, <1>5 DEF RollBack, NewRequest, Others, PrintTypeOK
  <2>2. \A c \in PrintCards : holder[c] # r =>
          holder'[c] = holder[c] /\ printStatus'[c] = printStatus[c]
    BY <1>5 DEF RollBack, Freed
  <2>3. QED
    BY <2>1, <2>2 DEF Others
<1>6. ASSUME NEW c \in PrintCards, NEW t \in Status, MovePrintable(c, t) PROVE Kept
  <2>1. None \notin S /\ holder[c] = None /\ UNCHANGED <<holder, request>>
    BY <1>6, PrintAssumption DEF MovePrintable
  <2>2. \A d \in PrintCards : d # c => printStatus'[d] = printStatus[d]
    BY <1>0, <1>6 DEF MovePrintable, PrintTypeOK
  <2>3. QED
    BY <2>1, <2>2
<1>7. Kept
  <2>1. CASE BreakDeadlock
    BY <1>5, <2>1 DEF BreakDeadlock
  <2>2. CASE UNCHANGED printVars
    BY <2>2 DEF printVars
  <2>3. ASSUME NEW r \in PrintRequests, FailPrint(r) PROVE Kept
    BY <1>5, <2>3 DEF FailPrint
  <2>4. QED
    BY <1>2, <1>3, <1>4, <1>6, <2>1, <2>2, <2>3 DEF PrintNext, AdvancePrint
<1>8. ASSUME NEW r \in S PROVE Waits(r)' /\ WaitsFor(r)' = WaitsFor(r)
  <2>1. request'[r] = request[r] /\ Asked(r)' = Asked(r)
    BY <1>7 DEF Asked
  <2>2. /\ holder'[Asked(r)] = holder[Asked(r)]
        /\ printStatus'[Asked(r)] = printStatus[Asked(r)]
    BY <1>1, <1>7
  <2>3. QED
    BY <1>1, <2>1, <2>2 DEF Waits, WaitsFor, Looking, Open, Seen, Granted
<1>9. {WaitsFor(r)' : r \in S} = {WaitsFor(r) : r \in S}
  BY <1>8
<1>10. QED
  BY <1>8, <1>9 DEF Deadlocked

\* Nothing but the abort of one of them ends a circle of waiting requests: no
\* commit, no other request and no move of a card frees them.
THEOREM OnlyAbortsBreakCircles == PrintSpec => [][CirclesHold]_printVars
<1>1. WaitInv /\ [PrintNext]_printVars => [CirclesHold]_printVars
  BY CirclesHoldStep
<1>2. QED
  BY <1>1, WaitInvAlways, PTL DEF PrintSpec

(***************************************************************************)
(* The refinement.                                                         *)
(***************************************************************************)

\* What the atomic specification calls the answers.
Answered ==
  [r \in PrintRequests |->
     IF request[r].at = "done"
     THEN [transitioned |-> request[r].transitioned,
           already |-> request[r].already, done |-> TRUE]
     ELSE [transitioned |-> {}, already |-> {}, done |-> FALSE]]

\* The atomic specification has the same rules of the workflow.
LEMMA SameRules ==
  /\ Prints!Status = Status /\ Prints!Live = Live /\ Prints!Action = Action
  /\ \A s, a : Prints!Target(s, a) = Target(s, a)
<1>1. Prints!Live = Live /\ Prints!Action = Action /\ Prints!None = None
  BY DEF Live, Prints!Live, Action, Prints!Action, None, Prints!None
<1>2. Prints!Status = Status
  BY <1>1 DEF Status, Prints!Status
<1>3. \A s, a : Prints!Target(s, a) = Target(s, a)
  BY <1>1 DEF Target, Prints!Target
<1>4. QED
  BY <1>1, <1>2, <1>3

LEMMA RefinesInit == PrintInit => Prints!P_Init
BY DEF PrintInit, NewRequest, Prints!P_Init, Prints!NoAnswer, Status, Live,
       Prints!Status, Prints!Live

\* No answer changes while no request becomes or stops being done.
LEMMA SameAnswers ==
  ASSUME PrintTypeOK, NEW r \in PrintRequests, Others(r),
         request[r].at # "done", request'[r].at # "done"
  PROVE  Answered' = Answered
BY DEF Answered, Others

LEMMA CommitRefines ==
  ASSUME LockInv, NEW r \in PrintRequests, CommitPrint(r)
  PROVE  Prints!P_Print(r, request[r].transitioned, request[r].already)
<1> DEFINE T == request[r].transitioned
           D == request[r].already
<1>0. PrintTypeOK /\ Open(r)
  BY DEF LockInv, CommitPrint
<1>1. T \subseteq PrintCards /\ D \subseteq PrintCards
  BY <1>0, RequestParts
<1>2. Others(r) /\ request'[r] = [request[r] EXCEPT !.at = "done"]
  BY <1>0 DEF CommitPrint, Others, PrintTypeOK
<1>3. /\ request'[r].at = "done" /\ request'[r].transitioned = T
      /\ request'[r].already = D
  BY <1>0, <1>2 DEF PrintTypeOK, PrintRequest
<1>4. \A c \in T : printStatus[c] = "APPROVED"
  BY <1>0 DEF LockInv, AnswersHold
<1>5. printStatus' = [c \in PrintCards |-> IF c \in T THEN "DOWNLOADED" ELSE printStatus[c]]
  BY DEF CommitPrint
<1>6. \A c \in D : printStatus'[c] = "DOWNLOADED"
  BY <1>0, <1>1, <1>5 DEF LockInv, AnswersHold
<1>7. Answered' = [Answered EXCEPT ![r] =
                     [transitioned |-> T, already |-> D, done |-> TRUE]]
  BY <1>2, <1>3 DEF Answered, Others
<1>8. ~Answered[r].done
  BY <1>0 DEF Answered, Open
<1>9. QED
  BY <1>4, <1>5, <1>6, <1>7, <1>8 DEF Prints!P_Print, Answered

LEMMA StepRefines ==
  LockInv /\ [PrintNext]_printVars => [Prints!P_Next]_<<printStatus, Answered>>
<1> SUFFICES ASSUME LockInv, [PrintNext]_printVars
             PROVE  Prints!P_Next \/ UNCHANGED <<printStatus, Answered>>
  OBVIOUS
<1>0. PrintTypeOK
  BY DEF LockInv
<1>1. ASSUME NEW r \in PrintRequests,
             (\E ids \in PrintLists : OpenPrint(r, ids)) \/ SkipCard(r) \/ LockCard(r)
      PROVE  UNCHANGED <<printStatus, Answered>>
  <2>1. printStatus' = printStatus
    BY <1>1 DEF OpenPrint, SkipCard, LockCard
  <2>2. Others(r) /\ request[r].at # "done" /\ request'[r].at # "done"
    <3>1. CASE \E ids \in PrintLists : OpenPrint(r, ids)
      BY <1>0, <3>1, OpenLeaves
    <3>2. CASE SkipCard(r)
      BY <1>0, <3>2 DEF SkipCard, Looking, Open, Others, PrintTypeOK, PrintRequest
    <3>3. CASE LockCard(r)
      BY <1>0, <3>3 DEF LockCard, Looking, Open, Others, PrintTypeOK, PrintRequest
    <3>4. QED
      BY <1>1, <3>1, <3>2, <3>3
  <2>3. QED
    BY <1>0, <2>1, <2>2, SameAnswers
<1>2. ASSUME NEW r \in PrintRequests, CommitPrint(r) PROVE Prints!P_Next
  <2>1. request[r].transitioned \in SUBSET PrintCards /\ request[r].already \in SUBSET PrintCards
    BY <1>0, RequestParts
  <2> DEFINE Does(q, T, D) == Prints!P_Print(q, T, D)
  <2>2. Does(r, request[r].transitioned, request[r].already)
    BY <1>2, CommitRefines
  <2>3. \E q \in PrintRequests : \E T, D \in SUBSET PrintCards : Does(q, T, D)
    <3> HIDE DEF Does
    <3> QED BY <2>1, <2>2
  <2>4. QED
    BY <2>3, Zenon DEF Prints!P_Next
<1>3. ASSUME NEW r \in PrintRequests, request[r].at # "done", RollBack(r)
      PROVE  UNCHANGED <<printStatus, Answered>>
  <2>1. printStatus' = printStatus
    BY <1>3 DEF RollBack
  <2>2. Others(r) /\ request'[r].at # "done"
    BY <1>0, <1>3 DEF RollBack, NewRequest, Others, PrintTypeOK
  <2>3. QED
    BY <1>0, <1>3, <2>1, <2>2, SameAnswers
<1>4. ASSUME NEW r \in PrintRequests, FailPrint(r)
      PROVE  UNCHANGED <<printStatus, Answered>>
  BY <1>3, <1>4 DEF FailPrint, Open
<1>5. CASE BreakDeadlock
  <2>1. PICK S \in SUBSET PrintRequests : Deadlocked(S) /\ \E r \in S : RollBack(r)
    BY <1>5 DEF BreakDeadlock
  <2>2. PICK r \in S : RollBack(r)
    BY <2>1
  <2>3. request[r].at # "done"
    BY <2>1 DEF Deadlocked, Waits, Looking, Open
  <2>4. QED
    BY <1>3, <2>2, <2>3
<1>6. ASSUME NEW c \in PrintCards, NEW t \in Status, MovePrintable(c, t)
      PROVE  Prints!P_Next
  <2>1. Answered' = Answered
    BY <1>6 DEF MovePrintable, Answered
  <2>2. Prints!P_Move(c, t)
    BY <1>6, <2>1, SameRules DEF MovePrintable, Prints!P_Move, Answered
  <2>3. QED
    BY <2>2, SameRules DEF Prints!P_Next
<1>7. CASE UNCHANGED printVars
  BY <1>7 DEF printVars, Answered
<1>8. QED
  BY <1>1, <1>2, <1>4, <1>5, <1>6, <1>7 DEF PrintNext, AdvancePrint

\* The transaction with its locks implements the atomic print request.
THEOREM PrintLocksImplement == PrintSpec => ImplementsAtomicPrints
<1>1. [Prints!P_Next]_<<printStatus, Answered>> <=> [Prints!P_Next]_<<printStatus,
        [r \in PrintRequests |->
           IF request[r].at = "done"
           THEN [transitioned |-> request[r].transitioned,
                 already |-> request[r].already, done |-> TRUE]
           ELSE [transitioned |-> {}, already |-> {}, done |-> FALSE]]>>
  BY DEF Answered
<1>2. QED
  BY <1>1, RefinesInit, StepRefines, LockInvAlways, PTL
     DEF PrintSpec, ImplementsAtomicPrints, Prints!P_Spec
=============================================================================
