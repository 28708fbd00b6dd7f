-------------------------- MODULE PipelinesProofs --------------------------
(***************************************************************************)
(* Proofs about what goes into the cards and out of them, for any cards,   *)
(* requests, drafts, sandbox calls and number of server processes.  First  *)
(* reprints: nothing happens to a card for a request nobody approved, and  *)
(* its counters claim no print the history does not have.  Then the        *)
(* sandbox: the operations of a session are serial.  At the end, what is   *)
(* proved of the five modules alone holds of them together.                *)
(***************************************************************************)
EXTENDS MCPipelines, ExportRunProofs, IntakeProofs

(***************************************************************************)
(* Reprints: the invariant is about copies that may be stale, so it says   *)
(* of every copy in a process what it says of the rows.  It survives the   *)
(* steps of the others because approvals and prints are only ever added.   *)
(***************************************************************************)

\* A row, read or still in a copy, while the history is as: the PRINTED rows of
\* its card are n.
GoodRow(row, n, as) ==
  /\ \A r \in row.drafts : "APPROVED" \in as[r]
  /\ row.reprints <= n
  /\ row.prints = row.reprints + 1

\* A process.
GoodClerk(k, n, as) ==
  /\ k.copy \in {"CONFIRMED", "PRINTED"} \/ (k.at = "loaded" /\ k.op = "print")
     => "APPROVED" \in as[k.req]
  /\ GoodRow(k.row, n, as)

RequestsApproved ==
  \A r \in ReprintRequests :
    reprint[r] \in {"CONFIRMED", "PRINTED"} \/ "PRINTED" \in acts[r]
    => "APPROVED" \in acts[r]

RowsGood == \A c \in ReprintCards : GoodRow(reprintCard[c], printedRows[c], acts)

ClerksGood ==
  \A w \in ReprintWorkers :
    clerk[w] # NoClerk => GoodClerk(clerk[w], printedRows[CardOf[clerk[w].req]], acts)

ReprintInv == ReprintTypeOK /\ RequestsApproved /\ RowsGood /\ ClerksGood

(***************************************************************************)
(* Types.                                                                  *)
(***************************************************************************)

LEMMA ReprintRowTypes ==
  /\ NewReprintRow \in ReprintRow
  /\ \A row \in ReprintRow : Reprinted(row) \in ReprintRow
  /\ \A row \in ReprintRow, r \in ReprintRequests : Applied(row, r) \in ReprintRow
  /\ \A row \in ReprintRow, d \in BOOLEAN, drafts \in SUBSET ReprintRequests :
       [row EXCEPT !.downloaded = d, !.drafts = drafts] \in ReprintRow
<1>1. NewReprintRow \in ReprintRow
  BY DEF NewReprintRow, ReprintRow
<1>2. \A row \in ReprintRow : Reprinted(row) \in ReprintRow
  <2>1. \A row \in ReprintRow : row.reprints + 1 \in Nat /\ row.prints + 1 \in Nat
    BY DEF ReprintRow
  <2>2. \A row \in ReprintRow, m, n \in Nat :
          [row EXCEPT !.reprints = m, !.prints = n] \in ReprintRow
    BY DEF ReprintRow
  <2>3. QED
    BY <2>1, <2>2 DEF Reprinted
<1>3. \A row \in ReprintRow, r \in ReprintRequests : Applied(row, r) \in ReprintRow
  <2>1. \A row \in ReprintRow, r \in ReprintRequests :
          row.drafts \cup {r} \in SUBSET ReprintRequests
    BY DEF ReprintRow
  <2>2. \A row \in ReprintRow, drafts \in SUBSET ReprintRequests :
          [row EXCEPT !.drafts = drafts] \in ReprintRow
    BY DEF ReprintRow
  <2>3. QED
    BY <2>1, <2>2 DEF Applied
<1>4. \A row \in ReprintRow, d \in BOOLEAN, drafts \in SUBSET ReprintRequests :
        [row EXCEPT !.downloaded = d, !.drafts = drafts] \in ReprintRow
  BY DEF ReprintRow
<1>5. QED
  BY <1>1, <1>2, <1>3, <1>4

\* A process at work holds a request, its card, and a row.
LEMMA ClerkParts ==
  ASSUME ReprintTypeOK, NEW w \in ReprintWorkers, clerk[w] # NoClerk
  PROVE  /\ clerk[w] \in Clerk
         /\ clerk[w].req \in ReprintRequests /\ CardOf[clerk[w].req] \in ReprintCards
         /\ clerk[w].row \in ReprintRow
         /\ clerk[w].row.drafts \subseteq ReprintRequests
<1>1. clerk[w] \in Clerk
  BY DEF ReprintTypeOK
<1>2. QED
  BY <1>1, ReprintAssumption DEF Clerk, ReprintRow

LEMMA HoldingType ==
  ASSUME ReprintTypeOK, NEW op \in ReprintOp \cup {"save"}, NEW r \in ReprintRequests
  PROVE  Holding(op, r) \in Clerk
BY ReprintAssumption DEF ReprintTypeOK, Holding, Clerk, ReprintStatus

LEMMA ReprintInitType == ReprintInit => ReprintTypeOK
<1> SUFFICES ASSUME ReprintInit PROVE ReprintTypeOK
  OBVIOUS
<1>1. reprintCard \in [ReprintCards -> ReprintRow]
  BY ReprintRowTypes DEF ReprintInit
<1>2. printedRows \in [ReprintCards -> 0..MaxPrinted]
  BY ReprintAssumption DEF ReprintInit
<1>3. QED
  BY <1>1, <1>2 DEF ReprintInit, ReprintTypeOK, ReprintStatus

LEMMA ClosedType ==
  ASSUME ReprintTypeOK, NEW w \in ReprintWorkers, NEW status \in ReprintStatus,
         NEW act \in ReprintAct, clerk[w] # NoClerk, Closed(w, status, act)
  PROVE  /\ reprint' \in [ReprintRequests -> ReprintStatus]
         /\ acts' \in [ReprintRequests -> SUBSET ReprintAct]
         /\ clerk' \in [ReprintWorkers -> Clerk \cup {NoClerk}]
BY DEF ReprintTypeOK, Closed

LEMMA ReprintTypeStep == ReprintTypeOK /\ [ReprintNext]_reprintVars => ReprintTypeOK'
<1> SUFFICES ASSUME ReprintTypeOK, [ReprintNext]_reprintVars PROVE ReprintTypeOK'
  OBVIOUS
<1>1. ASSUME NEW r \in ReprintRequests, RequestReprint(r) PROVE ReprintTypeOK'
  BY <1>1 DEF RequestReprint, ReprintTypeOK, ReprintStatus, ReprintAct
<1>2. ASSUME NEW w \in ReprintWorkers, NEW r \in ReprintRequests, FetchToSave(w, r)
      PROVE  ReprintTypeOK'
  <2>1. Holding("save", r) \in Clerk
    BY HoldingType
  <2>2. QED
    BY <1>2, <2>1 DEF FetchToSave, ReprintTypeOK
<1>3. ASSUME NEW w \in ReprintWorkers, NEW r \in ReprintRequests, NEW op \in ReprintOp,
             FetchReprint(w, r, op)
      PROVE  ReprintTypeOK'
  <2>1. [at |-> "fetched", op |-> op, req |-> r, copy |-> reprint[r],
         row |-> NewReprintRow] \in Clerk
    BY ReprintRowTypes DEF ReprintTypeOK, Clerk
  <2>2. QED
    BY <1>3, <2>1 DEF FetchReprint, ReprintTypeOK
<1>4. ASSUME NEW w \in ReprintWorkers, LoadReprintCard(w) PROVE ReprintTypeOK'
  <2>1. clerk[w].op \in ReprintOp \cup {"save"} /\ clerk[w].req \in ReprintRequests
    BY <1>4, ClerkParts DEF LoadReprintCard, Clerk
  <2>2. Holding(clerk[w].op, clerk[w].req) \in Clerk
    BY <2>1, HoldingType
  <2>3. QED
    BY <1>4, <2>2 DEF LoadReprintCard, ReprintTypeOK
<1>5. ASSUME NEW w \in ReprintWorkers, ApproveReprint(w) PROVE ReprintTypeOK'
  <2> DEFINE r == clerk[w].req
  <2>1. clerk[w] # NoClerk /\ r \in ReprintRequests
    BY <1>5, ClerkParts DEF ApproveReprint, ReprintLoaded
  <2>2. Applied(clerk[w].row, r) \in ReprintRow
    BY <2>1, ClerkParts, ReprintRowTypes
  <2>3. reprintCard' \in [ReprintCards -> ReprintRow] /\ printedRows' = printedRows
    BY <1>5, <2>2 DEF ApproveReprint, ReprintTypeOK
  <2>4. "CONFIRMED" \in ReprintStatus /\ "APPROVED" \in ReprintAct
    BY DEF ReprintStatus, ReprintAct
  <2>5. QED
    BY <1>5, <2>1, <2>3, <2>4, ClosedType DEF ApproveReprint, ReprintTypeOK
<1>6. ASSUME NEW w \in ReprintWorkers, RejectReprint(w) PROVE ReprintTypeOK'
  <2>1. "REJECTED" \in ReprintStatus /\ "REJECTED" \in ReprintAct
    BY DEF ReprintStatus, ReprintAct
  <2>2. QED
    BY <1>6, <2>1, ClosedType DEF RejectReprint, ReprintLoaded, ReprintTypeOK
<1>7. ASSUME NEW w \in ReprintWorkers, PrintReprint(w) PROVE ReprintTypeOK'
  <2> DEFINE c == CardOf[clerk[w].req]
  <2>1. clerk[w] # NoClerk /\ c \in ReprintCards
    BY <1>7, ClerkParts DEF PrintReprint, ReprintLoaded
  <2>2. Reprinted(clerk[w].row) \in ReprintRow
    BY <2>1, ClerkParts, ReprintRowTypes
  <2>3. reprintCard' \in [ReprintCards -> ReprintRow]
    BY <1>7, <2>2 DEF PrintReprint, ReprintTypeOK
  <2>4. printedRows' \in [ReprintCards -> 0..MaxPrinted]
    BY <1>7, <2>1, ReprintAssumption DEF PrintReprint, ReprintTypeOK
  <2>5. "PRINTED" \in ReprintStatus /\ "PRINTED" \in ReprintAct
    BY DEF ReprintStatus, ReprintAct
  <2>6. QED
    BY <1>7, <2>1, <2>3, <2>4, <2>5, ClosedType DEF PrintReprint, ReprintTypeOK
<1>8. ASSUME NEW w \in ReprintWorkers, SaveWholeCard(w) PROVE ReprintTypeOK'
  <2>1. PICK d \in BOOLEAN, drafts \in {{}, clerk[w].row.drafts} :
          reprintCard' = [reprintCard EXCEPT ![CardOf[clerk[w].req]] =
                            [clerk[w].row EXCEPT !.downloaded = d, !.drafts = drafts]]
    BY <1>8 DEF SaveWholeCard
  <2>2. clerk[w].row \in ReprintRow /\ drafts \in SUBSET ReprintRequests
    BY <1>8, ClerkParts DEF SaveWholeCard, ReprintLoaded
  <2>3. reprintCard' \in [ReprintCards -> ReprintRow]
    BY <2>1, <2>2, ReprintRowTypes DEF ReprintTypeOK
  <2>4. QED
    BY <1>8, <2>3 DEF SaveWholeCard, ReprintTypeOK
<1>9. ASSUME NEW w \in ReprintWorkers, DropReprint(w) PROVE ReprintTypeOK'
  BY <1>9 DEF DropReprint, ReprintTypeOK
<1>10. CASE UNCHANGED reprintVars
  BY <1>10 DEF reprintVars, ReprintTypeOK
<1>11. QED
  BY <1>1, <1>2, <1>3, <1>4, <1>5, <1>6, <1>7, <1>8, <1>9, <1>10 DEF ReprintNext

\* The rows and the copies keep their types.
THEOREM ReprintTypeCorrect == ReprintSpec => []ReprintTypeOK
BY ReprintInitType, ReprintTypeStep, PTL DEF ReprintSpec

(***************************************************************************)
(* What was good stays good.                                               *)
(***************************************************************************)

LEMMA GoodRowGrows ==
  ASSUME NEW row \in ReprintRow, NEW m \in Nat, NEW n \in Nat, m <= n,
         NEW as, NEW bs, \A r \in ReprintRequests : as[r] \subseteq bs[r],
         GoodRow(row, m, as)
  PROVE  GoodRow(row, n, bs)
<1>1. \A r \in row.drafts : "APPROVED" \in bs[r]
  BY DEF GoodRow, ReprintRow
<1>2. row.reprints <= n /\ row.prints = row.reprints + 1
  BY DEF GoodRow, ReprintRow
<1>3. QED
  BY <1>1, <1>2 DEF GoodRow

\* The history is only added to.
LEMMA HistoryGrows ==
  ASSUME ReprintTypeOK, [ReprintNext]_reprintVars
  PROVE  /\ \A r \in ReprintRequests : acts[r] \subseteq acts'[r]
         /\ \A c \in ReprintCards : /\ printedRows[c] \in Nat /\ printedRows'[c] \in Nat
                                    /\ printedRows[c] <= printedRows'[c]
<1>1. \A c \in ReprintCards : printedRows[c] \in Nat /\ printedRows'[c] \in Nat
  BY ReprintTypeStep, ReprintAssumption DEF ReprintTypeOK
<1>2. ASSUME NEW w \in ReprintWorkers,
             ApproveReprint(w) \/ RejectReprint(w) \/ PrintReprint(w)
      PROVE  /\ \A r \in ReprintRequests : acts[r] \subseteq acts'[r]
             /\ \A c \in ReprintCards : printedRows[c] <= printedRows'[c]
  <2>1. \A r \in ReprintRequests : acts[r] \subseteq acts'[r]
    <3>1. \E act : acts' = [acts EXCEPT ![clerk[w].req] = @ \cup {act}]
      BY <1>2 DEF ApproveReprint, RejectReprint, PrintReprint, Closed
    <3>2. QED
      BY <3>1 DEF ReprintTypeOK
  <2>2. \A c \in ReprintCards : printedRows[c] <= printedRows'[c]
    BY <1>1, <1>2 DEF ApproveReprint, RejectReprint, PrintReprint, ReprintTypeOK
  <2>3. QED
    BY <2>1, <2>2
<1>3. ASSUME NEW r \in ReprintRequests, RequestReprint(r)
      PROVE  /\ \A q \in ReprintRequests : acts[q] \subseteq acts'[q]
             /\ UNCHANGED printedRows
  BY <1>3 DEF RequestReprint, ReprintTypeOK
<1>4. ASSUME NEW w \in ReprintWorkers,
             \/ \E r \in ReprintRequests :
                  FetchToSave(w, r) \/ \E op \in ReprintOp : FetchReprint(w, r, op)
             \/ LoadReprintCard(w) \/ SaveWholeCard(w) \/ DropReprint(w)
      PROVE  UNCHANGED <<acts, printedRows>>
  BY <1>4 DEF FetchToSave, FetchReprint, LoadReprintCard, SaveWholeCard, DropReprint
<1>5. CASE UNCHANGED reprintVars
  BY <1>1, <1>5 DEF reprintVars
<1>6. QED
  BY <1>1, <1>2, <1>3, <1>4, <1>5 DEF ReprintNext

\* The rows and the processes a step leaves alone stay good.
LEMMA LeftAloneGood ==
  ASSUME ReprintInv, [ReprintNext]_reprintVars
  PROVE  /\ \A c \in ReprintCards :
              reprintCard'[c] = reprintCard[c] => GoodRow(reprintCard'[c], printedRows'[c], acts')
         /\ \A w \in ReprintWorkers :
              clerk[w] # NoClerk =>
                GoodRow(clerk[w].row, printedRows'[CardOf[clerk[w].req]], acts')
         /\ \A w \in ReprintWorkers :
              clerk'[w] # NoClerk /\ clerk'[w] = clerk[w] =>
                GoodClerk(clerk'[w], printedRows'[CardOf[clerk'[w].req]], acts')
<1>0. ReprintTypeOK
  BY DEF ReprintInv
<1>1. ASSUME NEW c \in ReprintCards, reprintCard'[c] = reprintCard[c]
      PROVE  GoodRow(reprintCard'[c], printedRows'[c], acts')
  <2>1. reprintCard[c] \in ReprintRow /\ GoodRow(reprintCard[c], printedRows[c], acts)
    BY <1>0 DEF ReprintInv, ReprintTypeOK, RowsGood
  <2>2. GoodRow(reprintCard[c], printedRows'[c], acts')
    BY <1>0, <2>1, HistoryGrows, GoodRowGrows
  <2>3. QED
    BY <1>1, <2>2
<1>2. ASSUME NEW w \in ReprintWorkers, clerk[w] # NoClerk
      PROVE  /\ GoodRow(clerk[w].row, printedRows'[CardOf[clerk[w].req]], acts')
             /\ GoodClerk(clerk[w], printedRows'[CardOf[clerk[w].req]], acts')
  <2> DEFINE c == CardOf[clerk[w].req]
  <2>1. /\ clerk[w].row \in ReprintRow /\ c \in ReprintCards
        /\ clerk[w].req \in ReprintRequests
    BY <1>0, <1>2, ClerkParts
  <2>2. GoodClerk(clerk[w], printedRows[c], acts)
    BY <1>2 DEF ReprintInv, ClerksGood
  <2>3. GoodRow(clerk[w].row, printedRows[c], acts)
    BY <2>2 DEF GoodClerk
  <2> HIDE DEF c
  <2>4. GoodRow(clerk[w].row, printedRows'[c], acts')
    BY <1>0, <2>1, <2>3, HistoryGrows, GoodRowGrows
  <2>5. GoodClerk(clerk[w], printedRows'[c], acts')
    BY <1>0, <2>1, <2>2, <2>4, HistoryGrows DEF GoodClerk
  <2>6. QED
    BY <2>4, <2>5 DEF c
<1>3. QED
  BY <1>1, <1>2

(***************************************************************************)
(* The invariant.                                                          *)
(***************************************************************************)

LEMMA ReprintInvInit == ReprintInit => ReprintInv
<1> SUFFICES ASSUME ReprintInit PROVE ReprintInv
  OBVIOUS
<1>1. ReprintTypeOK
  BY ReprintInitType
<1>2. RequestsApproved /\ ClerksGood
  BY DEF ReprintInit, RequestsApproved, ClerksGood
<1>3. RowsGood
  <2> SUFFICES ASSUME NEW c \in ReprintCards
               PROVE  GoodRow(reprintCard[c], printedRows[c], acts)
    BY DEF RowsGood
  <2>1. reprintCard[c] = NewReprintRow /\ printedRows[c] = 0
    BY DEF ReprintInit
  <2>2. NewReprintRow.drafts = {}
    BY DEF NewReprintRow
  <2>3. NewReprintRow.reprints = 0 /\ NewReprintRow.prints = 1
    BY DEF NewReprintRow
  <2>4. QED
    BY <2>1, <2>2, <2>3 DEF GoodRow
<1>4. QED
  BY <1>1, <1>2, <1>3 DEF ReprintInv

\* A step that only writes the rows of the requests and frees a process.
LEMMA CloseInv ==
  ASSUME ReprintInv, [ReprintNext]_reprintVars,
         NEW w \in ReprintWorkers, clerk[w] # NoClerk,
         NEW status \in ReprintStatus, NEW act \in ReprintAct, Closed(w, status, act),
         status \in {"CONFIRMED", "PRINTED"} \/ act = "PRINTED" =>
           act = "APPROVED" \/ "APPROVED" \in acts[clerk[w].req]
  PROVE  RequestsApproved' /\ ClerksGood'
<1> DEFINE r == clerk[w].req
<1>0. ReprintTypeOK /\ r \in ReprintRequests
  BY ClerkParts DEF ReprintInv
<1>1. /\ reprint'[r] = status /\ acts'[r] = acts[r] \cup {act}
      /\ \A q \in ReprintRequests : q # r => reprint'[q] = reprint[q] /\ acts'[q] = acts[q]
  BY <1>0 DEF Closed, ReprintTypeOK
<1>2. RequestsApproved'
  BY <1>0, <1>1 DEF RequestsApproved, ReprintInv
<1>3. \A v \in ReprintWorkers : clerk'[v] # NoClerk => clerk'[v] = clerk[v]
  BY <1>0 DEF Closed, ReprintTypeOK
<1>4. ClerksGood'
  BY <1>3, LeftAloneGood DEF ClerksGood
<1>5. QED
  BY <1>2, <1>4

LEMMA ReprintInvStep == ReprintInv /\ [ReprintNext]_reprintVars => ReprintInv'
<1> SUFFICES ASSUME ReprintInv, [ReprintNext]_reprintVars PROVE ReprintInv'
  OBVIOUS
<1>0. ReprintTypeOK /\ ReprintTypeOK'
  BY ReprintTypeStep DEF ReprintInv
<1>1. ASSUME NEW r \in ReprintRequests, RequestReprint(r) PROVE ReprintInv'
  <2>1. /\ reprint'[r] = "REQUESTED" /\ acts'[r] = acts[r] \cup {"REQUESTED"}
        /\ \A q \in ReprintRequests : q # r => reprint'[q] = reprint[q] /\ acts'[q] = acts[q]
    BY <1>0, <1>1 DEF RequestReprint, ReprintTypeOK
  <2>2. RequestsApproved'
    BY <2>1 DEF RequestsApproved, ReprintInv
  <2>3. RowsGood' /\ ClerksGood'
    BY <1>1, LeftAloneGood DEF RequestReprint, RowsGood, ClerksGood
  <2>4. QED
    BY <1>0, <2>2, <2>3 DEF ReprintInv
<1>2. ASSUME NEW w \in ReprintWorkers,
             \/ \E r \in ReprintRequests :
                  FetchToSave(w, r) \/ \E op \in ReprintOp : FetchReprint(w, r, op)
             \/ LoadReprintCard(w) \/ DropReprint(w)
      PROVE  ReprintInv'
  <2>1. UNCHANGED <<reprint, acts, reprintCard, printedRows>>
    BY <1>2 DEF FetchToSave, FetchReprint, LoadReprintCard, DropReprint
  <2>2. RequestsApproved' /\ RowsGood'
    BY <2>1 DEF RequestsApproved, RowsGood, ReprintInv
  <2>3. \A v \in ReprintWorkers : v # w => clerk'[v] = clerk[v]
    BY <1>0, <1>2 DEF FetchToSave, FetchReprint, LoadReprintCard, DropReprint, ReprintTypeOK
  <2>4. clerk'[w] # NoClerk => GoodClerk(clerk'[w], printedRows[CardOf[clerk'[w].req]], acts)
    <3>1. ASSUME NEW r \in ReprintRequests, FetchToSave(w, r)
          PROVE  GoodClerk(clerk'[w], printedRows[CardOf[clerk'[w].req]], acts)
      <4>1. clerk'[w] = Holding("save", r) /\ CardOf[r] \in ReprintCards
        BY <1>0, <3>1, ReprintAssumption DEF FetchToSave, ReprintTypeOK
      <4>2. QED
        BY <4>1 DEF Holding, GoodClerk, ReprintInv, RowsGood
    <3>2. ASSUME NEW r \in ReprintRequests, NEW op \in ReprintOp, FetchReprint(w, r, op)
          PROVE  GoodClerk(clerk'[w], printedRows[CardOf[clerk'[w].req]], acts)
      <4>1. clerk'[w] = [at |-> "fetched", op |-> op, req |-> r, copy |-> reprint[r],
                         row |-> NewReprintRow]
        BY <1>0, <3>2 DEF FetchReprint, ReprintTypeOK
      <4>2. printedRows[CardOf[r]] \in Nat
        BY <1>0, ReprintAssumption DEF ReprintTypeOK
      <4>3. GoodRow(NewReprintRow, printedRows[CardOf[r]], acts)
        BY <4>2 DEF GoodRow, NewReprintRow
      <4>4. QED
        BY <4>1, <4>3 DEF GoodClerk, ReprintInv, RequestsApproved
    <3>3. ASSUME LoadReprintCard(w)
          PROVE  GoodClerk(clerk'[w], printedRows[CardOf[clerk'[w].req]], acts)
      <4> DEFINE r == clerk[w].req
      <4>1. clerk[w] # NoClerk /\ r \in ReprintRequests /\ CardOf[r] \in ReprintCards
        BY <1>0, <3>3, ClerkParts DEF LoadReprintCard
      <4>2. clerk'[w] = Holding(clerk[w].op, r)
        BY <1>0, <3>3 DEF LoadReprintCard, ReprintTypeOK
      <4>3. clerk[w].op = "print" => "APPROVED" \in acts[r]
        BY <3>3, <4>1 DEF LoadReprintCard, Allows, ReprintInv, ClerksGood, GoodClerk
      <4>4. GoodRow(reprintCard[CardOf[r]], printedRows[CardOf[r]], acts)
        BY <4>1 DEF ReprintInv, RowsGood
      <4> HIDE DEF r
      <4>5. QED
        BY <4>2, <4>3, <4>4 DEF Holding, GoodClerk
    <3>4. ASSUME DropReprint(w) PROVE clerk'[w] = NoClerk
      BY <1>0, <3>4 DEF DropReprint, ReprintTypeOK
    <3>5. QED
      BY <1>2, <3>1, <3>2, <3>3, <3>4
  <2>5. ClerksGood'
    BY <2>1, <2>3, <2>4 DEF ClerksGood, ReprintInv
  <2>6. QED
    BY <1>0, <2>2, <2>5 DEF ReprintInv
<1>3. ASSUME NEW w \in ReprintWorkers, ApproveReprint(w) PROVE ReprintInv'
  <2> DEFINE r == clerk[w].req
             c == CardOf[r]
  <2>1. clerk[w] # NoClerk /\ r \in ReprintRequests /\ c \in ReprintCards
    BY <1>0, <1>3, ClerkParts DEF ApproveReprint, ReprintLoaded
  <2>2. RequestsApproved' /\ ClerksGood'
    <3>1. Closed(w, "CONFIRMED", "APPROVED")
      BY <1>3 DEF ApproveReprint
    <3>2. "CONFIRMED" \in ReprintStatus /\ "APPROVED" \in ReprintAct
      BY DEF ReprintStatus, ReprintAct
    <3>3. QED
      BY <2>1, <3>1, <3>2, CloseInv
  <2>3. "APPROVED" \in acts'[r]
    BY <1>0, <1>3, <2>1 DEF ApproveReprint, Closed, ReprintTypeOK
  <2>4. GoodRow(clerk[w].row, printedRows'[c], acts') /\ clerk[w].row \in ReprintRow
    BY <1>0, <2>1, LeftAloneGood, ClerkParts
  <2>5. GoodRow(Applied(clerk[w].row, r), printedRows'[c], acts')
    <3> HIDE DEF r, c
    <3>1. QED
      BY <2>3, <2>4 DEF Applied, GoodRow, ReprintRow
  <2>6. \A d \in ReprintCards :
          \/ reprintCard'[d] = reprintCard[d]
          \/ d = c /\ reprintCard'[d] = Applied(clerk[w].row, r)
    BY <1>0, <1>3 DEF ApproveReprint, ReprintTypeOK
  <2>7. RowsGood'
    BY <2>5, <2>6, LeftAloneGood DEF RowsGood
  <2>8. QED
    BY <1>0, <2>2, <2>7 DEF ReprintInv
<1>4. ASSUME NEW w \in ReprintWorkers, RejectReprint(w) PROVE ReprintInv'
  <2>1. "REJECTED" \in ReprintStatus /\ "REJECTED" \in ReprintAct
    BY DEF ReprintStatus, ReprintAct
  <2>2. Closed(w, "REJECTED", "REJECTED") /\ clerk[w] # NoClerk
    BY <1>4 DEF RejectReprint, ReprintLoaded
  <2>3. RequestsApproved' /\ ClerksGood'
    BY <2>1, <2>2, CloseInv
  <2>4. RowsGood'
    BY <1>4, LeftAloneGood DEF RejectReprint, RowsGood
  <2>5. QED
    BY <1>0, <2>3, <2>4 DEF ReprintInv
<1>5. ASSUME NEW w \in ReprintWorkers, PrintReprint(w) PROVE ReprintInv'
  <2> DEFINE r == clerk[w].req
             c == CardOf[r]
  <2>1. /\ clerk[w] # NoClerk /\ r \in ReprintRequests /\ c \in ReprintCards
        /\ clerk[w].at = "loaded" /\ clerk[w].op = "print"
    BY <1>0, <1>5, ClerkParts DEF PrintReprint, ReprintLoaded
  <2>2. GoodClerk(clerk[w], printedRows[c], acts)
    BY <2>1 DEF ReprintInv, ClerksGood
  <2>3. "APPROVED" \in acts[r]
    BY <2>1, <2>2 DEF GoodClerk
  <2>4. RequestsApproved' /\ ClerksGood'
    <3>1. Closed(w, "PRINTED", "PRINTED")
      BY <1>5 DEF PrintReprint
    <3>2. "PRINTED" \in ReprintStatus /\ "PRINTED" \in ReprintAct
      BY DEF ReprintStatus, ReprintAct
    <3>3. QED
      BY <2>1, <2>3, <3>1, <3>2, CloseInv
  <2>5. /\ clerk[w].row \in ReprintRow /\ GoodRow(clerk[w].row, printedRows'[c], acts')
        /\ GoodRow(clerk[w].row, printedRows[c], acts)
    BY <1>0, <2>1, <2>2, LeftAloneGood, ClerkParts DEF GoodClerk
  <2>6. printedRows'[c] = printedRows[c] + 1 /\ printedRows[c] \in Nat
    BY <1>0, <1>5, <2>1, ReprintAssumption DEF PrintReprint, ReprintTypeOK
  <2>7. GoodRow(Reprinted(clerk[w].row), printedRows'[c], acts')
    <3> HIDE DEF r, c
    <3>1. QED
      BY <2>5, <2>6 DEF Reprinted, GoodRow, ReprintRow
  <2>8. \A d \in ReprintCards :
          \/ reprintCard'[d] = reprintCard[d]
          \/ d = c /\ reprintCard'[d] = Reprinted(clerk[w].row)
    BY <1>0, <1>5 DEF PrintReprint, ReprintTypeOK
  <2>9. RowsGood'
    BY <2>7, <2>8, LeftAloneGood DEF RowsGood
  <2>10. QED
    BY <1>0, <2>4, <2>9 DEF ReprintInv
<1>6. ASSUME NEW w \in ReprintWorkers, SaveWholeCard(w) PROVE ReprintInv'
  <2> DEFINE c == CardOf[clerk[w].req]
  <2>1. clerk[w] # NoClerk /\ UNCHANGED <<reprint, acts, printedRows>>
    BY <1>6 DEF SaveWholeCard, ReprintLoaded
  <2>2. PICK d \in BOOLEAN, drafts \in {{}, clerk[w].row.drafts} :
          reprintCard' = [reprintCard EXCEPT ![c] =
                            [clerk[w].row EXCEPT !.downloaded = d, !.drafts = drafts]]
    BY <1>6 DEF SaveWholeCard
  <2>3. clerk[w].row \in ReprintRow /\ GoodRow(clerk[w].row, printedRows'[c], acts')
    BY <1>0, <2>1, LeftAloneGood, ClerkParts
  <2>4. GoodRow([clerk[w].row EXCEPT !.downloaded = d, !.drafts = drafts],
                printedRows'[c], acts')
    <3> HIDE DEF c
    <3>1. QED
      BY <2>3 DEF GoodRow, ReprintRow
  <2>5. RowsGood'
    <3>1. \A e \in ReprintCards :
            \/ reprintCard'[e] = reprintCard[e]
            \/ e = c /\ reprintCard'[e] =
                          [clerk[w].row EXCEPT !.downloaded = d, !.drafts = drafts]
      BY <1>0, <2>2 DEF ReprintTypeOK
    <3>2. QED
      BY <2>4, <3>1, LeftAloneGood DEF RowsGood
  <2>6. \A v \in ReprintWorkers : clerk'[v] # NoClerk => clerk'[v] = clerk[v]
    BY <1>0, <1>6 DEF SaveWholeCard, ReprintTypeOK
  <2>7. RequestsApproved' /\ ClerksGood'
    BY <2>1, <2>6, LeftAloneGood DEF RequestsApproved, ReprintInv, ClerksGood
  <2>8. QED
    BY <1>0, <2>5, <2>7 DEF ReprintInv
<1>7. CASE UNCHANGED reprintVars
  BY <1>0, <1>7 DEF reprintVars, ReprintInv, RequestsApproved, RowsGood, ClerksGood
<1>8. QED
  BY <1>1, <1>2, <1>3, <1>4, <1>5, <1>6, <1>7 DEF ReprintNext

LEMMA ReprintInvAlways == ReprintSpec => []ReprintInv
BY ReprintInvInit, ReprintInvStep, PTL DEF ReprintSpec

\* Nothing of a request happens to a card before somebody approved it.
THEOREM ReprintsApprovedAlways == ReprintSpec => []ReprintsApproved
<1>1. ReprintInv => ReprintsApproved
  BY ReprintAssumption
     DEF ReprintInv, RequestsApproved, RowsGood, GoodRow, ReprintsApproved
<1>2. QED
  BY <1>1, ReprintInvAlways, PTL

\* The counters of a card claim no print the history does not have.
THEOREM PrintsRecordedAlways == ReprintSpec => []PrintsRecorded
<1>1. ReprintInv => PrintsRecorded
  BY DEF ReprintInv, RowsGood, GoodRow, PrintsRecorded
<1>2. QED
  BY <1>1, ReprintInvAlways, PTL

(***************************************************************************)
(* Reprints: the counters of a card fall behind the history only where two *)
(* processes held copies of it at once.  As long as one at a time holds    *)
(* the card, its copy is the row, and every print is counted.              *)
(***************************************************************************)

HoldsCard(w) == clerk[w] # NoClerk /\ clerk[w].at = "loaded"
HeldCard(w) == CardOf[clerk[w].req]

\* No two processes hold copies of one card.
OneHolder ==
  \A v, w \in ReprintWorkers :
    HoldsCard(v) /\ HoldsCard(w) /\ HeldCard(v) = HeldCard(w) => v = w

\* Both counters of every card are what the history says.
PrintsCounted ==
  \A c \in ReprintCards :
    /\ reprintCard[c].reprints = printedRows[c]
    /\ reprintCard[c].prints = printedRows[c] + 1

CopiesCurrent == \A w \in ReprintWorkers : HoldsCard(w) => clerk[w].row = reprintCard[HeldCard(w)]

\* A process that ends leaves the others the copies they hold.
LEMMA OthersStayCurrent ==
  ASSUME ReprintTypeOK, OneHolder, CopiesCurrent,
         NEW w \in ReprintWorkers, HoldsCard(w), clerk' = [clerk EXCEPT ![w] = NoClerk],
         \A c \in ReprintCards : reprintCard'[c] = reprintCard[c] \/ c = HeldCard(w)
  PROVE  CopiesCurrent'
<1> SUFFICES ASSUME NEW v \in ReprintWorkers, HoldsCard(v)'
             PROVE  clerk'[v].row = reprintCard'[CardOf[clerk'[v].req]]
  BY DEF CopiesCurrent, HeldCard
<1>1. v # w /\ clerk'[v] = clerk[v] /\ HoldsCard(v)
  BY DEF HoldsCard, ReprintTypeOK
<1>2. HeldCard(v) # HeldCard(w) /\ HeldCard(v) \in ReprintCards
  BY <1>1, ClerkParts DEF OneHolder, HoldsCard, HeldCard
<1>3. QED
  BY <1>1, <1>2 DEF CopiesCurrent, HeldCard

\* A step that leaves the rows alone, and in which a process may take a copy.
LEMMA CopiesTaken ==
  ASSUME ReprintTypeOK, CopiesCurrent, NEW w \in ReprintWorkers, UNCHANGED reprintCard,
         \A v \in ReprintWorkers \ {w} : clerk'[v] = clerk[v],
         \/ ~HoldsCard(w)'
         \/ \E op, r : clerk'[w] = Holding(op, r)
  PROVE  CopiesCurrent'
<1> SUFFICES ASSUME NEW v \in ReprintWorkers, HoldsCard(v)'
             PROVE  clerk'[v].row = reprintCard[CardOf[clerk'[v].req]]
  BY DEF CopiesCurrent, HeldCard
<1>1. CASE v = w
  <2>1. PICK op, r : clerk'[v] = Holding(op, r)
    BY <1>1
  <2>2. clerk'[v].row = reprintCard[CardOf[r]] /\ clerk'[v].req = r
    BY <2>1 DEF Holding
  <2>3. QED
    BY <2>2
<1>2. CASE v # w
  BY <1>2 DEF CopiesCurrent, HoldsCard, HeldCard
<1>3. QED
  BY <1>1, <1>2

LEMMA CountStep ==
  ASSUME ReprintTypeOK, OneHolder, CopiesCurrent, PrintsCounted, [ReprintNext]_reprintVars
  PROVE  CopiesCurrent' /\ PrintsCounted'
<1>1. ASSUME NEW r \in ReprintRequests, RequestReprint(r) PROVE CopiesCurrent' /\ PrintsCounted'
  BY <1>1 DEF RequestReprint, CopiesCurrent, PrintsCounted, HoldsCard, HeldCard
<1>2. ASSUME NEW w \in ReprintWorkers,
             \/ \E r \in ReprintRequests :
                  FetchToSave(w, r) \/ \E op \in ReprintOp : FetchReprint(w, r, op)
             \/ LoadReprintCard(w) \/ DropReprint(w)
      PROVE  CopiesCurrent' /\ PrintsCounted'
  <2>1. UNCHANGED <<reprintCard, printedRows>>
    BY <1>2 DEF FetchToSave, FetchReprint, LoadReprintCard, DropReprint
  <2>2. \A v \in ReprintWorkers \ {w} : clerk'[v] = clerk[v]
    BY <1>2 DEF FetchToSave, FetchReprint, LoadReprintCard, DropReprint, ReprintTypeOK
  <2>3. ~HoldsCard(w)' \/ \E op, r : clerk'[w] = Holding(op, r)
    <3>1. CASE \E r \in ReprintRequests : FetchToSave(w, r)
      BY <3>1 DEF FetchToSave, ReprintTypeOK
    <3>2. CASE \E r \in ReprintRequests : \E op \in ReprintOp : FetchReprint(w, r, op)
      <4>1. PICK r \in ReprintRequests, op \in ReprintOp : FetchReprint(w, r, op)
        BY <3>2
      <4>2. clerk'[w] = [at |-> "fetched", op |-> op, req |-> r, copy |-> reprint[r],
                         row |-> NewReprintRow]
        BY <4>1 DEF FetchReprint, ReprintTypeOK
      <4>3. clerk'[w].at = "fetched"
        BY <4>2
      <4>4. QED
        BY <4>3 DEF HoldsCard
    <3>3. CASE LoadReprintCard(w)
      BY <3>3 DEF LoadReprintCard, ReprintTypeOK
    <3>4. CASE DropReprint(w)
      BY <3>4 DEF DropReprint, HoldsCard, ReprintTypeOK
    <3>5. QED
      BY <1>2, <3>1, <3>2, <3>3, <3>4
  <2>4. QED
    BY <2>1, <2>2, <2>3, CopiesTaken DEF PrintsCounted
<1>3. ASSUME NEW w \in ReprintWorkers,
             ApproveReprint(w) \/ RejectReprint(w) \/ PrintReprint(w) \/ SaveWholeCard(w)
      PROVE  CopiesCurrent' /\ PrintsCounted'
  <2> DEFINE c == HeldCard(w)
             row == clerk[w].row
  <2>1. HoldsCard(w) /\ clerk' = [clerk EXCEPT ![w] = NoClerk]
    BY <1>3 DEF ApproveReprint, RejectReprint, PrintReprint, SaveWholeCard, Closed,
                ReprintLoaded, HoldsCard
  <2>2. /\ c \in ReprintCards /\ row \in ReprintRow /\ row = reprintCard[c]
        /\ row.reprints = printedRows[c] /\ row.prints = printedRows[c] + 1
    BY <2>1, ClerkParts DEF HoldsCard, HeldCard, CopiesCurrent, PrintsCounted
  <2>3. /\ \A d \in ReprintCards : d # c => reprintCard'[d] = reprintCard[d]
                                          /\ printedRows'[d] = printedRows[d]
        /\ \/ /\ printedRows'[c] = printedRows[c]
              /\ reprintCard'[c].reprints = row.reprints
              /\ reprintCard'[c].prints = row.prints
           \/ /\ printedRows'[c] = printedRows[c] + 1
              /\ reprintCard'[c].reprints = row.reprints + 1
              /\ reprintCard'[c].prints = row.prints + 1
    <3>1. CASE ApproveReprint(w)
      <4>1. /\ \/ reprintCard' = [reprintCard EXCEPT ![c] = Applied(row, clerk[w].req)]
               \/ reprintCard' = reprintCard
            /\ printedRows' = printedRows
        BY <3>1 DEF ApproveReprint, HeldCard
      <4>2. /\ Applied(row, clerk[w].req).reprints = row.reprints
            /\ Applied(row, clerk[w].req).prints = row.prints
        BY <2>2 DEF Applied, ReprintRow
      <4>3. QED
        BY <2>2, <4>1, <4>2 DEF ReprintTypeOK
    <3>2. CASE RejectReprint(w)
      BY <2>2, <3>2 DEF RejectReprint
    <3>3. CASE PrintReprint(w)
      <4>1. /\ reprintCard' = [reprintCard EXCEPT ![c] = Reprinted(row)]
            /\ printedRows' = [printedRows EXCEPT ![c] = printedRows[c] + 1]
        BY <3>3 DEF PrintReprint, HeldCard
      <4>2. /\ Reprinted(row).reprints = row.reprints + 1
            /\ Reprinted(row).prints = row.prints + 1
        BY <2>2 DEF Reprinted, ReprintRow
      <4>3. QED
        BY <2>2, <4>1, <4>2 DEF ReprintTypeOK
    <3>4. CASE SaveWholeCard(w)
      <4>1. PICK d \in BOOLEAN, drafts \in {{}, row.drafts} :
              reprintCard' = [reprintCard EXCEPT ![c] =
                                [row EXCEPT !.downloaded = d, !.drafts = drafts]]
        BY <3>4 DEF SaveWholeCard, HeldCard
      <4> DEFINE new == [row EXCEPT !.downloaded = d, !.drafts = drafts]
      <4>2. new.reprints = row.reprints /\ new.prints = row.prints
        BY <2>2 DEF ReprintRow
      <4>3. printedRows' = printedRows
        BY <3>4 DEF SaveWholeCard
      <4> HIDE DEF new
      <4>4. reprintCard' = [reprintCard EXCEPT ![c] = new]
        BY <4>1 DEF new
      <4>5. QED
        BY <2>2, <4>2, <4>3, <4>4 DEF ReprintTypeOK
    <3>5. QED
      BY <1>3, <3>1, <3>2, <3>3, <3>4
  <2>4. CopiesCurrent'
    <3>1. \A d \in ReprintCards : reprintCard'[d] = reprintCard[d] \/ d = HeldCard(w)
      BY <2>3
    <3>2. QED
      BY <2>1, <3>1, OthersStayCurrent
  <2>5. PrintsCounted'
    <3>1. \A d \in ReprintCards : printedRows[d] \in Nat
      BY ReprintAssumption DEF ReprintTypeOK
    <3> HIDE DEF c, row
    <3>2. QED
      BY <2>2, <2>3, <3>1 DEF PrintsCounted
  <2>6. QED
    BY <2>4, <2>5
<1>4. CASE UNCHANGED reprintVars
  BY <1>4 DEF reprintVars, CopiesCurrent, PrintsCounted, HoldsCard, HeldCard
<1>5. QED
  BY <1>1, <1>2, <1>3, <1>4 DEF ReprintNext

\* Undercounting is owed to overlaps alone: while no two processes hold copies
\* of one card, both of its counters are what the history says.
THEOREM PrintsCountedAlone == ReprintSpec /\ []OneHolder => []PrintsCounted
<1>1. ReprintInit => CopiesCurrent /\ PrintsCounted
  BY DEF ReprintInit, CopiesCurrent, PrintsCounted, HoldsCard, NewReprintRow
<1>2. /\ ReprintTypeOK /\ OneHolder /\ CopiesCurrent /\ PrintsCounted
      /\ [ReprintNext]_reprintVars
      => (CopiesCurrent /\ PrintsCounted)'
  BY CountStep
<1>3. QED
  BY <1>1, <1>2, ReprintTypeCorrect, PTL DEF ReprintSpec

(***************************************************************************)
(* The sandbox: the invariant.  A request that has touched the session     *)
(* holds its lock, so what it has read is still what the rows say; and a   *)
(* card that is not there has neither history nor answered edits.          *)
(***************************************************************************)

\* The history of a card is a chain to the status in its row.
RowSound(x) ==
  /\ \A i \in 2..Len(trail[x]) : trail[x][i].from = trail[x][i - 1].to
  /\ trail[x] # << >> =>
       overlay[x] \in Status /\ overlay[x] = trail[x][Len(trail[x])].to

\* What a request has read of a card, and what an edit has left there.
ReadSound(r, x) ==
  /\ call[r].op \in {"transition", "edit"} /\ Found(x)
  /\ call[r].op = "transition" /\ overlay[x] \in Status => call[r].from = overlay[x]
  /\ call[r].op = "edit" /\ x \notin SandboxCards => call[r].copy = changed[x]

EditSound(r, x) ==
  /\ x \in SandboxCards \/ overlay[x] # None
  /\ Found(x) => r \in changed[x]

CallSound(r) ==
  /\ call[r].at \in {"touched", "read"} => sessionLock = r
  /\ call[r].at = "read" => ReadSound(r, call[r].card)
  /\ call[r].at = "done" /\ call[r].op = "edit" => EditSound(r, call[r].card)

SandboxInv ==
  /\ SandboxTypeOK
  /\ \A x \in Overlaid : RowSound(x)
  /\ \A r \in SandboxCalls : CallSound(r)

CallState == {"new", "refused", "fetched", "touched", "read", "done", "failed"}

LEMMA TargetType == ASSUME NEW s, NEW a PROVE Target(s, a) \in Status \cup {None}
BY DEF Target, Status, Live

LEMMA StatusValues ==
  /\ None \notin Status /\ Gone \notin Status /\ Gone # None /\ "PENDING" \in Status
BY DEF None, Gone, Status, Live

LEMMA NoneIsNoCall == None \notin SandboxCalls
BY SandboxAssumption

LEMMA CallTypes ==
  ASSUME SandboxTypeOK, NEW r \in SandboxCalls
  PROVE  /\ call[r] \in Call /\ call[r].card \in Overlaid
         /\ call[r].to \in Status /\ call[r].from \in Status
         /\ call[r].copy \subseteq SandboxCalls
         /\ \A at \in CallState : [call[r] EXCEPT !.at = at] \in Call
<1>1. call[r] \in Call
  BY DEF SandboxTypeOK
<1>2. QED
  BY <1>1 DEF Call, CallState

\* The step of a request that changes nothing of it but where it is.
LEMMA CallMoves ==
  ASSUME SandboxTypeOK, NEW r \in SandboxCalls, NEW at \in CallState, CallGoes(r, at)
  PROVE  /\ call' \in [SandboxCalls -> Call]
         /\ call'[r].at = at /\ call'[r].op = call[r].op /\ call'[r].card = call[r].card
         /\ \A q \in SandboxCalls : q # r => call'[q] = call[q]
<1>1. call[r] \in Call /\ [call[r] EXCEPT !.at = at] \in Call
  BY CallTypes
<1>2. call' = [call EXCEPT ![r] = [call[r] EXCEPT !.at = at]]
  BY DEF CallGoes
<1>3. call'[r] = [call[r] EXCEPT !.at = at]
  BY <1>2 DEF SandboxTypeOK
<1>4. QED
  BY <1>1, <1>2, <1>3 DEF SandboxTypeOK, Call

LEMMA SandboxInitInv == SandboxInit => SandboxInv
<1> SUFFICES ASSUME SandboxInit PROVE SandboxInv
  OBVIOUS
<1>1. (CHOOSE c \in SandboxCards : TRUE) \in SandboxCards
  BY SandboxAssumption
<1>2. NewCall \in Call
  BY <1>1 DEF NewCall, Call, CallOp, Overlaid, Status, Live
<1>3. SandboxTypeOK
  <2>1. call \in [SandboxCalls -> Call]
    BY <1>2 DEF SandboxInit
  <2>2. << >> \in Seq(Step)
    OBVIOUS
  <2>3. QED
    BY <2>1, <2>2 DEF SandboxInit, SandboxTypeOK
<1>4. ASSUME NEW x \in Overlaid PROVE RowSound(x)
  <2>1. trail[x] = << >>
    BY DEF SandboxInit
  <2>2. Len(trail[x]) = 0
    BY <2>1
  <2>3. QED
    BY <2>1, <2>2 DEF RowSound
<1>5. ASSUME NEW r \in SandboxCalls PROVE CallSound(r)
  <2>1. call[r].at = "new"
    BY DEF SandboxInit, NewCall
  <2>2. QED
    BY <2>1 DEF CallSound
<1>6. QED
  BY <1>3, <1>4, <1>5 DEF SandboxInv

\* Types: one step per action.  Only a status has a key in the transition map, so
\* what a transition has read is one.
LEMMA SandboxTypeStep == SandboxInv /\ [SandboxNext]_sandboxVars => SandboxTypeOK'
<1> SUFFICES ASSUME SandboxInv, SandboxTypeOK, [SandboxNext]_sandboxVars
             PROVE  SandboxTypeOK'
  BY DEF SandboxInv
<1> USE DEF CallState
<1>1. ASSUME NEW r \in SandboxCalls, NEW at \in CallState, CallGoes(r, at)
      PROVE  call' \in [SandboxCalls -> Call]
  BY <1>1, CallMoves
<1>2. ASSUME NEW r \in SandboxCalls, NEW op \in CallOp, NEW x \in Overlaid,
             FetchSession(r, op, x)
      PROVE  SandboxTypeOK'
  <2> DEFINE at == IF sandbox = "expired" THEN "refused" ELSE "fetched"
             new == [call[r] EXCEPT !.op = op, !.card = x, !.at = at]
  <2>1. call[r] \in Call
    BY CallTypes
  <2>2. new \in Call
    BY <2>1 DEF Call
  <2>3. call' = [call EXCEPT ![r] = new]
    BY <1>2 DEF FetchSession
  <2> HIDE DEF new
  <2>4. call' \in [SandboxCalls -> Call]
    BY <2>2, <2>3 DEF SandboxTypeOK
  <2>5. QED
    BY <1>2, <2>4 DEF FetchSession, SandboxTypeOK
<1>3. ASSUME NEW r \in SandboxCalls, RefuseExpired(r) PROVE SandboxTypeOK'
  BY <1>1, <1>3 DEF RefuseExpired, SandboxTypeOK
<1>4. ASSUME NEW r \in SandboxCalls, TouchSession(r) PROVE SandboxTypeOK'
  BY <1>1, <1>4 DEF TouchSession, SandboxTypeOK
<1>5. ASSUME NEW r \in SandboxCalls, NEW a \in Action, ReadStatus(r, a)
      PROVE  SandboxTypeOK'
  <2> DEFINE old == ShownStatus(call[r].card)
             new == [call[r] EXCEPT !.at = "read", !.from = old, !.to = Target(old, a)]
  <2>1. call[r] \in Call /\ Target(old, a) # None /\ Found(call[r].card)
    BY <1>5, CallTypes DEF ReadStatus, Allowed
  <2>2. Target(old, a) \in Status
    BY <2>1, TargetType
  <2>3. old \in Status
    BY <2>2 DEF Target, Status, Live, None
  <2>4. new \in Call
    <3> HIDE DEF old
    <3>1. QED
      BY <2>1, <2>2, <2>3 DEF Call
  <2>5. call' = [call EXCEPT ![r] = new]
    BY <1>5 DEF ReadStatus
  <2> HIDE DEF new
  <2>6. call' \in [SandboxCalls -> Call]
    BY <2>4, <2>5 DEF SandboxTypeOK
  <2>7. QED
    BY <1>5, <2>6 DEF ReadStatus, SandboxTypeOK
<1>6. ASSUME NEW r \in SandboxCalls, ReadToEdit(r) PROVE SandboxTypeOK'
  <2> DEFINE new == [call[r] EXCEPT !.at = "read", !.copy = changed[call[r].card]]
  <2>1. call[r] \in Call /\ changed[call[r].card] \subseteq SandboxCalls
    BY CallTypes DEF SandboxTypeOK
  <2>2. new \in Call
    BY <2>1 DEF Call
  <2>3. call' = [call EXCEPT ![r] = new]
    BY <1>6 DEF ReadToEdit
  <2> HIDE DEF new
  <2>4. call' \in [SandboxCalls -> Call]
    BY <2>2, <2>3 DEF SandboxTypeOK
  <2>5. QED
    BY <1>6, <2>4 DEF ReadToEdit, SandboxTypeOK
<1>7. ASSUME NEW r \in SandboxCalls, NEW at \in CallState, CallEnds(r, at)
      PROVE  call' \in [SandboxCalls -> Call] /\ sessionLock' \in SandboxCalls \cup {None}
  BY <1>1, <1>7 DEF CallEnds, SandboxTypeOK
<1>8. ASSUME NEW r \in SandboxCalls, CommitTransition(r) PROVE SandboxTypeOK'
  <2> DEFINE step == [from |-> call[r].from, to |-> call[r].to]
  <2>p. PICK x \in Overlaid : x = call[r].card
    BY CallTypes
  <2>1. step \in Step /\ call[r].to \in Status
    BY CallTypes DEF Step
  <2>2. trail' = [trail EXCEPT ![x] = Append(trail[x], step)]
    BY <1>8, <2>p DEF CommitTransition
  <2> HIDE DEF step
  <2>3. trail[x] \in Seq(Step)
    BY DEF SandboxTypeOK
  <2>4. Append(trail[x], step) \in Seq(Step)
    BY <2>1, <2>3
  <2>5. trail' \in [Overlaid -> Seq(Step)]
    BY <2>2, <2>4 DEF SandboxTypeOK
  <2>6. QED
    BY <1>7, <1>8, <2>1, <2>5 DEF CommitTransition, SandboxTypeOK
<1>9. ASSUME NEW r \in SandboxCalls, CommitEdit(r) PROVE SandboxTypeOK'
  <2>1. changed' \in [Overlaid -> SUBSET SandboxCalls]
    BY <1>9, CallTypes DEF CommitEdit, SandboxTypeOK
  <2>2. QED
    BY <1>7, <1>9, <2>1 DEF CommitEdit, SandboxTypeOK
<1>10. ASSUME NEW r \in SandboxCalls, CreateInSession(r) PROVE SandboxTypeOK'
  BY <1>7, <1>10, StatusValues DEF CreateInSession, SandboxTypeOK
<1>11. ASSUME NEW r \in SandboxCalls, DeleteInSession(r) PROVE SandboxTypeOK'
  <2>p. PICK x \in Overlaid : x = call[r].card
    BY CallTypes
  <2>1. << >> \in Seq(Step)
    OBVIOUS
  <2>2. /\ overlay' = overlay \/ overlay' = [overlay EXCEPT ![x] = Gone]
        /\ changed' = changed \/ changed' = [changed EXCEPT ![x] = {}]
        /\ trail' = trail \/ trail' = [trail EXCEPT ![x] = << >>]
        /\ hidden' = hidden \/ (x \in SandboxCards /\ hidden' = hidden \cup {x})
        /\ CallEnds(r, "done") /\ UNCHANGED <<sandbox, production>>
    BY <1>11, <2>p DEF DeleteInSession
  <2>3. trail' \in [Overlaid -> Seq(Step)]
    BY <2>1, <2>2 DEF SandboxTypeOK
  <2>4. QED
    BY <1>7, <2>2, <2>3 DEF SandboxTypeOK
<1>12. ASSUME NEW r \in SandboxCalls, FailCall(r) PROVE SandboxTypeOK'
  BY <1>7, <1>12 DEF FailCall, SandboxTypeOK
<1>13. ASSUME ExpireSession \/ ResumeSession \/ DeactivateSession PROVE SandboxTypeOK'
  BY <1>13 DEF ExpireSession, ResumeSession, DeactivateSession, SandboxTypeOK
<1>14. ASSUME NEW x \in SandboxNew, ImportSandboxRow(x) PROVE SandboxTypeOK'
  BY <1>14, StatusValues DEF ImportSandboxRow, SandboxTypeOK
<1>15. ASSUME NEW c \in SandboxCards, NEW t \in Status, MoveProduction(c, t)
       PROVE  SandboxTypeOK'
  BY <1>15 DEF MoveProduction, SandboxTypeOK
<1>16. CASE UNCHANGED sandboxVars
  BY <1>16 DEF sandboxVars, SandboxTypeOK
<1>17. QED
  BY <1>2, <1>3, <1>4, <1>5, <1>6, <1>8, <1>9, <1>10, <1>11, <1>12, <1>13, <1>14,
     <1>15, <1>16
  DEF SandboxNext

\* A request is as sound as before if it, the row of its card and its lock stay.
LEMMA CallStays ==
  ASSUME NEW r \in SandboxCalls, CallSound(r), call'[r] = call[r],
         sessionLock = r => sessionLock' = r,
         overlay'[call[r].card] = overlay[call[r].card],
         changed'[call[r].card] = changed[call[r].card]
  PROVE  CallSound(r)'
BY DEF CallSound, ReadSound, EditSound, Found

\* While another request holds the lock, only an answered edit must stay sound.
LEMMA CallWaits ==
  ASSUME NEW r \in SandboxCalls, CallSound(r), call'[r] = call[r], sessionLock # r,
         EditSound(r, call[r].card) => EditSound(r, call[r].card)'
  PROVE  CallSound(r)'
BY DEF CallSound

LEMMA RowStays ==
  ASSUME NEW x \in Overlaid, RowSound(x), trail'[x] = trail[x],
         trail[x] # << >> => overlay'[x] = overlay[x]
  PROVE  RowSound(x)'
BY DEF RowSound

\* Steps that leave the rows alone keep them sound, and the other requests too
\* as long as the lock is not taken from them.
LEMMA RowsStay ==
  ASSUME SandboxInv, SandboxTypeOK', UNCHANGED <<overlay, changed, trail>>,
         NEW r \in SandboxCalls,
         \A q \in SandboxCalls : q # r => /\ call'[q] = call[q]
                                          /\ sessionLock = q => sessionLock' = q,
         CallSound(r)'
  PROVE  SandboxInv'
<1>1. ASSUME NEW x \in Overlaid PROVE RowSound(x)'
  BY RowStays DEF SandboxInv
<1>2. ASSUME NEW q \in SandboxCalls PROVE CallSound(q)'
  <2>1. CASE q = r
    BY <2>1
  <2>2. CASE q # r
    BY <2>2, CallStays DEF SandboxInv
  <2>3. QED
    BY <2>1, <2>2
<1>3. QED
  BY <1>1, <1>2 DEF SandboxInv

LEMMA SandboxInvStep == SandboxInv /\ [SandboxNext]_sandboxVars => SandboxInv'
<1> SUFFICES ASSUME SandboxInv, [SandboxNext]_sandboxVars PROVE SandboxInv'
  OBVIOUS
<1> USE DEF CallState
<1>0. SandboxTypeOK /\ SandboxTypeOK'
  BY SandboxTypeStep DEF SandboxInv
<1>1. ASSUME NEW r \in SandboxCalls, NEW op \in CallOp, NEW x \in Overlaid,
             FetchSession(r, op, x)
      PROVE  SandboxInv'
  <2>1. /\ call'[r].at \in {"refused", "fetched"}
        /\ \A q \in SandboxCalls : q # r => call'[q] = call[q]
    BY <1>0, <1>1, CallTypes DEF FetchSession, SandboxTypeOK, Call
  <2>2. CallSound(r)'
    BY <2>1 DEF CallSound
  <2>3. UNCHANGED <<overlay, changed, trail, sessionLock>>
    BY <1>1 DEF FetchSession
  <2>4. QED
    BY <1>0, <2>1, <2>2, <2>3, RowsStay
<1>2. ASSUME NEW r \in SandboxCalls, RefuseExpired(r) PROVE SandboxInv'
  <2>1. call'[r].at = "failed" /\ \A q \in SandboxCalls : q # r => call'[q] = call[q]
    BY <1>0, <1>2, CallMoves DEF RefuseExpired
  <2>2. CallSound(r)'
    BY <2>1 DEF CallSound
  <2>3. UNCHANGED <<overlay, changed, trail, sessionLock>>
    BY <1>2 DEF RefuseExpired
  <2>4. QED
    BY <1>0, <2>1, <2>2, <2>3, RowsStay
<1>3. ASSUME NEW r \in SandboxCalls, TouchSession(r) PROVE SandboxInv'
  <2>1. call'[r].at = "touched" /\ \A q \in SandboxCalls : q # r => call'[q] = call[q]
    BY <1>0, <1>3, CallMoves DEF TouchSession
  <2>2. UNCHANGED <<overlay, changed, trail>> /\ sessionLock = None /\ sessionLock' = r
    BY <1>3 DEF TouchSession, SessionFree
  <2>3. CallSound(r)'
    BY <2>1, <2>2 DEF CallSound
  <2>4. \A q \in SandboxCalls : sessionLock # q
    BY <2>2, NoneIsNoCall
  <2>5. QED
    BY <1>0, <2>1, <2>2, <2>3, <2>4, RowsStay
<1>4. ASSUME NEW r \in SandboxCalls, NEW a \in Action, ReadStatus(r, a)
      PROVE  SandboxInv'
  <2>p. PICK x \in Overlaid : x = call[r].card
    BY <1>0, CallTypes
  <2>1. /\ call'[r].at = "read" /\ call'[r].op = "transition" /\ call'[r].card = x
        /\ call'[r].from = ShownStatus(x)
        /\ \A q \in SandboxCalls : q # r => call'[q] = call[q]
    BY <1>0, <1>4, <2>p, CallTypes DEF ReadStatus, CallAt, SandboxTypeOK, Call
  <2>2. UNCHANGED <<overlay, changed, trail, sessionLock>> /\ Found(x)
    BY <1>4, <2>p DEF ReadStatus
  <2>3. sessionLock = r
    BY <1>4 DEF ReadStatus, CallAt, SandboxInv, CallSound
  <2>4. ReadSound(r, x)'
    BY <2>1, <2>2, StatusValues DEF ReadSound, ShownStatus, Found
  <2>5. CallSound(r)'
    BY <2>1, <2>2, <2>3, <2>4 DEF CallSound
  <2>6. QED
    BY <1>0, <2>1, <2>2, <2>5, RowsStay
<1>5. ASSUME NEW r \in SandboxCalls, ReadToEdit(r) PROVE SandboxInv'
  <2>p. PICK x \in Overlaid : x = call[r].card
    BY <1>0, CallTypes
  <2>1. /\ call'[r].at = "read" /\ call'[r].op = "edit" /\ call'[r].card = x
        /\ call'[r].copy = changed[x]
        /\ \A q \in SandboxCalls : q # r => call'[q] = call[q]
    BY <1>0, <1>5, <2>p, CallTypes DEF ReadToEdit, CallAt, SandboxTypeOK, Call
  <2>2. UNCHANGED <<overlay, changed, trail, sessionLock>> /\ Found(x)
    BY <1>5, <2>p DEF ReadToEdit
  <2>3. sessionLock = r
    BY <1>5 DEF ReadToEdit, CallAt, SandboxInv, CallSound
  <2>4. ReadSound(r, x)'
    BY <2>1, <2>2 DEF ReadSound, Found
  <2>5. CallSound(r)'
    BY <2>1, <2>2, <2>3, <2>4 DEF CallSound
  <2>6. QED
    BY <1>0, <2>1, <2>2, <2>5, RowsStay
\* What the holder of the lock may do to the row of its card.
<1>6. ASSUME NEW r \in SandboxCalls, NEW x \in Overlaid, x = call[r].card,
             call[r].at \in {"touched", "read"}, CallEnds(r, "done"),
             \A y \in Overlaid : y # x => /\ overlay'[y] = overlay[y]
                                          /\ changed'[y] = changed[y]
                                          /\ trail'[y] = trail[y],
             RowSound(x)',
             \A q \in SandboxCalls : EditSound(q, x) => EditSound(q, x)',
             call[r].op = "edit" => EditSound(r, x)'
      PROVE  SandboxInv'
  <2>1. /\ call'[r].at = "done" /\ call'[r].op = call[r].op /\ call'[r].card = x
        /\ \A q \in SandboxCalls : q # r => call'[q] = call[q]
    BY <1>0, <1>6, CallMoves DEF CallEnds
  <2>2. sessionLock = r
    BY <1>6 DEF SandboxInv, CallSound
  <2>3. ASSUME NEW y \in Overlaid PROVE RowSound(y)'
    <3>1. CASE y = x
      BY <3>1, <1>6
    <3>2. CASE y # x
      BY <3>2, <1>6, RowStays DEF SandboxInv
    <3>3. QED
      BY <3>1, <3>2
  <2>4. ASSUME NEW q \in SandboxCalls PROVE CallSound(q)'
    <3>1. CASE q = r
      BY <3>1, <1>6, <2>1 DEF CallSound
    <3>2. CASE q # r
      <4>p. PICK y \in Overlaid : y = call[q].card
        BY <1>0, CallTypes
      <4>1. EditSound(q, y) => EditSound(q, y)'
        <5>1. CASE y = x
          BY <5>1, <1>6
        <5>2. CASE y # x
          BY <5>2, <1>6 DEF EditSound, Found
        <5>3. QED
          BY <5>1, <5>2
      <4>2. CallSound(q) /\ call'[q] = call[q] /\ sessionLock # q
        BY <3>2, <2>1, <2>2 DEF SandboxInv
      <4>3. QED
        BY <4>p, <4>1, <4>2, CallWaits
    <3>3. QED
      BY <3>1, <3>2
  <2>5. QED
    BY <1>0, <2>3, <2>4 DEF SandboxInv
<1>7. ASSUME NEW r \in SandboxCalls, CommitTransition(r) PROVE SandboxInv'
  <2> DEFINE step == [from |-> call[r].from, to |-> call[r].to]
  <2>p. PICK x \in Overlaid : x = call[r].card
    BY <1>0, CallTypes
  <2>0. /\ call[r].at = "read" /\ call[r].op = "transition" /\ call[r].to \in Status
        /\ overlay' = [overlay EXCEPT ![x] = call[r].to] /\ changed' = changed
        /\ trail' = [trail EXCEPT ![x] = Append(trail[x], step)]
        /\ CallEnds(r, "done")
    BY <1>0, <1>7, <2>p, CallTypes DEF CommitTransition, CallAt
  <2>1. /\ overlay'[x] = call[r].to /\ trail'[x] = Append(trail[x], step)
        /\ \A y \in Overlaid : y # x => overlay'[y] = overlay[y] /\ trail'[y] = trail[y]
    BY <1>0, <2>0 DEF SandboxTypeOK
  <2>2. RowSound(x) /\ ReadSound(r, x) /\ trail[x] \in Seq(Step)
    BY <1>0, <2>0, <2>p DEF SandboxInv, CallSound, SandboxTypeOK
  <2>3. step.from = call[r].from /\ step.to = call[r].to /\ step \in Step
    BY <1>0, CallTypes DEF Step
  <2> HIDE DEF step
  <2>4. RowSound(x)'
    <3>p. PICK n \in Nat : n = Len(trail[x])
      BY <2>2
    <3>1. /\ Len(trail'[x]) = n + 1 /\ trail'[x][n + 1] = step
          /\ \A i \in 1..n : trail'[x][i] = trail[x][i]
      BY <2>1, <2>2, <2>3, <3>p
    <3>2. n # 0 => trail[x] # << >>
      BY <3>p
    <3>3. n # 0 => step.from = trail[x][n].to
      BY <2>0, <2>2, <2>3, <3>2, <3>p DEF RowSound, ReadSound
    <3>4. ASSUME NEW i \in 2..(n + 1) PROVE trail'[x][i].from = trail'[x][i - 1].to
      <4>1. CASE i = n + 1
        <5>1. n # 0 /\ i - 1 = n /\ n \in 1..n
          BY <4>1
        <5>2. QED
          BY <4>1, <5>1, <3>1, <3>3
      <4>2. CASE i # n + 1
        <5>1. i \in 2..n /\ i \in 1..n /\ i - 1 \in 1..n
          BY <4>2
        <5>2. trail[x][i].from = trail[x][i - 1].to
          BY <5>1, <2>2, <3>p DEF RowSound
        <5>3. QED
          BY <5>1, <5>2, <3>1
      <4>3. QED
        BY <4>1, <4>2
    <3>5. QED
      BY <2>0, <2>1, <2>3, <3>1, <3>4 DEF RowSound
  <2>5. \A q \in SandboxCalls : EditSound(q, x) => EditSound(q, x)'
    BY <2>0, <2>1, <2>2, StatusValues DEF EditSound, ReadSound, Found
  <2>6. QED
    BY <1>6, <2>p, <2>0, <2>1, <2>4, <2>5
<1>8. ASSUME NEW r \in SandboxCalls, CommitEdit(r) PROVE SandboxInv'
  <2>p. PICK x \in Overlaid : x = call[r].card
    BY <1>0, CallTypes
  <2>0. /\ call[r].at = "read" /\ call[r].op = "edit" /\ CallEnds(r, "done")
        /\ UNCHANGED <<overlay, trail>>
    BY <1>8 DEF CommitEdit, CallAt
  <2>1. RowSound(x) /\ ReadSound(r, x)
    BY <2>0, <2>p DEF SandboxInv, CallSound
  <2>2. changed' = [changed EXCEPT ![x] = changed[x] \cup {r}]
    BY <1>8, <2>0, <2>1, <2>p DEF CommitEdit, ReadSound
  <2>3. changed'[x] = changed[x] \cup {r} /\ \A y \in Overlaid : y # x => changed'[y] = changed[y]
    BY <1>0, <2>2 DEF SandboxTypeOK
  <2>4. RowSound(x)'
    BY <2>0, <2>1, RowStays
  <2>5. \A q \in SandboxCalls : EditSound(q, x) => EditSound(q, x)'
    BY <2>0, <2>3 DEF EditSound, Found
  <2>6. EditSound(r, x)'
    BY <2>0, <2>1, <2>3, StatusValues DEF EditSound, ReadSound, Found
  <2>7. QED
    BY <1>6, <2>p, <2>0, <2>3, <2>4, <2>5, <2>6
\* A row that comes into being has no history, and no edit was answered.
<1>9. ASSUME NEW x \in Overlaid, overlay[x] = None, overlay'[x] = "PENDING",
             UNCHANGED <<changed, trail>>
      PROVE  /\ RowSound(x)'
             /\ \A q \in SandboxCalls : EditSound(q, x) => EditSound(q, x)'
  <2>1. RowSound(x) /\ trail[x] = << >>
    BY <1>9, StatusValues DEF SandboxInv, RowSound
  <2>2. RowSound(x)'
    BY <1>9, <2>1, RowStays
  <2>3. QED
    BY <1>9, <2>2, StatusValues DEF EditSound, Found
<1>10. ASSUME NEW r \in SandboxCalls, CreateInSession(r) PROVE SandboxInv'
  <2>p. PICK x \in Overlaid : x = call[r].card
    BY <1>0, CallTypes
  <2>0. /\ call[r].at = "touched" /\ call[r].op = "create" /\ CallEnds(r, "done")
        /\ overlay[x] = None /\ overlay' = [overlay EXCEPT ![x] = "PENDING"]
        /\ UNCHANGED <<changed, trail>>
    BY <1>10, <2>p DEF CreateInSession, CallAt
  <2>1. overlay'[x] = "PENDING" /\ \A y \in Overlaid : y # x => overlay'[y] = overlay[y]
    BY <1>0, <2>0 DEF SandboxTypeOK
  <2>2. QED
    BY <1>6, <1>9, <2>p, <2>0, <2>1
<1>11. ASSUME NEW r \in SandboxCalls, DeleteInSession(r) PROVE SandboxInv'
  <2>p. PICK x \in Overlaid : x = call[r].card
    BY <1>0, CallTypes
  <2>0. call[r].at = "touched" /\ call[r].op = "delete" /\ CallEnds(r, "done")
    BY <1>11 DEF DeleteInSession, CallAt
  <2>1. CASE x \in SandboxCards
    <3>1. UNCHANGED <<overlay, changed, trail>>
      BY <1>11, <2>1, <2>p DEF DeleteInSession
    <3>2. RowSound(x)' /\ \A q \in SandboxCalls : EditSound(q, x) => EditSound(q, x)'
      BY <3>1, RowStays DEF SandboxInv, EditSound, Found
    <3>3. QED
      BY <1>6, <2>p, <2>0, <3>1, <3>2
  <2>2. CASE x \notin SandboxCards
    <3>1. /\ overlay' = [overlay EXCEPT ![x] = Gone]
          /\ changed' = [changed EXCEPT ![x] = {}]
          /\ trail' = [trail EXCEPT ![x] = << >>]
      BY <1>11, <2>2, <2>p DEF DeleteInSession
    <3>2. /\ overlay'[x] = Gone /\ trail'[x] = << >>
          /\ \A y \in Overlaid : y # x =>
               overlay'[y] = overlay[y] /\ changed'[y] = changed[y] /\ trail'[y] = trail[y]
      BY <1>0, <3>1 DEF SandboxTypeOK
    <3>3. RowSound(x)'
      <4>1. Len(trail'[x]) = 0
        BY <3>2
      <4>2. QED
        BY <3>2, <4>1 DEF RowSound
    <3>4. \A q \in SandboxCalls : EditSound(q, x)'
      BY <2>2, <3>2, StatusValues DEF EditSound, Found
    <3>5. QED
      BY <1>6, <2>p, <2>0, <3>2, <3>3, <3>4
  <2>3. QED
    BY <2>1, <2>2
<1>12. ASSUME NEW r \in SandboxCalls, FailCall(r) PROVE SandboxInv'
  <2>1. /\ call'[r].at = "failed" /\ \A q \in SandboxCalls : q # r => call'[q] = call[q]
    BY <1>0, <1>12, CallMoves DEF FailCall, CallEnds
  <2>2. /\ UNCHANGED <<overlay, changed, trail>>
        /\ \A q \in SandboxCalls : q # r => (sessionLock = q => sessionLock' = q)
    BY <1>12 DEF FailCall, CallEnds
  <2>3. CallSound(r)'
    BY <2>1 DEF CallSound
  <2>4. QED
    BY <1>0, <2>1, <2>2, <2>3, RowsStay
<1>13. ASSUME NEW x \in SandboxNew, ImportSandboxRow(x) PROVE SandboxInv'
  <2>0. /\ x \in Overlaid /\ x \notin SandboxCards
        /\ overlay[x] = None /\ overlay' = [overlay EXCEPT ![x] = "PENDING"]
        /\ UNCHANGED <<changed, trail, call, sessionLock>>
    BY <1>13, SandboxAssumption DEF ImportSandboxRow, Overlaid
  <2>1. overlay'[x] = "PENDING" /\ \A y \in Overlaid : y # x => overlay'[y] = overlay[y]
    BY <1>0, <2>0 DEF SandboxTypeOK
  <2>2. ASSUME NEW y \in Overlaid PROVE RowSound(y)'
    <3>1. CASE y = x
      BY <3>1, <1>9, <2>0, <2>1
    <3>2. CASE y # x
      BY <3>2, <2>0, <2>1, RowStays DEF SandboxInv
    <3>3. QED
      BY <3>1, <3>2
  <2>3. ASSUME NEW q \in SandboxCalls PROVE CallSound(q)'
    <3>p. PICK y \in Overlaid : y = call[q].card
      BY <1>0, CallTypes
    <3>1. CASE y = x
      <4>1. ~Found(x)
        BY <2>0, StatusValues DEF Found
      <4>2. call[q].at # "read"
        BY <3>p, <3>1, <4>1 DEF SandboxInv, CallSound, ReadSound
      <4>3. EditSound(q, x) => EditSound(q, x)'
        BY <1>9, <2>0, <2>1
      <4>4. QED
        BY <3>p, <3>1, <2>0, <4>2, <4>3 DEF SandboxInv, CallSound
    <3>2. CASE y # x
      BY <3>p, <3>2, <2>0, <2>1, CallStays DEF SandboxInv
    <3>3. QED
      BY <3>1, <3>2
  <2>4. QED
    BY <1>0, <2>2, <2>3 DEF SandboxInv
<1>14. ASSUME UNCHANGED <<overlay, changed, trail, call, sessionLock>> PROVE SandboxInv'
  <2>1. \A x \in Overlaid : RowSound(x)'
    BY <1>14 DEF SandboxInv, RowSound
  <2>2. \A r \in SandboxCalls : CallSound(r)'
    BY <1>14 DEF SandboxInv, CallSound, ReadSound, EditSound, Found
  <2>3. QED
    BY <1>0, <2>1, <2>2 DEF SandboxInv
<1>15. QED
  <2>1. ExpireSession \/ ResumeSession \/ DeactivateSession
          => UNCHANGED <<overlay, changed, trail, call, sessionLock>>
    BY DEF ExpireSession, ResumeSession, DeactivateSession
  <2>2. ASSUME NEW c \in SandboxCards, NEW t \in Status
        PROVE  MoveProduction(c, t) => UNCHANGED <<overlay, changed, trail, call, sessionLock>>
    BY DEF MoveProduction
  <2>3. UNCHANGED sandboxVars => UNCHANGED <<overlay, changed, trail, call, sessionLock>>
    BY DEF sandboxVars
  <2>4. QED
    BY <1>1, <1>2, <1>3, <1>4, <1>5, <1>7, <1>8, <1>10, <1>11, <1>12, <1>13, <1>14,
       <2>1, <2>2, <2>3
    DEF SandboxNext

\* Types of the sandbox.
THEOREM SandboxTypeCorrect == SandboxSpec => []SandboxTypeOK
<1>1. SandboxInv => SandboxTypeOK
  BY DEF SandboxInv
<1>2. QED
  BY <1>1, SandboxInitInv, SandboxInvStep, PTL DEF SandboxSpec

\* The operations of a sandbox session take effect one after the other, though
\* transition_card and edit_card write what they made of an earlier read: the
\* touch of the session at their start keeps them apart.
THEOREM SessionIsSerialAlways == SandboxSpec => []SessionIsSerial
<1>1. SandboxInv => SessionIsSerial
  <2> SUFFICES ASSUME SandboxInv PROVE HistoryConnects /\ EditsKept
    BY DEF SessionIsSerial
  <2>1. HistoryConnects
    <3>1. ASSUME NEW x \in Overlaid, trail[x] # << >>
          PROVE  ShownStatus(x) = trail[x][Len(trail[x])].to
      BY <3>1, StatusValues DEF SandboxInv, RowSound, ShownStatus
    <3>2. QED
      BY <3>1 DEF HistoryConnects, SandboxInv, RowSound
  <2>2. EditsKept
    BY DEF EditsKept, CallAt, SandboxInv, CallSound, EditSound
  <2>3. QED
    BY <2>1, <2>2
<1>2. QED
  BY <1>1, SandboxInitInv, SandboxInvStep, PTL DEF SandboxSpec

(***************************************************************************)
(* The modules together.  A step of the composition is a step of one of    *)
(* them and leaves the variables of the others alone, so what is proved of *)
(* each module holds of the composition.                                   *)
(***************************************************************************)

\* Every step is one of each module, or none of its variables moves.
LEMMA PipelinesStep ==
  [Next]_vars =>
    /\ [ExportNext]_exportVars /\ [ReprintNext]_reprintVars
    /\ [ImportNext]_importVars /\ [MediaNext]_mediaVars /\ [SandboxNext]_sandboxVars
BY DEF Next, vars

\* The run's composition does not bend the modules it is made of: each of them
\* sees a behaviour of its own.
LEMMA PipelinesCompose ==
  Spec => ExportSpec /\ ReprintSpec /\ ImportSpec /\ MediaSpec /\ SandboxSpec
<1>1. Init => ExportInit /\ ReprintInit /\ ImportInit /\ MediaInit /\ SandboxInit
  BY DEF Init
<1>2. QED
  BY <1>1, PipelinesStep, PTL
  DEF Spec, ExportSpec, ReprintSpec, ImportSpec, MediaSpec, SandboxSpec

\* Types of exports, reprints, imports, images and the sandbox together.
THEOREM PipelinesTypeCorrect == Spec => []TypeOK
<1>1. ExportTypeOK /\ ReprintTypeOK /\ ImportTypeOK /\ MediaTypeOK /\ SandboxTypeOK
      => TypeOK
  BY DEF TypeOK
<1>2. QED
  BY <1>1, PipelinesCompose, ExportTypeCorrect, ReprintTypeCorrect, ImportTypeCorrect,
     MediaTypeCorrect, SandboxTypeCorrect, PTL
=============================================================================
