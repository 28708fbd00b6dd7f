------------------------ MODULE CardLifecycleProofs ------------------------
(***************************************************************************)
(* Proofs about CardLifecycle, for any cards, workers, fields, values and  *)
(* bounds.                                                                 *)
(***************************************************************************)
EXTENDS CardLifecycle, TLAPS

(***************************************************************************)
(* The operators on rows keep rows rows.                                   *)
(***************************************************************************)

\* A status the transition map gives is a status.
LEMMA TargetType ==
  ASSUME NEW s, NEW a, Target(s, a) # None
  PROVE  Target(s, a) \in Status
BY DEF Target, Status, Live, None

\* The rows the code writes, by creation, edit, workflow step, soft deletion
\* and print, are rows.
LEMMA RowTypes ==
  /\ NoRow \in Row
  /\ \A d \in Data : NewRow(d) \in Row
  /\ \A d, patch \in Data : Merge(d, patch) \in Data
  /\ \A r \in Row : \A t \in Status : Moved(r, t) \in Row
  /\ \A r \in Row : SoftDeleted(r) \in Row
  /\ \A r \in Row : Printed(r) \in Row
<1>1. NoRow \in Row
  BY DEF NoRow, Row, Data, None
<1>2. \A d \in Data : NewRow(d) \in Row
  BY DEF NewRow, Row, Status, Live
<1>3. \A d, patch \in Data : Merge(d, patch) \in Data
  BY DEF Merge, Data
<1>4. ASSUME NEW r \in Row, NEW t \in Status PROVE Moved(r, t) \in Row
  <2> DEFINE b == IF t = "DELETED" THEN TRUE
                  ELSE IF r.status = "DELETED" THEN FALSE ELSE r.deleted
  <2>1. /\ r.version + 1 \in Nat /\ r.data \in Data /\ t \in Status \cup {None}
        /\ r.deleted \in BOOLEAN
    BY DEF Row
  <2>2. b \in BOOLEAN
    BY <2>1
  <2>3. Moved(r, t) = [status |-> t, version |-> r.version + 1, data |-> r.data,
                       deleted |-> b]
    BY DEF Moved
  <2> HIDE DEF b
  <2> QED
    BY <2>1, <2>2, <2>3 DEF Row
<1>5. ASSUME NEW r \in Row PROVE SoftDeleted(r) \in Row
  BY DEF SoftDeleted, Row, Status
<1>6. ASSUME NEW r \in Row PROVE Printed(r) \in Row
  <2>1. "DOWNLOADED" \in Status
    BY DEF Status, Live
  <2> QED
    BY <2>1 DEF Printed, Row
<1> QED
  BY <1>1, <1>2, <1>3, <1>4, <1>5, <1>6

\* What _enforce_unique_fields leaves for a card is a value or nothing for
\* each unique field.
LEMMA EnforcedType ==
  ASSUME TypeOK, NEW c \in Cards, NEW d \in Data
  PROVE  Enforced(c, d) \in [UniqueFields -> Values \cup {Absent}]
BY RowAssumption DEF Enforced, TypeOK, Data

\* The copies a query returns are rows.
LEMMA RowsType ==
  ASSUME TypeOK, NEW S \in SUBSET Cards
  PROVE  Rows(S) \in [Cards -> Row]
BY RowTypes DEF Rows, TypeOK

\* A worker without a request is well typed.
LEMMA IdleType == Idle \in Request
BY RowTypes DEF Idle, Request, NoCopy

\* The history of a card stays a sequence of entries.
LEMMA RecordedType ==
  ASSUME NEW h \in Seq(Entry), NEW s \in Status, NEW t \in Status
  PROVE  Recorded(h, s, t) \in Seq(Entry)
BY DEF Recorded, Entry

-----------------------------------------------------------------------------
(***************************************************************************)
(* Type correctness.                                                       *)
(***************************************************************************)

LEMMA InitType == Init => TypeOK
BY RowTypes, IdleType DEF Init, TypeOK

\* A request that ends leaves the requests well typed.
LEMMA EndType ==
  ASSUME TypeOK, NEW p \in Procs, req' = [req EXCEPT ![p] = Idle]
  PROVE  req' \in [Procs -> Request]
BY IdleType DEF TypeOK

LEMMA CreateType ==
  ASSUME TypeOK, NEW c \in Cards, Create(c)
  PROVE  TypeOK'
<1>1. PICK d \in Data : /\ card' = [card EXCEPT ![c] = NewRow(d)]
                        /\ unique' = [unique EXCEPT ![c] = Enforced(c, d)]
  BY DEF Create
<1>2. card' \in [Cards -> Row]
  BY <1>1, RowTypes DEF TypeOK
<1>3. unique' \in [Cards -> [UniqueFields -> Values \cup {Absent}]]
  BY <1>1, EnforcedType DEF TypeOK
<1> QED
  BY <1>2, <1>3 DEF TypeOK, Create, ghosts

LEMMA ImportType ==
  ASSUME TypeOK, NEW c \in Cards, Import(c)
  PROVE  TypeOK'
<1>1. PICK d \in Data :
        /\ card' = [card EXCEPT ![c] = NewRow(d)]
        /\ unique' = [unique EXCEPT ![c] = [f \in UniqueFields |->
             IF \E o \in Cards : d[f] \in Values /\ unique[o][f] = d[f] THEN Absent
             ELSE Enforced(c, d)[f]]]
        /\ unchecked' \in {unchecked, unchecked \cup {c}}
  BY DEF Import
<1>2. card' \in [Cards -> Row]
  BY <1>1, RowTypes DEF TypeOK
<1>3. unique' \in [Cards -> [UniqueFields -> Values \cup {Absent}]]
  BY <1>1, EnforcedType DEF TypeOK
<1>4. unchecked' \subseteq Cards
  BY <1>1 DEF TypeOK
<1> QED
  BY <1>2, <1>3, <1>4 DEF TypeOK, Import

LEMMA ReadCardsType ==
  ASSUME TypeOK, NEW p \in Procs, NEW S \in SUBSET Cards, ReadCards(p, S)
  PROVE  TypeOK'
<1>1. [Idle EXCEPT !.op = "update", !.phase = "read", !.cards = S,
                   !.seen = Rows(S)] \in Request
  BY IdleType, RowsType DEF Request
<1> QED
  BY <1>1 DEF TypeOK, ReadCards, ghosts

LEMMA FetchForUpdateType ==
  ASSUME TypeOK, NEW p \in Procs, FetchForUpdate(p)
  PROVE  TypeOK'
<1>1. req[p] \in Request /\ Rows(req[p].cards) \in [Cards -> Row]
  BY RowsType DEF TypeOK, Request
<1>2. [req[p] EXCEPT !.phase = "fetched", !.copy = Rows(req[p].cards)] \in Request
  BY <1>1 DEF Request
<1> QED
  BY <1>2 DEF TypeOK, FetchForUpdate, ghosts

LEMMA UpdateCardsType ==
  ASSUME TypeOK, NEW p \in Procs, UpdateCards(p)
  PROVE  TypeOK'
<1> DEFINE S == req[p].cards
           edit(c, patch) == Merge(req[p].copy[c].data, patch[c])
<1>1. PICK patch \in [S -> Data] :
        /\ card' = [c \in Cards |->
                      IF c \in S
                      THEN Edited(card[c], edit(c, patch), req[p].seen[c].version + 1)
                      ELSE card[c]]
        /\ unique' = [c \in Cards |->
                        IF c \in S THEN Enforced(c, edit(c, patch)) ELSE unique[c]]
  BY DEF UpdateCards
<1>2. \A c \in S : c \in Cards /\ req[p].copy[c] \in Row /\ req[p].seen[c] \in Row
  BY DEF TypeOK, Request
<1>3. \A c \in S : edit(c, patch) \in Data
  BY <1>2, RowTypes DEF Row
<1> HIDE DEF S, edit
<1>4. card' \in [Cards -> Row]
  BY <1>1, <1>2, <1>3 DEF TypeOK, Row, Edited
<1>5. unique' \in [Cards -> [UniqueFields -> Values \cup {Absent}]]
  BY <1>1, <1>2, <1>3, EnforcedType DEF TypeOK
<1>6. req' \in [Procs -> Request]
  BY EndType DEF UpdateCards
<1>7. unchecked' \subseteq Cards /\ touched' \in [Procs -> SUBSET Cards]
  BY DEF UpdateCards, TypeOK
<1> QED
  BY <1>4, <1>5, <1>6, <1>7 DEF TypeOK, UpdateCards

LEMMA FetchType ==
  ASSUME TypeOK, NEW p \in Procs, NEW S \in SUBSET Cards,
         NEW op \in Saver, Fetch(p, S, op)
  PROVE  TypeOK'
<1>1. Rows(S) \in [Cards -> Row]
  BY RowsType
<1>2. [Idle EXCEPT !.op = op, !.phase = "fetched", !.cards = S,
                   !.copy = Rows(S)] \in Request
  BY <1>1, IdleType DEF Request, Saver
<1> QED
  BY <1>2 DEF TypeOK, Fetch, ghosts

LEMMA MoveType ==
  ASSUME TypeOK, NEW p \in Procs, NEW a \in Action, Move(p, a)
  PROVE  TypeOK'
<1> DEFINE S == req[p].cards
           copy == req[p].copy
           to(c) == Target(copy[c].status, a)
<1>1. \A c \in S : c \in Cards /\ copy[c] \in Row /\ to(c) \in Status
  BY TargetType DEF Move, Allowed, TypeOK, Request
<1>2. \A c \in S : copy[c].status \in Status
  BY <1>1 DEF Move, Allowed, Target, Status, Live, None
<1>3. card' \in [Cards -> Row]
  <2>1. \A c \in S : Moved(copy[c], to(c)) \in Row
    BY <1>1, RowTypes
  <2> QED
    BY <2>1 DEF Move, TypeOK
<1>4. unique' \in [Cards -> [UniqueFields -> Values \cup {Absent}]]
  BY DEF Move, TypeOK, NoValues
<1>5. history' \in [Cards -> Seq(Entry)]
  <2>1. \A c \in S : Recorded(history[c], copy[c].status, to(c)) \in Seq(Entry)
    BY <1>1, <1>2, RecordedType DEF TypeOK
  <2> QED
    BY <2>1 DEF Move, TypeOK
<1>6. req' \in [Procs -> Request]
  BY EndType DEF Move
<1> QED
  BY <1>3, <1>4, <1>5, <1>6 DEF TypeOK, Move, ghosts

LEMMA RestoreType ==
  ASSUME TypeOK, NEW p \in Procs, Restore(p)
  PROVE  TypeOK'
<1> DEFINE S == req[p].cards
           copy == req[p].copy
<1>1. PICK t \in [S -> Status] :
        /\ card' = [c \in Cards |-> IF c \in S THEN Moved(copy[c], t[c]) ELSE card[c]]
        /\ history' = [c \in Cards |->
                         IF c \in S THEN Recorded(history[c], "DELETED", t[c])
                         ELSE history[c]]
  BY DEF Restore
<1>2. \A c \in S : c \in Cards /\ copy[c] \in Row /\ t[c] \in Status
  BY DEF TypeOK, Request
<1>3. card' \in [Cards -> Row]
  BY <1>1, <1>2, RowTypes DEF TypeOK
<1>4. history' \in [Cards -> Seq(Entry)]
  <2>1. \A c \in S : Recorded(history[c], "DELETED", t[c]) \in Seq(Entry)
    BY <1>2, RecordedType DEF TypeOK, Status
  <2> QED
    BY <1>1, <2>1 DEF TypeOK
<1>5. unique' \in [Cards -> [UniqueFields -> Values \cup {Absent}]]
  <2>1. \A c \in S : copy[c].data \in Data
    BY <1>2 DEF Row
  <2> QED
    BY <1>2, <2>1, EnforcedType DEF Restore, TypeOK
<1>6. req' \in [Procs -> Request]
  BY EndType DEF Restore
<1>7. unchecked' \subseteq Cards /\ touched' \in [Procs -> SUBSET Cards]
  BY DEF Restore, TypeOK
<1> QED
  BY <1>3, <1>4, <1>5, <1>6, <1>7 DEF TypeOK

LEMMA SoftDeleteType ==
  ASSUME TypeOK, NEW p \in Procs, SoftDelete(p)
  PROVE  TypeOK'
<1>1. card' \in [Cards -> Row]
  BY RowTypes DEF SoftDelete, TypeOK, Request
<1>2. req' \in [Procs -> Request]
  BY DEF SoftDelete, TypeOK, Request
<1> QED
  BY <1>1, <1>2 DEF SoftDelete, TypeOK, ghosts

LEMMA FreeValuesType ==
  ASSUME TypeOK, NEW p \in Procs, FreeValues(p)
  PROVE  TypeOK'
<1>1. unique' \in [Cards -> [UniqueFields -> Values \cup {Absent}]]
  BY DEF FreeValues, TypeOK, NoValues
<1>2. req' \in [Procs -> Request]
  BY EndType DEF FreeValues
<1> QED
  BY <1>1, <1>2 DEF FreeValues, TypeOK, ghosts

LEMMA SaveCopyType ==
  ASSUME TypeOK, NEW p \in Procs, SaveCopy(p)
  PROVE  TypeOK'
<1>1. PICK c \in req[p].cards, patch \in Data :
        /\ card' = [card EXCEPT ![c] = Saved(req[p].copy[c], patch)]
        /\ unchecked' \in {unchecked, unchecked \cup {c}}
        /\ touched' = [q \in Procs |-> IF req[q].op = "update" /\ c \in req[q].cards
                                       THEN touched[q] \cup {c} ELSE touched[q]]
  BY DEF SaveCopy
<1>2. c \in Cards /\ req[p].copy[c] \in Row
  BY DEF TypeOK, Request
<1>3. Saved(req[p].copy[c], patch) \in Row
  <2>1. Merge(req[p].copy[c].data, patch) \in Data
    BY <1>2, RowTypes DEF Row
  <2> QED
    BY <1>2, <2>1 DEF Saved, Row
<1>4. card' \in [Cards -> Row]
  BY <1>1, <1>2, <1>3 DEF TypeOK
<1>5. unchecked' \subseteq Cards /\ touched' \in [Procs -> SUBSET Cards]
  BY <1>1, <1>2 DEF TypeOK
<1>6. req' \in [Procs -> Request]
  BY EndType DEF SaveCopy
<1> QED
  BY <1>4, <1>5, <1>6 DEF SaveCopy, TypeOK

LEMMA RequestPrintType ==
  ASSUME TypeOK, NEW S \in SUBSET Cards, RequestPrint(S)
  PROVE  TypeOK'
<1> DEFINE printed == {c \in S : Printable(card[c])}
<1>1. card' \in [Cards -> Row]
  BY RowTypes DEF RequestPrint, TypeOK
<1>2. history' \in [Cards -> Seq(Entry)]
  <2>1. \A c \in printed :
          Recorded(history[c], card[c].status, "DOWNLOADED") \in Seq(Entry)
    BY RecordedType DEF TypeOK, Printable, Status, Live
  <2> QED
    BY <2>1 DEF RequestPrint, TypeOK
<1> QED
  BY <1>1, <1>2 DEF RequestPrint, TypeOK, ghosts

\* Every step keeps the tables and the requests well typed.
LEMMA NextType == TypeOK /\ [Next]_vars => TypeOK'
<1> SUFFICES ASSUME TypeOK, [Next]_vars PROVE TypeOK'
  OBVIOUS
<1>1. CASE \E c \in Cards : Create(c) \/ Import(c)
  BY <1>1, CreateType, ImportType
<1>2. CASE \E S \in SUBSET Cards : RequestPrint(S)
  BY <1>2, RequestPrintType
<1>3. ASSUME NEW p \in Procs, Serve(p) PROVE TypeOK'
  <2>1. CASE Fail(p)
    <3>1. req' \in [Procs -> Request]
      BY <2>1, EndType DEF Fail
    <3> QED
      BY <2>1, <3>1 DEF Fail, TypeOK
  <2> QED
    BY <1>3, <2>1, ReadCardsType, FetchForUpdateType, UpdateCardsType, FetchType,
       MoveType, RestoreType, SoftDeleteType, FreeValuesType, SaveCopyType
       DEF Serve
<1>4. CASE UNCHANGED vars
  BY <1>4 DEF vars, ghosts, TypeOK
<1> QED
  BY <1>1, <1>2, <1>3, <1>4 DEF Next

\* The tables and the requests of the card service are always well typed.
THEOREM TypeCorrect == Spec => []TypeOK
BY InitType, NextType, PTL DEF Spec
-----------------------------------------------------------------------------
(***************************************************************************)
(* Printed cards were approved, whatever overlaps.                         *)
(***************************************************************************)

\* An entry recorded last leaves the entries before it where they are.
LEMMA RecordedEntries ==
  ASSUME NEW h \in Seq(Entry), NEW s \in Status, NEW t \in Status
  PROVE  LET r == Recorded(h, s, t)
         IN /\ r # <<>>
            /\ Len(r) = Len(h) + 1
            /\ r[Len(r)] = [old |-> s, new |-> t]
            /\ \A i \in DOMAIN h : i \in DOMAIN r /\ r[i] = h[i]
            /\ \A i \in DOMAIN r : \/ i = Len(r)
                                  \/ i \in DOMAIN h
<1>1. [old |-> s, new |-> t] \in Entry
  BY DEF Entry
<1> QED
  BY <1>1 DEF Recorded

\* What a transition, restore or print makes of a card's history.
Grows(c) == \/ history'[c] = history[c]
            \/ \E s, t \in Status : history'[c] = Recorded(history[c], s, t)

\* A history that grows keeps the approvals it holds.
LEMMA ApprovalKept ==
  ASSUME TypeOK, NEW c \in Cards, Grows(c), ApprovedBefore(c)
  PROVE  ApprovedBefore(c)'
<1>1. CASE history'[c] = history[c]
  BY <1>1 DEF ApprovedBefore
<1>2. ASSUME NEW s \in Status, NEW t \in Status,
             history'[c] = Recorded(history[c], s, t)
      PROVE  ApprovedBefore(c)'
  <2>1. PICK i \in DOMAIN history[c] : history[c][i] = Approval
    BY DEF ApprovedBefore
  <2>2. history[c] \in Seq(Entry)
    BY DEF TypeOK
  <2>3. \A j \in DOMAIN history[c] :
          /\ j \in DOMAIN Recorded(history[c], s, t)
          /\ Recorded(history[c], s, t)[j] = history[c][j]
    BY <2>2, RecordedEntries
  <2>4. i \in DOMAIN history'[c] /\ history'[c][i] = Approval
    BY <1>2, <2>1, <2>3
  <2> QED
    BY <2>4 DEF ApprovedBefore, Approval
<1> QED
  BY <1>1, <1>2 DEF Grows

\* The invariant is preserved for a card whose history grows by an entry that
\* explains the new row, when the copies the step makes are of current rows.
LEMMA ApprovalStep ==
  ASSUME TypeOK, ApprovalInvariant, NEW c \in Cards,
         \/ history'[c] = history[c]
         \/ \E s, t \in Status :
              /\ history'[c] = Recorded(history[c], s, t)
              /\ s \in PastApproval => ApprovedBefore(c),
         card'[c].status \in PastApproval => ApprovedBefore(c)',
         \A p \in Procs : \/ req'[p].copy[c].status = req[p].copy[c].status
                          \/ req'[p].copy[c].status = card[c].status
                          \/ req'[p].copy[c].status = None
  PROVE  /\ card'[c].status \in PastApproval => ApprovedBefore(c)'
         /\ \A p \in Procs : req'[p].copy[c].status \in PastApproval
                              => ApprovedBefore(c)'
         /\ \A i \in DOMAIN history'[c] :
              history'[c][i].old \in PastApproval => ApprovedBefore(c)'
<1>1. ApprovedBefore(c) => ApprovedBefore(c)'
  BY ApprovalKept DEF Grows
<1>2. ASSUME NEW p \in Procs, req'[p].copy[c].status \in PastApproval
      PROVE  ApprovedBefore(c)'
  BY <1>1, <1>2 DEF ApprovalInvariant, PastApproval, None
<1>3. ASSUME NEW i \in DOMAIN history'[c], history'[c][i].old \in PastApproval
      PROVE  ApprovedBefore(c)'
  <2>1. CASE history'[c] = history[c]
    BY <1>1, <1>3, <2>1 DEF ApprovalInvariant
  <2>2. ASSUME NEW s \in Status, NEW t \in Status,
               history'[c] = Recorded(history[c], s, t),
               s \in PastApproval => ApprovedBefore(c)
        PROVE  ApprovedBefore(c)'
    <3>1. history[c] \in Seq(Entry)
      BY DEF TypeOK
    <3>2. /\ history'[c][Len(history'[c])] = [old |-> s, new |-> t]
          /\ \A j \in DOMAIN history[c] : history'[c][j] = history[c][j]
          /\ \A j \in DOMAIN history'[c] : \/ j = Len(history'[c])
                                          \/ j \in DOMAIN history[c]
      BY <2>2, <3>1, RecordedEntries
    <3>3. CASE i = Len(history'[c])
      <4>1. history'[c][i].old = s
        BY <3>2, <3>3
      <4> QED
        BY <1>1, <1>3, <2>2, <4>1
    <3>4. CASE i # Len(history'[c])
      <4>1. i \in DOMAIN history[c] /\ history'[c][i] = history[c][i]
        BY <1>3, <3>2, <3>4
      <4> QED
        BY <1>1, <1>3, <4>1 DEF ApprovalInvariant
    <3> QED
      BY <3>3, <3>4
  <2> QED
    BY <2>1, <2>2
<1> QED
  BY <1>2, <1>3

LEMMA InitApproval == Init => ApprovalInvariant
BY DEF Init, ApprovalInvariant, NoRow, Idle, NoCopy, None, PastApproval

\* A request that ends, or starts from a fresh query, holds no copy but of a
\* current row.
LEMMA CopyOrigin ==
  ASSUME TypeOK, NEW c \in Cards, NEW q \in Procs, NEW S \in SUBSET Cards,
         \/ req' = req
         \/ \E p \in Procs : req' = [req EXCEPT ![p] = Idle]
         \/ \E p \in Procs : req' = [req EXCEPT ![p].phase = "deleted"]
         \/ \E p \in Procs, r \in Request :
              req' = [req EXCEPT ![p] = r] /\ r.copy \in {NoCopy, Rows(S)}
  PROVE  \/ req'[q].copy[c].status = req[q].copy[c].status
         \/ req'[q].copy[c].status = card[c].status
         \/ req'[q].copy[c].status = None
<1>1. NoCopy[c].status = None /\ Idle.copy = NoCopy
  BY DEF NoCopy, NoRow, Idle
<1>2. Rows(S)[c] = card[c] \/ Rows(S)[c] = NoRow
  BY DEF Rows
<1>3. NoRow.status = None
  BY DEF NoRow
<1>4. CASE req' = req
  BY <1>4
<1>5. ASSUME NEW p \in Procs, req' = [req EXCEPT ![p] = Idle]
      PROVE  req'[q].copy = req[q].copy \/ req'[q].copy = NoCopy
  BY <1>1, <1>5 DEF TypeOK
<1>6. ASSUME NEW p \in Procs, req' = [req EXCEPT ![p].phase = "deleted"]
      PROVE  req'[q].copy = req[q].copy
  BY <1>6 DEF TypeOK, Request
<1>7. ASSUME NEW p \in Procs, NEW r \in Request,
             req' = [req EXCEPT ![p] = r], r.copy \in {NoCopy, Rows(S)}
      PROVE  req'[q].copy \in {req[q].copy, NoCopy, Rows(S)}
  BY <1>7 DEF TypeOK
<1> QED
  BY <1>1, <1>2, <1>3, <1>4, <1>5, <1>6, <1>7

LEMMA MoveApproval ==
  ASSUME TypeOK, ApprovalInvariant, NEW p \in Procs, NEW a \in Action, Move(p, a)
  PROVE  ApprovalInvariant'
<1> SUFFICES ASSUME NEW c \in Cards
             PROVE  /\ card'[c].status \in PastApproval => ApprovedBefore(c)'
                    /\ \A q \in Procs : req'[q].copy[c].status \in PastApproval
                                         => ApprovedBefore(c)'
                    /\ \A i \in DOMAIN history'[c] :
                         history'[c][i].old \in PastApproval => ApprovedBefore(c)'
  BY DEF ApprovalInvariant
<1> DEFINE S == req[p].cards
           s == req[p].copy[c].status
           t == Target(s, a)
<1>1. \A q \in Procs : \/ req'[q].copy[c].status = req[q].copy[c].status
                       \/ req'[q].copy[c].status = card[c].status
                       \/ req'[q].copy[c].status = None
  BY CopyOrigin DEF Move
<1>2. CASE c \notin S
  <2>1. card'[c] = card[c] /\ history'[c] = history[c]
    BY <1>2 DEF Move
  <2>2. card'[c].status \in PastApproval => ApprovedBefore(c)'
    BY <2>1 DEF ApprovalInvariant, ApprovedBefore
  <2> QED
    BY <1>1, <2>1, <2>2, ApprovalStep
<1>3. CASE c \in S
  <2>1. /\ card'[c] = Moved(req[p].copy[c], t)
        /\ history'[c] = Recorded(history[c], s, t)
        /\ Target(s, a) # None
    BY <1>3 DEF Move, Allowed
  <2>2. card'[c].status = t
    BY <2>1 DEF Moved
  <2>3. s \in Status /\ t \in Status
    BY <2>1, TargetType DEF Target, Status, Live, None
  <2>4. s \in PastApproval => ApprovedBefore(c)
    BY DEF ApprovalInvariant
  <2>5. ASSUME t \in PastApproval PROVE ApprovedBefore(c)'
    <3>1. history[c] \in Seq(Entry)
      BY DEF TypeOK
    <3>2. CASE t = "APPROVED"
      <4>1. s = "VERIFIED"
        BY <2>1, <3>2 DEF Target, None
      <4>2. /\ history'[c] # <<>>
            /\ history'[c][Len(history'[c])] = Approval
        BY <2>1, <2>3, <3>1, <3>2, <4>1, RecordedEntries DEF Approval
      <4>3. history'[c] \in Seq(Entry)
        BY MoveType DEF TypeOK
      <4>4. Len(history'[c]) \in DOMAIN history'[c]
        BY <4>2, <4>3
      <4> QED
        BY <4>2, <4>4 DEF ApprovedBefore, Approval
    <3>3. CASE t = "DOWNLOADED"
      <4>1. s = "APPROVED"
        BY <2>1, <3>3 DEF Target, None
      <4> QED
        BY <2>1, <2>3, <2>4, <4>1, ApprovalKept DEF PastApproval, Grows
    <3> QED
      BY <2>5, <3>2, <3>3 DEF PastApproval
  <2> HIDE DEF s, t
  <2> QED
    BY <1>1, <2>1, <2>2, <2>3, <2>4, <2>5, ApprovalStep
<1> QED
  BY <1>2, <1>3

LEMMA RestoreApproval ==
  ASSUME TypeOK, ApprovalInvariant, NEW p \in Procs, Restore(p)
  PROVE  ApprovalInvariant'
<1> SUFFICES ASSUME NEW c \in Cards
             PROVE  /\ card'[c].status \in PastApproval => ApprovedBefore(c)'
                    /\ \A q \in Procs : req'[q].copy[c].status \in PastApproval
                                         => ApprovedBefore(c)'
                    /\ \A i \in DOMAIN history'[c] :
                         history'[c][i].old \in PastApproval => ApprovedBefore(c)'
  BY DEF ApprovalInvariant
<1> DEFINE S == req[p].cards
<1>1. \A q \in Procs : \/ req'[q].copy[c].status = req[q].copy[c].status
                       \/ req'[q].copy[c].status = card[c].status
                       \/ req'[q].copy[c].status = None
  BY CopyOrigin DEF Restore
<1>2. PICK to \in [S -> Status] :
        /\ \A d \in S : RestoresTo(d, to[d])
        /\ card' = [d \in Cards |->
                       IF d \in S THEN Moved(req[p].copy[d], to[d]) ELSE card[d]]
        /\ history' = [d \in Cards |->
                         IF d \in S THEN Recorded(history[d], "DELETED", to[d])
                         ELSE history[d]]
  BY DEF Restore
<1>3. CASE c \notin S
  <2>1. card'[c] = card[c] /\ history'[c] = history[c]
    BY <1>2, <1>3
  <2>2. card'[c].status \in PastApproval => ApprovedBefore(c)'
    BY <2>1 DEF ApprovalInvariant, ApprovedBefore
  <2> QED
    BY <1>1, <2>1, <2>2, ApprovalStep
<1>4. CASE c \in S
  <2>1. /\ card'[c].status = to[c]
        /\ history'[c] = Recorded(history[c], "DELETED", to[c])
        /\ to[c] \in Status /\ "DELETED" \in Status
    BY <1>2, <1>4 DEF Moved, Status
  <2>2. to[c] \in PastApproval => ApprovedBefore(c)
    BY <1>2, <1>4 DEF RestoresTo, ApprovalInvariant, PastApproval
  <2>3. to[c] \in PastApproval => ApprovedBefore(c)'
    BY <2>1, <2>2, ApprovalKept DEF Grows
  <2> QED
    BY <1>1, <2>1, <2>3, ApprovalStep DEF PastApproval
<1> QED
  BY <1>3, <1>4

LEMMA RequestPrintApproval ==
  ASSUME TypeOK, ApprovalInvariant, NEW S \in SUBSET Cards, RequestPrint(S)
  PROVE  ApprovalInvariant'
<1> SUFFICES ASSUME NEW c \in Cards
             PROVE  /\ card'[c].status \in PastApproval => ApprovedBefore(c)'
                    /\ \A q \in Procs : req'[q].copy[c].status \in PastApproval
                                         => ApprovedBefore(c)'
                    /\ \A i \in DOMAIN history'[c] :
                         history'[c][i].old \in PastApproval => ApprovedBefore(c)'
  BY DEF ApprovalInvariant
<1>1. req' = req
  BY DEF RequestPrint
<1>2. CASE ~(c \in S /\ Printable(card[c]))
  <2>1. card'[c] = card[c] /\ history'[c] = history[c]
    BY <1>2 DEF RequestPrint
  <2>2. card'[c].status \in PastApproval => ApprovedBefore(c)'
    BY <2>1 DEF ApprovalInvariant, ApprovedBefore
  <2> QED
    BY <1>1, <2>1, <2>2, ApprovalStep
<1>3. CASE c \in S /\ Printable(card[c])
  <2>1. /\ card[c].status = "APPROVED"
        /\ history'[c] = Recorded(history[c], "APPROVED", "DOWNLOADED")
        /\ "APPROVED" \in Status /\ "DOWNLOADED" \in Status
    BY <1>3 DEF RequestPrint, Printable, Status, Live
  <2>2. ApprovedBefore(c)
    BY <2>1 DEF ApprovalInvariant, PastApproval
  <2>3. ApprovedBefore(c)'
    BY <2>1, <2>2, ApprovalKept DEF Grows
  <2> QED
    BY <1>1, <2>1, <2>2, <2>3, ApprovalStep
<1> QED
  BY <1>2, <1>3

\* The steps that record nothing: what they write is no more approved than
\* what was there.
LEMMA OtherApproval ==
  ASSUME TypeOK, ApprovalInvariant, history' = history,
         \A c \in Cards : \/ card'[c].status = card[c].status
                          \/ card'[c].status \notin PastApproval
                          \/ \E p \in Procs : card'[c].status = req[p].copy[c].status,
         \A c \in Cards, p \in Procs :
           \/ req'[p].copy[c].status = req[p].copy[c].status
           \/ req'[p].copy[c].status = card[c].status
           \/ req'[p].copy[c].status = None
  PROVE  ApprovalInvariant'
<1> SUFFICES ASSUME NEW c \in Cards
             PROVE  /\ card'[c].status \in PastApproval => ApprovedBefore(c)'
                    /\ \A q \in Procs : req'[q].copy[c].status \in PastApproval
                                         => ApprovedBefore(c)'
                    /\ \A i \in DOMAIN history'[c] :
                         history'[c][i].old \in PastApproval => ApprovedBefore(c)'
  BY DEF ApprovalInvariant
<1>1. history'[c] = history[c]
  OBVIOUS
<1>2. card'[c].status \in PastApproval => ApprovedBefore(c)'
  BY <1>1 DEF ApprovalInvariant, ApprovedBefore
<1> QED
  BY <1>1, <1>2, ApprovalStep

\* Every step preserves the approval invariant.
LEMMA NextApproval == TypeOK /\ ApprovalInvariant /\ [Next]_vars => ApprovalInvariant'
<1> SUFFICES ASSUME TypeOK, ApprovalInvariant, [Next]_vars
             PROVE  ApprovalInvariant'
  OBVIOUS
<1>1. ASSUME NEW c \in Cards, Create(c) \/ Import(c) PROVE ApprovalInvariant'
  <2>1. req' = req /\ history' = history
    BY <1>1 DEF Create, Import
  <2>2. \A d \in Cards : \/ card'[d].status = card[d].status
                        \/ card'[d].status \notin PastApproval
    <3>1. PICK d \in Data : card' = [card EXCEPT ![c] = NewRow(d)]
      BY <1>1 DEF Create, Import
    <3> QED
      BY <3>1 DEF NewRow, PastApproval, TypeOK
  <2> QED
    BY <2>1, <2>2, OtherApproval
<1>2. ASSUME NEW S \in SUBSET Cards, RequestPrint(S) PROVE ApprovalInvariant'
  BY <1>2, RequestPrintApproval
<1>3. ASSUME NEW p \in Procs, Serve(p) PROVE ApprovalInvariant'
  <2>1. ASSUME NEW S \in SUBSET Cards, ReadCards(p, S) PROVE ApprovalInvariant'
    <3>1. card' = card /\ history' = history
      BY <2>1 DEF ReadCards
    <3>2. req' = [req EXCEPT ![p] = [Idle EXCEPT !.op = "update", !.phase = "read",
                                       !.cards = S, !.seen = Rows(S)]]
      BY <2>1 DEF ReadCards
    <3>3. \A q \in Procs : req'[q].copy \in {req[q].copy, NoCopy}
      BY <3>2 DEF TypeOK, Idle
    <3>4. \A d \in Cards : NoCopy[d].status = None
      BY DEF NoCopy, NoRow
    <3> QED
      BY <3>1, <3>3, <3>4, OtherApproval
  <2>2. ASSUME FetchForUpdate(p) PROVE ApprovalInvariant'
    <3>1. card' = card /\ history' = history
      BY <2>2 DEF FetchForUpdate
    <3>2. req' = [req EXCEPT ![p].phase = "fetched", ![p].copy = Rows(req[p].cards)]
      BY <2>2 DEF FetchForUpdate
    <3>3. \A q \in Procs : req'[q].copy \in {req[q].copy, Rows(req[p].cards)}
      <4>1. req[p] \in Request
        BY DEF TypeOK
      <4>2. req'[p].copy = Rows(req[p].cards)
        BY <3>2, <4>1 DEF TypeOK, Request
      <4>3. \A q \in Procs : q # p => req'[q] = req[q]
        BY <3>2 DEF TypeOK
      <4> QED
        BY <4>2, <4>3
    <3>4. \A d \in Cards : Rows(req[p].cards)[d].status \in {card[d].status, None}
      BY DEF Rows, NoRow
    <3> QED
      BY <3>1, <3>3, <3>4, OtherApproval
  <2>3. ASSUME UpdateCards(p) PROVE ApprovalInvariant'
    <3>1. history' = history /\ req' = [req EXCEPT ![p] = Idle]
      BY <2>3 DEF UpdateCards
    <3>2. \A d \in Cards : card'[d].status = card[d].status
      BY <2>3 DEF UpdateCards, Edited, TypeOK
    <3>3. \A d \in Cards, q \in Procs :
            \/ req'[q].copy[d].status = req[q].copy[d].status
            \/ req'[q].copy[d].status = card[d].status
            \/ req'[q].copy[d].status = None
      BY <3>1, CopyOrigin
    <3> QED
      BY <3>1, <3>2, <3>3, OtherApproval
  <2>4. ASSUME NEW S \in SUBSET Cards, NEW op \in Saver, Fetch(p, S, op)
        PROVE  ApprovalInvariant'
    <3>1. card' = card /\ history' = history
      BY <2>4 DEF Fetch
    <3>2. req' = [req EXCEPT ![p] = [Idle EXCEPT !.op = op, !.phase = "fetched",
                                       !.cards = S, !.copy = Rows(S)]]
      BY <2>4 DEF Fetch
    <3>3. \A q \in Procs : req'[q].copy \in {req[q].copy, Rows(S)}
      BY <3>2 DEF TypeOK, Idle
    <3>4. \A d \in Cards : Rows(S)[d].status \in {card[d].status, None}
      BY DEF Rows, NoRow
    <3> QED
      BY <3>1, <3>3, <3>4, OtherApproval
  <2>5. ASSUME NEW a \in Action, Move(p, a) PROVE ApprovalInvariant'
    BY <2>5, MoveApproval
  <2>6. ASSUME Restore(p) PROVE ApprovalInvariant'
    BY <2>6, RestoreApproval
  <2>7. ASSUME SoftDelete(p) PROVE ApprovalInvariant'
    <3>1. history' = history /\ req' = [req EXCEPT ![p].phase = "deleted"]
      BY <2>7 DEF SoftDelete
    <3>2. \A d \in Cards : \/ card'[d].status = card[d].status
                          \/ card'[d].status \notin PastApproval
      BY <2>7 DEF SoftDelete, SoftDeleted, PastApproval, TypeOK, Request, Row
    <3>3. \A d \in Cards, q \in Procs :
            \/ req'[q].copy[d].status = req[q].copy[d].status
            \/ req'[q].copy[d].status = card[d].status
            \/ req'[q].copy[d].status = None
      BY <3>1, CopyOrigin
    <3> QED
      BY <3>1, <3>2, <3>3, OtherApproval
  <2>8. ASSUME FreeValues(p) \/ Fail(p) PROVE ApprovalInvariant'
    <3>1. card' = card /\ history' = history /\ req' = [req EXCEPT ![p] = Idle]
      BY <2>8 DEF FreeValues, Fail
    <3>2. \A d \in Cards, q \in Procs :
            \/ req'[q].copy[d].status = req[q].copy[d].status
            \/ req'[q].copy[d].status = card[d].status
            \/ req'[q].copy[d].status = None
      BY <3>1, CopyOrigin
    <3> QED
      BY <3>1, <3>2, OtherApproval
  <2>9. ASSUME SaveCopy(p) PROVE ApprovalInvariant'
    <3>1. history' = history /\ req' = [req EXCEPT ![p] = Idle]
      BY <2>9 DEF SaveCopy
    <3>2. \A d \in Cards : \/ card'[d].status = card[d].status
                          \/ card'[d].status = req[p].copy[d].status
      BY <2>9 DEF SaveCopy, Saved, TypeOK
    <3>3. \A d \in Cards, q \in Procs :
            \/ req'[q].copy[d].status = req[q].copy[d].status
            \/ req'[q].copy[d].status = card[d].status
            \/ req'[q].copy[d].status = None
      BY <3>1, CopyOrigin
    <3> QED
      BY <3>1, <3>2, <3>3, OtherApproval
  <2> QED
    BY <1>3, <2>1, <2>2, <2>3, <2>4, <2>5, <2>6, <2>7, <2>8, <2>9 DEF Serve
<1>4. CASE UNCHANGED vars
  BY <1>4, OtherApproval DEF vars
<1> QED
  BY <1>1, <1>2, <1>3, <1>4 DEF Next

\* No interleaving of edits, transitions, restores, destroys and prints, with
\* stale copies of rows or without, prints a card that was never approved.
THEOREM PrintedCardsWereApproved == Spec => []PrintedWasApproved
<1>1. Spec => [](TypeOK /\ ApprovalInvariant)
  BY InitType, NextType, InitApproval, NextApproval, PTL DEF Spec
<1>2. ApprovalInvariant => PrintedWasApproved
  BY DEF ApprovalInvariant, PrintedWasApproved, PastApproval
<1> QED
  BY <1>1, <1>2, PTL

\* A card at or past approval, a copy of it in a request, and a history entry
\* that leaves such a status each have an approval behind them.
THEOREM ApprovalAlways == Spec => []ApprovalInvariant
BY InitType, NextType, InitApproval, NextApproval, PTL DEF Spec
-----------------------------------------------------------------------------
(***************************************************************************)
(* A live card has a status it reached, whatever overlaps.                 *)
(***************************************************************************)

\* What every step does to the status of a card: it records the change it
\* makes from the row or from a copy, or records nothing and makes the card
\* PENDING (new), DELETED, or what a copy says.
Accounted(c) ==
  \/ /\ history'[c] = history[c]
     /\ \/ card'[c].status \in {card[c].status, "PENDING", "DELETED"}
        \/ \E p \in Procs : card'[c].status = req[p].copy[c].status
  \/ \E s, t \in Status :
       /\ history'[c] = Recorded(history[c], s, t) /\ card'[c].status = t
       /\ s = card[c].status \/ \E p \in Procs : s = req[p].copy[c].status

LEMMA StatusStep == TypeOK /\ [Next]_vars => \A c \in Cards : Accounted(c)
<1> SUFFICES ASSUME TypeOK, [Next]_vars, NEW c \in Cards PROVE Accounted(c)
  OBVIOUS
<1>1. ASSUME card'[c] = card[c], history'[c] = history[c] PROVE Accounted(c)
  BY <1>1 DEF Accounted
<1>2. ASSUME NEW o \in Cards, Create(o) \/ Import(o) PROVE Accounted(c)
  <2>1. history' = history /\ \E d \in Data : card' = [card EXCEPT ![o] = NewRow(d)]
    BY <1>2 DEF Create, Import
  <2>2. card'[c].status \in {card[c].status, "PENDING"}
    BY <2>1 DEF NewRow, TypeOK
  <2> QED
    BY <2>1, <2>2 DEF Accounted
<1>3. ASSUME NEW S \in SUBSET Cards, RequestPrint(S) PROVE Accounted(c)
  <2>1. CASE ~(c \in S /\ Printable(card[c]))
    BY <1>1, <1>3, <2>1 DEF RequestPrint
  <2>2. CASE c \in S /\ Printable(card[c])
    <3>1. /\ history'[c] = Recorded(history[c], card[c].status, "DOWNLOADED")
          /\ card'[c].status = "DOWNLOADED"
          /\ card[c].status \in Status /\ "DOWNLOADED" \in Status
      BY <1>3, <2>2 DEF RequestPrint, Printable, Printed, Status, Live
    <3> QED
      BY <3>1 DEF Accounted
  <2> QED
    BY <2>1, <2>2
<1>4. ASSUME NEW p \in Procs, NEW a \in Action, Move(p, a) PROVE Accounted(c)
  <2>1. CASE c \notin req[p].cards
    BY <1>1, <1>4, <2>1 DEF Move
  <2>2. CASE c \in req[p].cards
    <3> DEFINE s == req[p].copy[c].status
               t == Target(s, a)
    <3>1. s \in Status /\ t \in Status
      BY <1>4, <2>2, TargetType DEF Move, Allowed, Target, Status, Live, None
    <3>2. history'[c] = Recorded(history[c], s, t) /\ card'[c].status = t
      BY <1>4, <2>2 DEF Move, Moved
    <3> QED
      BY <3>1, <3>2 DEF Accounted
  <2> QED
    BY <2>1, <2>2
<1>5. ASSUME NEW p \in Procs, Restore(p) PROVE Accounted(c)
  <2>1. PICK t \in [req[p].cards -> Status] :
          /\ card' = [d \in Cards |-> IF d \in req[p].cards
                                      THEN Moved(req[p].copy[d], t[d]) ELSE card[d]]
          /\ history' = [d \in Cards |-> IF d \in req[p].cards
                                         THEN Recorded(history[d], "DELETED", t[d])
                                         ELSE history[d]]
    BY <1>5 DEF Restore
  <2>2. CASE c \notin req[p].cards
    BY <1>1, <2>1, <2>2
  <2>3. CASE c \in req[p].cards
    <3>1. /\ history'[c] = Recorded(history[c], "DELETED", t[c])
          /\ card'[c].status = t[c]
          /\ t[c] \in Status /\ "DELETED" \in Status
          /\ req[p].copy[c].status = "DELETED"
      BY <1>5, <2>1, <2>3 DEF Restore, Moved, Status
    <3> QED
      BY <3>1 DEF Accounted
  <2> QED
    BY <2>2, <2>3
<1>6. ASSUME NEW p \in Procs, SoftDelete(p) PROVE Accounted(c)
  <2>1. history' = history /\ card'[c].status \in {card[c].status, "DELETED"}
    BY <1>6 DEF SoftDelete, SoftDeleted
  <2> QED
    BY <2>1 DEF Accounted
<1>7. ASSUME NEW p \in Procs, UpdateCards(p) PROVE Accounted(c)
  <2>1. history' = history /\ card'[c].status = card[c].status
    BY <1>7 DEF UpdateCards, Edited, TypeOK
  <2> QED
    BY <2>1 DEF Accounted
<1>8. ASSUME NEW p \in Procs, SaveCopy(p) PROVE Accounted(c)
  <2>1. history' = history
        /\ \/ card'[c].status = card[c].status
           \/ card'[c].status = req[p].copy[c].status
    BY <1>8 DEF SaveCopy, Saved, TypeOK
  <2> QED
    BY <2>1 DEF Accounted
<1>9. CASE card' = card /\ history' = history
  BY <1>1, <1>9
<1> QED
  BY <1>2, <1>3, <1>4, <1>5, <1>6, <1>7, <1>8, <1>9
     DEF Next, Serve, vars, ReadCards, FetchForUpdate, Fetch, FreeValues, Fail

\* The copies requests hold after a step are those they held, or of rows.
LEMMA CopyStep ==
  TypeOK /\ [Next]_vars =>
    \A c \in Cards, q \in Procs : \/ req'[q].copy[c].status = req[q].copy[c].status
                                  \/ req'[q].copy[c].status = card[c].status
                                  \/ req'[q].copy[c].status = None
<1> SUFFICES ASSUME TypeOK, [Next]_vars, NEW c \in Cards, NEW q \in Procs
             PROVE  \/ req'[q].copy[c].status = req[q].copy[c].status
                    \/ req'[q].copy[c].status = card[c].status
                    \/ req'[q].copy[c].status = None
  OBVIOUS
<1> DEFINE Kept == \/ req' = req
                   \/ \E p \in Procs : req' = [req EXCEPT ![p] = Idle]
                   \/ \E p \in Procs : req' = [req EXCEPT ![p].phase = "deleted"]
           Fresh(S) == \E p \in Procs, r \in Request :
                         req' = [req EXCEPT ![p] = r] /\ r.copy \in {NoCopy, Rows(S)}
<1>1. Kept \/ \E S \in SUBSET Cards : Fresh(S)
  <2>1. ASSUME NEW p \in Procs, NEW S \in SUBSET Cards, ReadCards(p, S)
        PROVE  Fresh(S)
    <3> DEFINE r == [Idle EXCEPT !.op = "update", !.phase = "read", !.cards = S,
                                 !.seen = Rows(S)]
    <3>1. r \in Request
      BY IdleType, RowsType DEF Request
    <3>2. req' = [req EXCEPT ![p] = r] /\ r.copy = NoCopy
      BY <2>1 DEF ReadCards, Idle
    <3> HIDE DEF r
    <3> QED
      BY <3>1, <3>2
  <2>2. ASSUME NEW p \in Procs, FetchForUpdate(p)
        PROVE  \E S \in SUBSET Cards : Fresh(S)
    <3> DEFINE S == req[p].cards
               r == [req[p] EXCEPT !.phase = "fetched", !.copy = Rows(S)]
    <3>1. req[p] \in Request /\ S \in SUBSET Cards
      BY DEF TypeOK, Request
    <3>2. r \in Request /\ r.copy = Rows(S)
      BY <3>1, RowsType DEF Request
    <3>3. req' = [req EXCEPT ![p] = r]
      BY <2>2, <3>1 DEF FetchForUpdate, TypeOK
    <3> HIDE DEF r, S
    <3> QED
      BY <3>1, <3>2, <3>3
  <2>3. ASSUME NEW p \in Procs, NEW S \in SUBSET Cards, NEW op \in Saver,
               Fetch(p, S, op)
        PROVE  Fresh(S)
    <3> DEFINE r == [Idle EXCEPT !.op = op, !.phase = "fetched", !.cards = S,
                                 !.copy = Rows(S)]
    <3>1. r \in Request /\ r.copy = Rows(S)
      BY IdleType, RowsType DEF Request, Idle, Saver
    <3>2. req' = [req EXCEPT ![p] = r]
      BY <2>3 DEF Fetch
    <3> HIDE DEF r
    <3> QED
      BY <3>1, <3>2
  <2> HIDE DEF Fresh
  <2> QED
    BY <2>1, <2>2, <2>3
       DEF Next, Serve, vars, Create, Import, RequestPrint, UpdateCards, Move,
           Restore, SoftDelete, FreeValues, SaveCopy, Fail
<1>2. CASE Kept
  BY <1>2, CopyOrigin
<1>3. ASSUME NEW S \in SUBSET Cards, Fresh(S)
      PROVE  \/ req'[q].copy[c].status = req[q].copy[c].status
             \/ req'[q].copy[c].status = card[c].status
             \/ req'[q].copy[c].status = None
  BY <1>3, CopyOrigin
<1> HIDE DEF Kept, Fresh
<1> QED
  BY <1>1, <1>2, <1>3

\* StatusWasReached with what makes it inductive: the status of a copy, which
\* may be saved, and the one an entry left, which a restore may give back.
ReachedInvariant ==
  \A c \in Cards :
    /\ card[c].status \in Live => Reached(c, card[c].status)
    /\ \A p \in Procs : req[p].copy[c].status \in Live
                          => Reached(c, req[p].copy[c].status)

LEMMA InitReached == Init => ReachedInvariant
BY DEF Init, ReachedInvariant, NoRow, Idle, NoCopy, None, Live

\* The history after the step says that c reached s.
ReachedAfter(c, s) ==
  s = "PENDING" \/ \E i \in DOMAIN history'[c] : history'[c][i].new = s

\* A status once reached stays reached.
LEMMA ReachedKept ==
  ASSUME TypeOK, NEW c \in Cards, Grows(c), NEW s, Reached(c, s)
  PROVE  ReachedAfter(c, s)
<1>1. CASE history'[c] = history[c]
  BY <1>1 DEF Reached, ReachedAfter
<1>2. ASSUME NEW a \in Status, NEW b \in Status,
             history'[c] = Recorded(history[c], a, b), s # "PENDING"
      PROVE  ReachedAfter(c, s)
  <2>1. PICK i \in DOMAIN history[c] : history[c][i].new = s
    BY <1>2 DEF Reached
  <2>2. history[c] \in Seq(Entry)
    BY DEF TypeOK
  <2>3. \A j \in DOMAIN history[c] :
          /\ j \in DOMAIN Recorded(history[c], a, b)
          /\ Recorded(history[c], a, b)[j] = history[c][j]
    BY <2>2, RecordedEntries
  <2>4. i \in DOMAIN history'[c] /\ history'[c][i].new = s
    BY <1>2, <2>1, <2>3
  <2> QED
    BY <2>4 DEF ReachedAfter
<1> QED
  BY <1>1, <1>2 DEF Grows, Reached, ReachedAfter

\* Every step preserves it.
LEMMA NextReached == TypeOK /\ ReachedInvariant /\ [Next]_vars => ReachedInvariant'
<1> SUFFICES ASSUME TypeOK, ReachedInvariant, [Next]_vars, NEW c \in Cards
             PROVE  /\ card'[c].status \in Live => ReachedAfter(c, card'[c].status)
                    /\ \A q \in Procs : req'[q].copy[c].status \in Live
                                         => ReachedAfter(c, req'[q].copy[c].status)
  BY DEF ReachedInvariant, Reached, ReachedAfter
<1>1. Accounted(c)
  BY StatusStep
<1>2. Grows(c)
  BY <1>1 DEF Accounted, Grows
<1>3. \A s : Reached(c, s) => ReachedAfter(c, s)
  BY <1>2, ReachedKept
<1>4. ASSUME card'[c].status \in Live PROVE ReachedAfter(c, card'[c].status)
  <2>1. CASE \E p \in Procs : card'[c].status = req[p].copy[c].status
    BY <1>3, <1>4, <2>1 DEF ReachedInvariant
  <2>2. CASE card'[c].status \in {card[c].status, "PENDING", "DELETED"}
    <3>1. ReachedAfter(c, "PENDING")
      BY DEF ReachedAfter
    <3> QED
      BY <1>3, <1>4, <2>2, <3>1 DEF ReachedInvariant, Live
  <2>3. ASSUME NEW s \in Status, NEW t \in Status,
               history'[c] = Recorded(history[c], s, t), card'[c].status = t
        PROVE  ReachedAfter(c, card'[c].status)
    <3>1. history[c] \in Seq(Entry)
      BY DEF TypeOK
    <3>2. history'[c] \in Seq(Entry) /\ history'[c] # <<>>
      <4>1. history'[c] \in Seq(Entry)
        BY <2>3, <3>1, RecordedType
      <4>2. Recorded(history[c], s, t) # <<>>
        BY <3>1, RecordedEntries
      <4> QED
        BY <2>3, <4>1, <4>2
    <3>3. history'[c][Len(history'[c])] = [old |-> s, new |-> t]
      BY <2>3, <3>1, RecordedEntries
    <3>4. Len(history'[c]) \in DOMAIN history'[c]
      BY <3>2
    <3> QED
      BY <2>3, <3>3, <3>4 DEF ReachedAfter
  <2> QED
    BY <1>1, <2>1, <2>2, <2>3 DEF Accounted
<1>5. ASSUME NEW q \in Procs, req'[q].copy[c].status \in Live
      PROVE  ReachedAfter(c, req'[q].copy[c].status)
  <2>1. \/ req'[q].copy[c].status = req[q].copy[c].status
        \/ req'[q].copy[c].status = card[c].status
        \/ req'[q].copy[c].status = None
    BY CopyStep
  <2> QED
    BY <1>3, <1>5, <2>1 DEF ReachedInvariant, Live, None
<1> QED
  BY <1>4, <1>5

\* A live card has the status of a new card or one its history records having
\* reached, whatever requests overlap and whatever stale rows they save.
THEOREM StatusesWereReached == Spec => []StatusWasReached
<1>1. Spec => [](TypeOK /\ ReachedInvariant)
  BY InitType, NextType, InitReached, NextReached, PTL DEF Spec
<1>2. ReachedInvariant => StatusWasReached
  BY DEF ReachedInvariant, StatusWasReached
<1> QED
  BY <1>1, <1>2, PTL
=============================================================================
