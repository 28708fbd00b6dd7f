------------------------ MODULE ExclusiveCardsProofs ------------------------
(***************************************************************************)
(* What CardLifecycle guarantees when no request that saves a whole row    *)
(* overlaps another one on the same card (Overlap = FALSE): the optimistic *)
(* check of update_card and the unique index are then enough for it to     *)
(* implement AtomicCards.                                                  *)
(***************************************************************************)
EXTENDS CardLifecycleProofs

(***************************************************************************)
(* The inductive invariant, part by part.                                  *)
(***************************************************************************)

\* A request works on existing cards, and its operation tells its phases.
RequestsSensible ==
  \A p \in Procs :
    /\ req[p].phase = "idle" => req[p].cards = {}
    /\ req[p].phase = "read" => req[p].op = "update"
    /\ req[p].phase = "deleted" => req[p].op = "destroy"
    /\ \A c \in req[p].cards : Exists(c)
    /\ req[p].op = "destroy" => \E c \in Cards : req[p].cards = {c}

\* A request that will save a whole row has its cards to itself.
SaversAlone ==
  \A p, q \in Procs : \A c \in Cards :
    p # q /\ InWindow(p, c) /\ InWindow(q, c) => ~SavesRow(p) /\ ~SavesRow(q)

\* Its copy of a row is the row, and a card whose values it is about to free
\* is deleted.
SaversFresh ==
  \A p \in Procs : \A c \in req[p].cards :
    /\ SavesRow(p) /\ req[p].phase = "fetched" => req[p].copy[c] = card[c]
    /\ req[p].phase = "deleted" => card[c].status = "DELETED"

\* A row an editor has fetched is no newer than the row, and the same version
\* has the same data; the same of a row it has seen, unless an image or a
\* reprint was saved since.
Behind(old, row) ==
  old.version <= row.version /\ (old.version = row.version => old.data = row.data)

EditorsBehind ==
  \A p \in Procs : req[p].op = "update" =>
    \A c \in req[p].cards :
      /\ c \notin touched[p] => Behind(req[p].seen[c], card[c])
      /\ req[p].phase = "fetched" => Behind(req[p].copy[c], card[c])

\* The unique index.
ValuesOnce(held) ==
  \A f \in UniqueFields : \A c, o \in Cards :
    c # o /\ held[c][f] \in Values => held[c][f] # held[o][f]

\* A recorded deletion is that of a live card.
DeletionsOfLive ==
  \A c \in Cards : \A i \in DOMAIN history[c] :
    history[c][i].new = "DELETED" => history[c][i].old \in Live

Exclusive ==
  /\ RequestsSensible
  /\ SaversAlone
  /\ SaversFresh
  /\ EditorsBehind
  /\ ValuesOnce(unique)
  /\ LiveValuesRegistered
  /\ DeletionsOfLive
-----------------------------------------------------------------------------
(***************************************************************************)
(* Lemmas on one part of the state, cited by every step that touches it.   *)
(***************************************************************************)

\* The columns of the rows a workflow step, a print and a deletion write.
LEMMA RowFields ==
  /\ \A r, t : /\ Moved(r, t).status = t
               /\ Moved(r, t).version = r.version + 1
               /\ Moved(r, t).data = r.data
  /\ \A r : /\ Printed(r).status = "DOWNLOADED"
            /\ Printed(r).version = r.version + 1
            /\ Printed(r).data = r.data
  /\ \A r : /\ SoftDeleted(r).status = "DELETED"
            /\ SoftDeleted(r).version = r.version
            /\ SoftDeleted(r).data = r.data
BY DEF Moved, Printed, SoftDeleted

\* Behind is a preorder on rows.
LEMMA BehindOrder ==
  /\ \A r \in Row : Behind(r, r)
  /\ \A r, s, t \in Row : Behind(r, s) /\ Behind(s, t) => Behind(r, t)
BY DEF Behind, Row

\* Requests that go on or end, while the rows move forward and nobody writes
\* a row another request is about to save.
LEMMA RequestsKept ==
  ASSUME TypeOK, TypeOK', RequestsSensible, SaversAlone, SaversFresh, EditorsBehind,
         \A q \in Procs : req'[q] \in {req[q], Idle},
         \A c \in Cards : Exists(c) => Exists(c)',
         \A q \in Procs : \A c \in req[q].cards :
           req'[q] = req[q] /\ req[q].op = "update" /\ Exists(c) =>
             /\ c \in touched'[q] \/ (c \notin touched[q] /\ Behind(card[c], card'[c]))
             /\ InWindow(q, c) => Behind(card[c], card'[c]),
         \A q \in Procs : \A c \in req[q].cards :
           req'[q] = req[q] /\ InWindow(q, c) /\ SavesRow(q) => card'[c] = card[c]
  PROVE  RequestsSensible' /\ SaversAlone' /\ SaversFresh' /\ EditorsBehind'
<1>1. RequestsSensible'
  <2> SUFFICES ASSUME NEW q \in Procs
               PROVE  /\ req'[q].phase = "idle" => req'[q].cards = {}
                      /\ req'[q].phase = "read" => req'[q].op = "update"
                      /\ req'[q].phase = "deleted" => req'[q].op = "destroy"
                      /\ \A c \in req'[q].cards : Exists(c)'
                      /\ req'[q].op = "destroy"
                           => \E c \in Cards : req'[q].cards = {c}
    BY DEF RequestsSensible
  <2>1. CASE req'[q] = Idle
    BY <2>1 DEF Idle
  <2>2. CASE req'[q] = req[q]
    <3>1. \A c \in req[q].cards : c \in Cards
      BY DEF TypeOK, Request
    <3> QED
      BY <2>2, <3>1 DEF RequestsSensible
  <2> QED
    BY <2>1, <2>2
<1>2. SaversAlone'
  BY DEF SaversAlone, InWindow, SavesRow, Idle
<1>3. SaversFresh'
  <2> SUFFICES ASSUME NEW q \in Procs, NEW c \in req'[q].cards
               PROVE  /\ SavesRow(q)' /\ req'[q].phase = "fetched"
                           => req'[q].copy[c] = card'[c]
                      /\ req'[q].phase = "deleted" => card'[c].status = "DELETED"
    BY DEF SaversFresh
  <2>1. CASE req'[q] = Idle
    BY <2>1 DEF Idle
  <2>2. CASE req'[q] = req[q]
    <3>1. c \in req[q].cards
      BY <2>2
    <3>2. req[q].phase = "deleted" => SavesRow(q)
      BY DEF RequestsSensible, SavesRow, Saver
    <3>3. req[q].phase \in {"fetched", "deleted"} /\ SavesRow(q) => card'[c] = card[c]
      BY <2>2, <3>1 DEF InWindow
    <3> QED
      BY <2>2, <3>1, <3>2, <3>3 DEF SaversFresh, SavesRow
  <2> QED
    BY <2>1, <2>2
<1>4. EditorsBehind'
  <2> SUFFICES ASSUME NEW q \in Procs, req'[q].op = "update", NEW c \in req'[q].cards
               PROVE  /\ c \notin touched'[q] => Behind(req'[q].seen[c], card'[c])
                      /\ req'[q].phase = "fetched" => Behind(req'[q].copy[c], card'[c])
    BY DEF EditorsBehind
  <2>1. req'[q] = req[q]
    BY DEF Idle
  <2>2. c \in Cards /\ card[c] \in Row /\ card'[c] \in Row
        /\ req[q].seen[c] \in Row /\ req[q].copy[c] \in Row
    BY <2>1 DEF TypeOK, Request
  <2>3. /\ c \notin touched[q] => Behind(req[q].seen[c], card[c])
        /\ req[q].phase = "fetched" => Behind(req[q].copy[c], card[c])
        /\ Exists(c)
    BY <2>1 DEF EditorsBehind, RequestsSensible
  <2>4. /\ c \in touched'[q] \/ (c \notin touched[q] /\ Behind(card[c], card'[c]))
        /\ req[q].phase = "fetched" => Behind(card[c], card'[c])
    BY <2>1, <2>3 DEF InWindow
  <2> QED
    BY <2>1, <2>2, <2>3, <2>4, BehindOrder
<1> QED
  BY <1>1, <1>2, <1>3, <1>4

\* The same when every row moves forward, image and reprint saves apart.
LEMMA KeepRequests ==
  ASSUME TypeOK, TypeOK', RequestsSensible, SaversAlone, SaversFresh, EditorsBehind,
         \A q \in Procs : req'[q] \in {req[q], Idle},
         \A q \in Procs : req'[q] = Idle \/ touched'[q] = touched[q],
         \A c \in Cards : Exists(c) => Exists(c)' /\ Behind(card[c], card'[c]),
         \A q \in Procs : \A c \in req[q].cards :
           req'[q] = req[q] /\ InWindow(q, c) /\ SavesRow(q) => card'[c] = card[c]
  PROVE  RequestsSensible' /\ SaversAlone' /\ SaversFresh' /\ EditorsBehind'
<1>1. ASSUME NEW q \in Procs, NEW c \in req[q].cards,
             req'[q] = req[q], req[q].op = "update", Exists(c)
      PROVE  /\ c \in touched'[q] \/ (c \notin touched[q] /\ Behind(card[c], card'[c]))
             /\ InWindow(q, c) => Behind(card[c], card'[c])
  <2>1. c \in Cards
    BY DEF TypeOK, Request
  <2>2. touched'[q] = touched[q]
    BY <1>1 DEF Idle
  <2> QED
    BY <1>1, <2>1, <2>2
<1> QED
  BY <1>1, RequestsKept

\* Steps that register no value, and free those of cards that are not live.
LEMMA KeepValues ==
  ASSUME TypeOK, ValuesOnce(unique), LiveValuesRegistered, unchecked' = unchecked,
         \A c \in Cards : \/ unique'[c] = unique[c]
                          \/ unique'[c] = NoValues /\ card'[c].status \notin Live,
         \A c \in Cards : card'[c].status \in Live
                           => card[c].status \in Live /\ card'[c].data = card[c].data
  PROVE  ValuesOnce(unique') /\ LiveValuesRegistered'
<1>1. \A c \in Cards, f \in UniqueFields :
        unique'[c][f] \in {unique[c][f], Absent}
  BY DEF NoValues
<1>2. ValuesOnce(unique')
  BY <1>1, RowAssumption DEF ValuesOnce
<1>3. LiveValuesRegistered'
  BY DEF LiveValuesRegistered
<1> QED
  BY <1>2, <1>3

\* Registering the values of one card that clash with no other card's.
LEMMA EnforceOne ==
  ASSUME TypeOK, ValuesOnce(unique), LiveValuesRegistered, unchecked' = unchecked,
         NEW c \in Cards, NEW d \in Data, ~Clash(c, d, unique),
         unique' = [unique EXCEPT ![c] = Enforced(c, d)],
         card'[c].data = d,
         \A o \in Cards \ {c} : card'[o] = card[o]
  PROVE  ValuesOnce(unique') /\ LiveValuesRegistered'
<1>1. \A f \in UniqueFields : unique'[c][f] = IF d[f] \in Values THEN d[f]
                              ELSE IF d[f] = Blank THEN Absent ELSE unique[c][f]
  BY DEF TypeOK, Enforced
<1>2. \A o \in Cards \ {c} : unique'[o] = unique[o]
  BY DEF TypeOK
<1>3. \A f \in UniqueFields, o \in Cards \ {c} : d[f] \in Values => unique[o][f] # d[f]
  BY DEF Clash
<1>4. ValuesOnce(unique')
  <2> SUFFICES ASSUME NEW f \in UniqueFields, NEW a \in Cards, NEW b \in Cards,
                      a # b, unique'[a][f] \in Values
               PROVE  unique'[a][f] # unique'[b][f]
    BY DEF ValuesOnce
  <2>1. unique[a][f] \in Values => unique[a][f] # unique[b][f]
    BY DEF ValuesOnce
  <2>2. unique[b][f] \in Values => unique[a][f] # unique[b][f]
    BY DEF ValuesOnce
  <2>3. CASE a = c
    BY <1>1, <1>2, <1>3, <2>1, <2>3, RowAssumption
  <2>4. CASE b = c
    BY <1>1, <1>2, <1>3, <2>1, <2>2, <2>4, RowAssumption
  <2>5. CASE a # c /\ b # c
    BY <1>2, <2>1, <2>5
  <2> QED
    BY <2>3, <2>4, <2>5
<1>5. LiveValuesRegistered'
  BY <1>1, <1>2 DEF LiveValuesRegistered
<1> QED
  BY <1>4, <1>5

\* Registering the values of a batch, in an order that meets no clash.
LEMMA EnforceBatch ==
  ASSUME TypeOK, ValuesOnce(unique), LiveValuesRegistered,
         NEW S \in SUBSET Cards, NEW docs \in [S -> Data],
         Enforceable(S, docs),
         unique' = [c \in Cards |-> IF c \in S THEN Enforced(c, docs[c])
                                    ELSE unique[c]],
         unchecked' = unchecked \ S,
         \A c \in S : card'[c].data = docs[c],
         \A c \in Cards \ S : card'[c] = card[c]
  PROVE  ValuesOnce(unique') /\ LiveValuesRegistered'
<1>1. \A c \in S, f \in UniqueFields :
        unique'[c][f] = IF docs[c][f] \in Values THEN docs[c][f]
                        ELSE IF docs[c][f] = Blank THEN Absent ELSE unique[c][f]
  BY DEF Enforced
<1>2. \A c \in Cards \ S : unique'[c] = unique[c]
  OBVIOUS
<1>3. PICK rank \in [S -> 1..Cardinality(S)] :
        /\ \A c, o \in S : c # o => rank[c] # rank[o]
        /\ \A c \in S : ~Clash(c, docs[c], HeldBefore(S, docs, rank, rank[c]))
  BY DEF Enforceable
<1>4. \A c, o \in S : c # o => rank[c] < rank[o] \/ rank[o] < rank[c]
  BY <1>3
<1>5. ASSUME NEW c \in S, NEW o \in Cards \ {c}, NEW f \in UniqueFields,
             docs[c][f] \in Values
      PROVE  /\ o \in S /\ rank[o] < rank[c] => unique'[o][f] # docs[c][f]
             /\ ~(o \in S /\ rank[o] < rank[c]) => unique[o][f] # docs[c][f]
  BY <1>3, <1>5 DEF Clash, HeldBefore
<1>6. ValuesOnce(unique')
  <2> SUFFICES ASSUME NEW f \in UniqueFields, NEW a \in Cards, NEW b \in Cards,
                      a # b, unique'[a][f] \in Values
               PROVE  unique'[a][f] # unique'[b][f]
    BY DEF ValuesOnce
  <2>1. unique[a][f] \in Values => unique[a][f] # unique[b][f]
    BY DEF ValuesOnce
  <2>2. CASE a \in S /\ docs[a][f] \in Values
    <3>1. unique'[a][f] = docs[a][f]
      BY <1>1, <2>2
    <3>2. unique[b][f] # docs[a][f] \/ (b \in S /\ rank[b] < rank[a])
      BY <1>5, <2>2
    <3>3. CASE b \notin S
      BY <1>2, <3>1, <3>2, <3>3
    <3>4. CASE b \in S /\ rank[b] < rank[a]
      BY <1>5, <2>2, <3>1, <3>4
    <3>5. CASE b \in S /\ rank[a] < rank[b] /\ docs[b][f] \in Values
      <4>1. unique'[a][f] # docs[b][f]
        BY <1>5, <2>2, <3>5
      <4> QED
        BY <1>1, <3>5, <4>1
    <3>6. CASE b \in S /\ rank[a] < rank[b] /\ docs[b][f] \notin Values
      <4>1. ~(rank[b] < rank[a])
        BY <2>2, <3>6
      <4>2. unique[b][f] # docs[a][f]
        BY <3>2, <4>1
      <4> QED
        BY <1>1, <2>2, <3>1, <3>6, <4>2, RowAssumption
    <3> QED
      BY <1>4, <2>2, <3>3, <3>4, <3>5, <3>6
  <2>3. CASE ~(a \in S /\ docs[a][f] \in Values)
    <3>1. unique'[a][f] = unique[a][f]
      BY <1>1, <1>2, <2>3, RowAssumption
    <3>2. CASE b \in S /\ docs[b][f] \in Values
      <4>1. unique'[b][f] = docs[b][f]
        BY <1>1, <3>2
      <4> QED
        BY <1>5, <3>1, <3>2, <4>1
    <3>3. CASE ~(b \in S /\ docs[b][f] \in Values)
      <4>1. unique'[b][f] \in {unique[b][f], Absent}
        BY <1>1, <1>2, <3>3
      <4> QED
        BY <2>1, <3>1, <4>1, RowAssumption
    <3> QED
      BY <3>2, <3>3
  <2> QED
    BY <2>2, <2>3
<1>7. LiveValuesRegistered'
  <2> SUFFICES ASSUME NEW c \in Cards \ unchecked', card'[c].status \in Live,
                      NEW f \in UniqueFields, card'[c].data[f] \in Values
               PROVE  unique'[c][f] = card'[c].data[f]
    BY DEF LiveValuesRegistered
  <2>1. CASE c \in S
    BY <1>1, <2>1
  <2>2. CASE c \notin S
    BY <1>2, <2>2 DEF LiveValuesRegistered
  <2> QED
    BY <2>1, <2>2
<1> QED
  BY <1>6, <1>7

\* A history that grows by no deletion of a deleted card.
LEMMA KeepDeletions ==
  ASSUME TypeOK, DeletionsOfLive,
         \A c \in Cards : \/ history'[c] = history[c]
                          \/ \E s, t \in Status :
                               /\ history'[c] = Recorded(history[c], s, t)
                               /\ t = "DELETED" => s \in Live
  PROVE  DeletionsOfLive'
<1> SUFFICES ASSUME NEW c \in Cards, NEW i \in DOMAIN history'[c],
                    history'[c][i].new = "DELETED"
             PROVE  history'[c][i].old \in Live
  BY DEF DeletionsOfLive
<1>1. CASE history'[c] = history[c]
  BY <1>1 DEF DeletionsOfLive
<1>2. ASSUME NEW s \in Status, NEW t \in Status,
             history'[c] = Recorded(history[c], s, t), t = "DELETED" => s \in Live
      PROVE  history'[c][i].old \in Live
  <2>1. history[c] \in Seq(Entry)
    BY DEF TypeOK
  <2>2. /\ history'[c][Len(history'[c])] = [old |-> s, new |-> t]
        /\ \A j \in DOMAIN history[c] : history'[c][j] = history[c][j]
        /\ \A j \in DOMAIN history'[c] : \/ j = Len(history'[c])
                                        \/ j \in DOMAIN history[c]
    BY <1>2, <2>1, RecordedEntries
  <2>3. CASE i = Len(history'[c])
    BY <1>2, <2>2, <2>3
  <2>4. CASE i # Len(history'[c])
    <3>1. i \in DOMAIN history[c] /\ history'[c][i] = history[c][i]
      BY <2>2, <2>4
    <3> QED
      BY <3>1 DEF DeletionsOfLive
  <2> QED
    BY <2>3, <2>4
<1> QED
  BY <1>1, <1>2
-----------------------------------------------------------------------------
(***************************************************************************)
(* Every action preserves the exclusive invariant.                         *)
(***************************************************************************)

LEMMA InitExclusive == Init => Exclusive
<1> SUFFICES ASSUME Init PROVE Exclusive
  OBVIOUS
<1>1. RequestsSensible /\ SaversAlone /\ SaversFresh /\ EditorsBehind
  BY DEF Init, Idle, RequestsSensible, SaversAlone, SaversFresh, EditorsBehind,
         InWindow
<1>2. ValuesOnce(unique)
  BY RowAssumption DEF Init, ValuesOnce
<1>3. LiveValuesRegistered
  BY DEF Init, LiveValuesRegistered, NoRow, None, Live
<1>4. DeletionsOfLive
  BY DEF Init, DeletionsOfLive
<1> QED
  BY <1>1, <1>2, <1>3, <1>4 DEF Exclusive

LEMMA CreateExclusive ==
  ASSUME TypeOK, TypeOK', Exclusive, NEW c \in Cards, Create(c)
  PROVE  Exclusive'
<1>1. PICK d \in Data : /\ ~Clash(c, d, unique)
                        /\ card' = [card EXCEPT ![c] = NewRow(d)]
                        /\ unique' = [unique EXCEPT ![c] = Enforced(c, d)]
  BY DEF Create
<1>2. card'[c].data = d /\ \A o \in Cards \ {c} : card'[o] = card[o]
  BY <1>1 DEF TypeOK, NewRow
<1>3. ValuesOnce(unique') /\ LiveValuesRegistered'
  BY <1>1, <1>2, EnforceOne DEF Exclusive, Create, ghosts
<1>4. \A o \in Cards : Exists(o) => Exists(o)' /\ Behind(card[o], card'[o])
  BY <1>2, BehindOrder DEF Create, Exists, TypeOK
<1>5. \A q \in Procs : \A o \in req[q].cards : o \in Cards /\ o # c
  BY DEF Exclusive, RequestsSensible, Create, TypeOK, Request
<1>6. RequestsSensible' /\ SaversAlone' /\ SaversFresh' /\ EditorsBehind'
  BY <1>2, <1>4, <1>5, KeepRequests DEF Exclusive, Create, ghosts
<1>7. DeletionsOfLive'
  BY KeepDeletions DEF Exclusive, Create
<1> QED
  BY <1>3, <1>6, <1>7 DEF Exclusive

LEMMA ImportExclusive ==
  ASSUME TypeOK, TypeOK', Exclusive, NEW c \in Cards, Import(c)
  PROVE  Exclusive'
<1>1. PICK d \in Data :
        /\ card' = [card EXCEPT ![c] = NewRow(d)]
        /\ unique' = [unique EXCEPT ![c] = [f \in UniqueFields |->
             IF \E o \in Cards : d[f] \in Values /\ unique[o][f] = d[f] THEN Absent
             ELSE Enforced(c, d)[f]]]
        /\ unchecked' = IF Unregistered(c, d, unique') THEN unchecked \cup {c}
                        ELSE unchecked
  BY DEF Import
<1>2. card'[c].data = d /\ \A o \in Cards \ {c} : card'[o] = card[o]
  BY <1>1 DEF TypeOK, NewRow
<1>3. /\ \A o \in Cards \ {c} : unique'[o] = unique[o]
      /\ \A f \in UniqueFields :
           \/ unique'[c][f] \in {Absent, unique[c][f]}
           \/ /\ unique'[c][f] = d[f]
              /\ \A o \in Cards : unique[o][f] # d[f]
  BY <1>1 DEF TypeOK, Enforced
<1>4. ValuesOnce(unique')
  <2> SUFFICES ASSUME NEW f \in UniqueFields, NEW a \in Cards, NEW b \in Cards,
                      a # b, unique'[a][f] \in Values
               PROVE  unique'[a][f] # unique'[b][f]
    BY DEF ValuesOnce
  <2>1. /\ unique[a][f] \in Values => unique[a][f] # unique[b][f]
        /\ unique[b][f] \in Values => unique[a][f] # unique[b][f]
    BY DEF Exclusive, ValuesOnce
  <2>2. CASE a = c
    BY <1>3, <2>1, <2>2, RowAssumption
  <2>3. CASE b = c
    BY <1>3, <2>1, <2>3, RowAssumption
  <2>4. CASE a # c /\ b # c
    BY <1>3, <2>1, <2>4
  <2> QED
    BY <2>2, <2>3, <2>4
<1>5. LiveValuesRegistered'
  <2>1. /\ unchecked \subseteq unchecked'
        /\ c \notin unchecked' => ~Unregistered(c, d, unique')
    BY <1>1
  <2> QED
    <3>1. \A o \in Cards \ {c} : o \notin unchecked' => o \notin unchecked
      BY <2>1
    <3>2. c \notin unchecked' => \A f \in UniqueFields : d[f] \in Values
                                                   => unique'[c][f] = d[f]
      BY <2>1 DEF Unregistered
    <3> QED
      BY <1>2, <1>3, <3>1, <3>2 DEF Exclusive, LiveValuesRegistered
<1>6. \A o \in Cards : Exists(o) => Exists(o)' /\ Behind(card[o], card'[o])
  BY <1>2, BehindOrder DEF Import, Exists, TypeOK
<1>7. \A q \in Procs : \A o \in req[q].cards : o \in Cards /\ o # c
  BY DEF Exclusive, RequestsSensible, Import, TypeOK, Request
<1>8. RequestsSensible' /\ SaversAlone' /\ SaversFresh' /\ EditorsBehind'
  BY <1>2, <1>6, <1>7, KeepRequests DEF Exclusive, Import
<1>9. DeletionsOfLive'
  BY KeepDeletions DEF Exclusive, Import
<1> QED
  BY <1>4, <1>5, <1>8, <1>9 DEF Exclusive

\* The edits update_card accepts are made on the current data.
LEMMA UpdateCurrent ==
  ASSUME TypeOK, Exclusive, NEW p \in Procs, UpdateCards(p)
  PROVE  \E patch \in [req[p].cards -> Data], docs \in [req[p].cards -> Data] :
           /\ \A c \in req[p].cards : docs[c] = Merge(card[c].data, patch[c])
           /\ Enforceable(req[p].cards, docs)
           /\ card' = [c \in Cards |->
                         IF c \in req[p].cards
                         THEN Edited(card[c], docs[c], card[c].version + 1)
                         ELSE card[c]]
           /\ unique' = [c \in Cards |->
                           IF c \in req[p].cards THEN Enforced(c, docs[c])
                           ELSE unique[c]]
<1> DEFINE S == req[p].cards
           new(patch) == [c \in S |-> Merge(req[p].copy[c].data, patch[c])]
<1>1. PICK patch \in [S -> Data] :
        /\ Enforceable(S, new(patch))
        /\ card' = [c \in Cards |->
                      IF c \in S THEN Edited(card[c], new(patch)[c],
                                             req[p].seen[c].version + 1)
                      ELSE card[c]]
        /\ unique' = [c \in Cards |->
                        IF c \in S THEN Enforced(c, new(patch)[c]) ELSE unique[c]]
  BY DEF UpdateCards
<1>2. \A c \in S : /\ c \in Cards
                   /\ req[p].copy[c].version = req[p].seen[c].version
                   /\ card[c].version = req[p].seen[c].version
                   /\ card[c].data \in Data
  BY DEF UpdateCards, Current, TypeOK, Request, Row
<1>3. \A c \in S : req[p].copy[c].data = card[c].data
  BY <1>2 DEF Exclusive, EditorsBehind, Behind, UpdateCards
<1>4. \A c \in S : new(patch)[c] = Merge(card[c].data, patch[c])
  BY <1>3
<1>5. new(patch) \in [S -> Data]
  BY <1>2, <1>3, RowTypes
<1>6. card' = [c \in Cards |-> IF c \in S THEN Edited(card[c], new(patch)[c],
                                                    card[c].version + 1)
                              ELSE card[c]]
  BY <1>1, <1>2
<1> HIDE DEF new
<1> QED
  BY <1>1, <1>4, <1>5, <1>6

LEMMA UpdateCardsExclusive ==
  ASSUME TypeOK, TypeOK', Exclusive, NEW p \in Procs, UpdateCards(p)
  PROVE  Exclusive'
<1> DEFINE S == req[p].cards
<1>1. PICK docs \in [S -> Data] :
        /\ Enforceable(S, docs)
        /\ card' = [c \in Cards |->
                      IF c \in S THEN Edited(card[c], docs[c], card[c].version + 1)
                      ELSE card[c]]
        /\ unique' = [c \in Cards |-> IF c \in S THEN Enforced(c, docs[c])
                                      ELSE unique[c]]
  BY UpdateCurrent
<1>2. S \in SUBSET Cards
  BY DEF TypeOK, Request
<1>3. \A c \in S : /\ card'[c].data = docs[c]
                   /\ card'[c].status = card[c].status
                   /\ card'[c].version = card[c].version + 1
  BY <1>1, <1>2 DEF Edited
<1>4. \A c \in Cards \ S : card'[c] = card[c]
  BY <1>1
<1>5. /\ \A q \in Procs, c \in S : InWindow(q, c) => ~SavesRow(q)
      /\ req' = [req EXCEPT ![p] = Idle]
      /\ history' = history
      /\ unchecked' = unchecked \ S
      /\ touched' = [touched EXCEPT ![p] = {}]
  BY <1>2 DEF Exclusive, SaversAlone, UpdateCards, InWindow, SavesRow, Saver
<1> HIDE DEF S
<1>6. ValuesOnce(unique') /\ LiveValuesRegistered'
  BY <1>1, <1>2, <1>3, <1>4, <1>5, EnforceBatch DEF Exclusive
<1>7. ASSUME NEW c \in Cards, Exists(c)
      PROVE  Exists(c)' /\ Behind(card[c], card'[c])
  <2>1. card[c] \in Row /\ card[c].version \in Nat
    BY DEF TypeOK, Row
  <2>2. CASE c \in S
    BY <1>3, <1>7, <2>1, <2>2 DEF Exists, Behind
  <2>3. CASE c \notin S
    BY <1>4, <1>7, <2>1, <2>3, BehindOrder DEF Exists
  <2> QED
    BY <2>2, <2>3
<1>8. \A q \in Procs : /\ req'[q] \in {req[q], Idle}
                       /\ req'[q] = Idle \/ touched'[q] = touched[q]
  BY <1>5 DEF TypeOK
<1>9. \A q \in Procs : \A c \in req[q].cards :
        InWindow(q, c) /\ SavesRow(q) => card'[c] = card[c]
  <2>1. \A q \in Procs : req[q].cards \subseteq Cards
    BY DEF TypeOK, Request
  <2> QED
    BY <1>4, <1>5, <2>1
<1>10. RequestsSensible' /\ SaversAlone' /\ SaversFresh' /\ EditorsBehind'
  BY <1>7, <1>8, <1>9, KeepRequests DEF Exclusive
<1>11. DeletionsOfLive'
  BY <1>5, KeepDeletions DEF Exclusive
<1> QED
  BY <1>6, <1>10, <1>11 DEF Exclusive

\* What a batch of workflow steps saves from its fresh copies: no other request
\* is disturbed, and its own ends.
LEMMA MovedRequests ==
  ASSUME TypeOK, TypeOK', Exclusive, NEW p \in Procs,
         req[p].op = "transition", req[p].phase = "fetched",
         req' = [req EXCEPT ![p] = Idle], touched' = touched,
         \A c \in req[p].cards : \E t \in Status : card'[c] = Moved(card[c], t),
         \A c \in Cards \ req[p].cards : card'[c] = card[c]
  PROVE  RequestsSensible' /\ SaversAlone' /\ SaversFresh' /\ EditorsBehind'
<1>1. ASSUME NEW c \in Cards, Exists(c)
      PROVE  Exists(c)' /\ Behind(card[c], card'[c])
  <2>1. card[c] \in Row
    BY DEF TypeOK
  <2>2. CASE c \notin req[p].cards
    BY <1>1, <2>1, <2>2, BehindOrder DEF Exists
  <2>3. CASE c \in req[p].cards
    <3>1. PICK t \in Status : card'[c] = Moved(card[c], t)
      BY <2>3
    <3>2. card'[c].status = t /\ card'[c].version = card[c].version + 1
      BY <3>1 DEF Moved
    <3>3. card[c].version \in Nat /\ t # None
      BY <2>1 DEF Row, Status, Live, None
    <3> QED
      BY <3>2, <3>3 DEF Exists, Behind
  <2> QED
    BY <2>2, <2>3
<1>2. \A q \in Procs : req'[q] \in {req[q], Idle}
  BY DEF TypeOK
<1>3. ASSUME NEW q \in Procs, NEW c \in req[q].cards,
             req'[q] = req[q], InWindow(q, c), SavesRow(q)
      PROVE  card'[c] = card[c]
  <2>1. c \in Cards
    BY DEF TypeOK, Request
  <2>2. q # p
    BY <1>3 DEF TypeOK, Idle
  <2>3. ~InWindow(p, c)
    BY <1>3, <2>1, <2>2 DEF Exclusive, SaversAlone
  <2> QED
    BY <2>1, <2>3 DEF InWindow
<1> QED
  BY <1>1, <1>2, <1>3, KeepRequests DEF Exclusive

\* The copies a transition, an image operation or a reprint saves are the rows.
LEMMA CopiesAreRows ==
  ASSUME TypeOK, Exclusive, NEW p \in Procs,
         req[p].op \in {"transition", "image", "reprint"}, req[p].phase = "fetched"
  PROVE  \A c \in req[p].cards : c \in Cards /\ req[p].copy[c] = card[c]
BY DEF Exclusive, SaversFresh, SavesRow, Saver, TypeOK, Request

LEMMA MoveExclusive ==
  ASSUME TypeOK, TypeOK', Exclusive, NEW p \in Procs, NEW a \in Action, Move(p, a)
  PROVE  Exclusive'
<1> DEFINE S == req[p].cards
           to(c) == Target(card[c].status, a)
<1>1. \A c \in S : c \in Cards /\ req[p].copy[c] = card[c]
  BY CopiesAreRows DEF Move
<1>2. \A c \in S : to(c) \in Status /\ card[c].status \in Live
  BY <1>1, TargetType DEF Move, Allowed, Target, Live, None
<1>3. /\ \A c \in S : card'[c] = Moved(card[c], to(c))
      /\ \A c \in Cards \ S : card'[c] = card[c]
  BY <1>1 DEF Move
<1>4. RequestsSensible' /\ SaversAlone' /\ SaversFresh' /\ EditorsBehind'
  BY <1>2, <1>3, MovedRequests DEF Move, ghosts
<1>5. ValuesOnce(unique') /\ LiveValuesRegistered'
  <2>1. \A c \in S : card'[c].status = to(c) /\ card'[c].data = card[c].data
    BY <1>3, RowFields
  <2>2. \A c \in Cards : \/ unique'[c] = unique[c]
                         \/ unique'[c] = NoValues /\ card'[c].status \notin Live
    BY <1>1, <2>1 DEF Move, Frees, Live
  <2>3. \A c \in Cards : card'[c].status \in Live
                         => card[c].status \in Live /\ card'[c].data = card[c].data
    BY <1>2, <1>3, <2>1
  <2> QED
    BY <2>2, <2>3, KeepValues DEF Exclusive, Move, ghosts
<1>6. DeletionsOfLive'
  <2>1. \A c \in S : history'[c] = Recorded(history[c], card[c].status, to(c))
    BY <1>1 DEF Move
  <2>2. \A c \in Cards \ S : history'[c] = history[c]
    BY DEF Move
  <2>3. \A c \in S : card[c].status \in Status
    BY <1>2 DEF Status
  <2> HIDE DEF to
  <2> QED
    BY <1>2, <2>1, <2>2, <2>3, KeepDeletions DEF Exclusive
<1> QED
  BY <1>4, <1>5, <1>6 DEF Exclusive

\* The status a restore takes its cards to is live.
LEMMA RestoresToLive ==
  ASSUME DeletionsOfLive, NEW c \in Cards, NEW s, RestoresTo(c, s)
  PROVE  s \in Live
BY DEF RestoresTo, DeletionsOfLive, Live

LEMMA RestoreExclusive ==
  ASSUME TypeOK, TypeOK', Exclusive, NEW p \in Procs, Restore(p)
  PROVE  Exclusive'
<1> DEFINE S == req[p].cards
           copy == req[p].copy
           docs == [c \in S |-> copy[c].data]
<1>1. \A c \in S : c \in Cards /\ copy[c] = card[c]
  BY CopiesAreRows DEF Restore
<1>2. PICK t \in [S -> Status] :
        /\ \A c \in S : RestoresTo(c, t[c])
        /\ card' = [c \in Cards |-> IF c \in S THEN Moved(copy[c], t[c]) ELSE card[c]]
        /\ history' = [c \in Cards |->
                         IF c \in S THEN Recorded(history[c], "DELETED", t[c])
                         ELSE history[c]]
  BY DEF Restore
<1>3. /\ \A c \in S : card'[c] = Moved(card[c], t[c])
      /\ \A c \in Cards \ S : card'[c] = card[c]
  BY <1>1, <1>2
<1>4. RequestsSensible' /\ SaversAlone' /\ SaversFresh' /\ EditorsBehind'
  BY <1>3, MovedRequests DEF Restore
<1>5. ValuesOnce(unique') /\ LiveValuesRegistered'
  <2>1. \A c \in S : card'[c].data = docs[c]
    BY <1>1, <1>3, RowFields
  <2>2. S \in SUBSET Cards /\ docs \in [S -> Data]
    BY DEF TypeOK, Request, Row
  <2>3. /\ Enforceable(S, docs)
        /\ unique' = [c \in Cards |-> IF c \in S THEN Enforced(c, docs[c])
                                      ELSE unique[c]]
        /\ unchecked' = unchecked \ S
    BY DEF Restore
  <2> HIDE DEF S, copy, docs
  <2> QED
    BY <1>3, <2>1, <2>2, <2>3, EnforceBatch DEF Exclusive
<1>6. DeletionsOfLive'
  <2>1. \A c \in S : t[c] # "DELETED"
    BY <1>1, <1>2, RestoresToLive DEF Exclusive, Live
  <2>2. "DELETED" \in Status
    BY DEF Status
  <2> QED
    BY <1>1, <1>2, <2>1, <2>2, KeepDeletions DEF Exclusive
<1> QED
  BY <1>4, <1>5, <1>6 DEF Exclusive

LEMMA RequestPrintExclusive ==
  ASSUME TypeOK, TypeOK', Exclusive, ~Overlap, NEW S \in SUBSET Cards, RequestPrint(S)
  PROVE  Exclusive'
<1> DEFINE printed == {c \in S : Printable(card[c])}
<1>1. /\ \A c \in printed : /\ card'[c] = Printed(card[c])
                            /\ card[c].status = "APPROVED"
                            /\ history'[c] = Recorded(history[c], "APPROVED", "DOWNLOADED")
      /\ \A c \in Cards \ printed : card'[c] = card[c] /\ history'[c] = history[c]
      /\ unique' = unique /\ req' = req
      /\ unchecked' = unchecked /\ touched' = touched
  BY DEF RequestPrint, Printable, ghosts
<1>2. \A c \in printed : /\ card'[c].status = "DOWNLOADED"
                         /\ card'[c].data = card[c].data
                         /\ card'[c].version = card[c].version + 1
  BY <1>1, RowFields
<1>3. \A q \in Procs, c \in printed : InWindow(q, c) => ~SavesRow(q)
  BY DEF RequestPrint, Free
<1> HIDE DEF printed
<1>4. ASSUME NEW c \in Cards, Exists(c)
      PROVE  Exists(c)' /\ Behind(card[c], card'[c])
  <2>1. card[c] \in Row /\ card[c].version \in Nat
    BY DEF TypeOK, Row
  <2>2. CASE c \in printed
    BY <1>2, <2>1, <2>2 DEF Exists, Behind, None
  <2>3. CASE c \notin printed
    BY <1>1, <1>4, <2>1, <2>3, BehindOrder DEF Exists
  <2> QED
    BY <2>2, <2>3
<1>5. \A q \in Procs : \A c \in req[q].cards :
        InWindow(q, c) /\ SavesRow(q) => card'[c] = card[c]
  BY <1>1, <1>3 DEF TypeOK, Request
<1>6. RequestsSensible' /\ SaversAlone' /\ SaversFresh' /\ EditorsBehind'
  BY <1>1, <1>4, <1>5, KeepRequests DEF Exclusive
<1>7. ValuesOnce(unique') /\ LiveValuesRegistered'
  <2>1. \A c \in Cards : card'[c].status \in Live
                         => card[c].status \in Live /\ card'[c].data = card[c].data
    BY <1>1, <1>2 DEF Live
  <2> QED
    BY <1>1, <2>1, KeepValues DEF Exclusive
<1>8. DeletionsOfLive'
  <2>1. "APPROVED" \in Status /\ "DOWNLOADED" \in Status
    BY DEF Status, Live
  <2> QED
    BY <1>1, <2>1, KeepDeletions DEF Exclusive
<1> QED
  BY <1>6, <1>7, <1>8 DEF Exclusive

LEMMA SoftDeleteExclusive ==
  ASSUME TypeOK, TypeOK', Exclusive, NEW p \in Procs, SoftDelete(p)
  PROVE  Exclusive'
<1> DEFINE S == req[p].cards
<1>1. \A c \in S : c \in Cards /\ req[p].copy[c] = card[c]
  BY DEF SoftDelete, Exclusive, SaversFresh, SavesRow, Saver, TypeOK, Request
<1>2. /\ \A c \in S : card'[c] = SoftDeleted(card[c])
      /\ \A c \in Cards \ S : card'[c] = card[c]
  BY <1>1 DEF SoftDelete
<1>3. \A c \in S : /\ card'[c].status = "DELETED"
                   /\ card'[c].version = card[c].version
                   /\ card'[c].data = card[c].data
  BY <1>2, RowFields
<1>4. /\ \A q \in Procs \ {p} : req'[q] = req[q]
      /\ req'[p].op = "destroy" /\ req'[p].phase = "deleted"
      /\ req'[p].cards = S
      /\ unchecked' = unchecked /\ touched' = touched
  BY DEF SoftDelete, TypeOK, Request, ghosts
<1>5. ASSUME NEW c \in Cards, Exists(c)
      PROVE  Exists(c)' /\ Behind(card[c], card'[c])
  <2>1. card[c] \in Row /\ card[c].version \in Nat
    BY DEF TypeOK, Row
  <2> QED
    BY <1>2, <1>3, <1>5, <2>1, BehindOrder DEF Exists, Behind, None
<1>6. \A q \in Procs : req[q].cards \subseteq Cards
  BY DEF TypeOK, Request
<1>7. \A q \in Procs, c \in S : q # p => ~InWindow(q, c) \/ ~SavesRow(q)
  BY <1>1 DEF Exclusive, SaversAlone, SoftDelete, InWindow, SavesRow, Saver
<1>8. RequestsSensible'
  <2> SUFFICES ASSUME NEW q \in Procs
               PROVE  /\ req'[q].phase = "idle" => req'[q].cards = {}
                      /\ req'[q].phase = "read" => req'[q].op = "update"
                      /\ req'[q].phase = "deleted" => req'[q].op = "destroy"
                      /\ \A c \in req'[q].cards : Exists(c)'
                      /\ req'[q].op = "destroy"
                           => \E c \in Cards : req'[q].cards = {c}
    BY DEF RequestsSensible
  <2>1. /\ \A c \in req[q].cards : Exists(c)'
        /\ req[q].op = "destroy" => \E c \in Cards : req[q].cards = {c}
    BY <1>5, <1>6 DEF Exclusive, RequestsSensible
  <2>2. CASE q = p
    BY <1>4, <2>1, <2>2 DEF SoftDelete
  <2>3. CASE q # p
    BY <1>4, <2>1, <2>3 DEF Exclusive, RequestsSensible
  <2> QED
    BY <2>2, <2>3
<1>9. SaversAlone'
  <2> SUFFICES ASSUME NEW q \in Procs, NEW r \in Procs, NEW c \in Cards, q # r,
                      InWindow(q, c)', InWindow(r, c)'
               PROVE  ~SavesRow(q)' /\ ~SavesRow(r)'
    BY DEF SaversAlone
  <2>1. \A u \in Procs : /\ InWindow(u, c)' => InWindow(u, c)
                         /\ SavesRow(u)' => SavesRow(u)
    BY <1>4 DEF InWindow, SavesRow, Saver, SoftDelete
  <2> QED
    BY <2>1 DEF Exclusive, SaversAlone
<1>10. SaversFresh'
  <2> SUFFICES ASSUME NEW q \in Procs, NEW c \in req'[q].cards
               PROVE  /\ SavesRow(q)' /\ req'[q].phase = "fetched"
                           => req'[q].copy[c] = card'[c]
                      /\ req'[q].phase = "deleted" => card'[c].status = "DELETED"
    BY DEF SaversFresh
  <2>1. CASE q = p
    BY <1>3, <1>4, <2>1
  <2>2. CASE q # p
    <3>1. c \in req[q].cards /\ c \in Cards
      BY <1>4, <1>6, <2>2
    <3>2. /\ SavesRow(q) /\ req[q].phase = "fetched" => req[q].copy[c] = card[c]
          /\ req[q].phase = "deleted" => card[c].status = "DELETED"
      BY <3>1 DEF Exclusive, SaversFresh
    <3>3. SavesRow(q) /\ req[q].phase = "fetched" => c \notin S
      BY <1>7, <2>2, <3>1 DEF InWindow
    <3>4. c \notin S => card'[c] = card[c]
      BY <1>2, <3>1
    <3> QED
      BY <1>3, <1>4, <2>2, <3>2, <3>3, <3>4 DEF SavesRow, Saver
  <2> QED
    BY <2>1, <2>2
<1>11. EditorsBehind'
  <2> SUFFICES ASSUME NEW q \in Procs, req'[q].op = "update", NEW c \in req'[q].cards
               PROVE  /\ c \notin touched'[q] => Behind(req'[q].seen[c], card'[c])
                      /\ req'[q].phase = "fetched" => Behind(req'[q].copy[c], card'[c])
    BY DEF EditorsBehind
  <2>1. req'[q] = req[q]
    BY <1>4
  <2>2. c \in Cards /\ card[c] \in Row /\ card'[c] \in Row
        /\ req[q].seen[c] \in Row /\ req[q].copy[c] \in Row
    BY <2>1 DEF TypeOK, Request
  <2>3. /\ c \notin touched[q] => Behind(req[q].seen[c], card[c])
        /\ req[q].phase = "fetched" => Behind(req[q].copy[c], card[c])
        /\ Exists(c)
    BY <2>1 DEF Exclusive, EditorsBehind, RequestsSensible
  <2> QED
    BY <1>4, <1>5, <2>1, <2>2, <2>3, BehindOrder
<1>12. ValuesOnce(unique') /\ LiveValuesRegistered'
  <2>1. \A c \in Cards : card'[c].status \in Live
                         => card[c].status \in Live /\ card'[c].data = card[c].data
    BY <1>2, <1>3 DEF Live
  <2> QED
    BY <1>4, <2>1, KeepValues DEF Exclusive, SoftDelete
<1>13. DeletionsOfLive'
  BY KeepDeletions DEF Exclusive, SoftDelete
<1> QED
  BY <1>8, <1>9, <1>10, <1>11, <1>12, <1>13 DEF Exclusive

LEMMA EndExclusive ==
  ASSUME TypeOK, TypeOK', Exclusive, NEW p \in Procs, FreeValues(p) \/ Fail(p)
  PROVE  Exclusive'
<1>1. /\ card' = card /\ history' = history /\ req' = [req EXCEPT ![p] = Idle]
      /\ unchecked' = unchecked
      /\ touched' \in {touched, [touched EXCEPT ![p] = {}]}
  BY DEF FreeValues, Fail, ghosts
<1>2. \A q \in Procs : /\ req'[q] \in {req[q], Idle}
                       /\ req'[q] = Idle \/ touched'[q] = touched[q]
  BY <1>1 DEF TypeOK
<1>3. \A c \in Cards : Exists(c) => Exists(c)' /\ Behind(card[c], card'[c])
  BY <1>1, BehindOrder DEF TypeOK, Exists
<1>4. RequestsSensible' /\ SaversAlone' /\ SaversFresh' /\ EditorsBehind'
  BY <1>1, <1>2, <1>3, KeepRequests DEF Exclusive
<1>5. \A c \in Cards : \/ unique'[c] = unique[c]
                       \/ unique'[c] = NoValues /\ card'[c].status \notin Live
  BY <1>1 DEF FreeValues, Fail, Exclusive, SaversFresh, Live
<1>6. ValuesOnce(unique') /\ LiveValuesRegistered'
  BY <1>1, <1>5, KeepValues DEF Exclusive
<1>7. DeletionsOfLive'
  BY <1>1, KeepDeletions DEF Exclusive
<1> QED
  BY <1>4, <1>6, <1>7 DEF Exclusive

\* A request that starts, or fetches its rows, writes nothing; it is harmless
\* if it meets its part of the invariant.
LEMMA BeginExclusive ==
  ASSUME TypeOK, Exclusive, NEW p \in Procs, NEW r \in Request,
         card' = card, unique' = unique, history' = history,
         unchecked' = unchecked, touched' = touched,
         req' = [req EXCEPT ![p] = r],
         r.phase \in {"read", "fetched"},
         r.phase = "read" => r.op = "update",
         \A c \in r.cards : Exists(c),
         r.op = "destroy" => \E c \in Cards : r.cards = {c},
         \A q \in Procs, c \in r.cards : r.phase = "fetched" /\ InWindow(q, c)
             => ~SavesRow(q) /\ r.op = "update",
         \A c \in r.cards : /\ r.op # "update" => r.copy[c] = card[c]
                            /\ r.op = "update" /\ c \notin touched[p]
                                 => Behind(r.seen[c], card[c])
                            /\ r.op = "update" /\ r.phase = "fetched"
                                 => Behind(r.copy[c], card[c])
  PROVE  Exclusive'
<1>1. req'[p] = r /\ \A q \in Procs \ {p} : req'[q] = req[q]
  BY DEF TypeOK
<1>2. r.cards \subseteq Cards /\ \A q \in Procs : req[q].cards \subseteq Cards
  BY DEF TypeOK, Request
<1>3. RequestsSensible'
  <2> SUFFICES ASSUME NEW q \in Procs
               PROVE  /\ req'[q].phase = "idle" => req'[q].cards = {}
                      /\ req'[q].phase = "read" => req'[q].op = "update"
                      /\ req'[q].phase = "deleted" => req'[q].op = "destroy"
                      /\ \A c \in req'[q].cards : Exists(c)'
                      /\ req'[q].op = "destroy"
                           => \E c \in Cards : req'[q].cards = {c}
    BY DEF RequestsSensible
  <2>1. CASE q = p
    BY <1>1, <2>1 DEF Exists
  <2>2. CASE q # p
    BY <1>1, <2>2 DEF Exclusive, RequestsSensible, Exists
  <2> QED
    BY <2>1, <2>2
<1>4. SaversAlone'
  <2> SUFFICES ASSUME NEW q \in Procs, NEW u \in Procs, NEW c \in Cards, q # u,
                      InWindow(q, c)', InWindow(u, c)'
               PROVE  ~SavesRow(q)' /\ ~SavesRow(u)'
    BY DEF SaversAlone
  <2>1. \A v \in Procs \ {p} : /\ InWindow(v, c)' => InWindow(v, c)
                               /\ SavesRow(v)' => SavesRow(v)
    BY <1>1 DEF InWindow, SavesRow, Saver
  <2>2. InWindow(p, c)' => c \in r.cards /\ r.phase = "fetched"
    BY <1>1 DEF InWindow
  <2>3. r.op = "update" => ~SavesRow(p)'
    BY <1>1 DEF SavesRow, Saver
  <2>4. CASE q = p
    BY <2>1, <2>2, <2>3, <2>4
  <2>5. CASE u = p
    BY <2>1, <2>2, <2>3, <2>5
  <2>6. CASE q # p /\ u # p
    BY <2>1, <2>6 DEF Exclusive, SaversAlone
  <2> QED
    BY <2>4, <2>5, <2>6
<1>5. SaversFresh'
  <2> SUFFICES ASSUME NEW q \in Procs, NEW c \in req'[q].cards
               PROVE  /\ SavesRow(q)' /\ req'[q].phase = "fetched"
                           => req'[q].copy[c] = card'[c]
                      /\ req'[q].phase = "deleted" => card'[c].status = "DELETED"
    BY DEF SaversFresh
  <2>1. CASE q = p
    BY <1>1, <2>1 DEF SavesRow, Saver
  <2>2. CASE q # p
    BY <1>1, <2>2 DEF Exclusive, SaversFresh, SavesRow, Saver
  <2> QED
    BY <2>1, <2>2
<1>6. EditorsBehind'
  <2> SUFFICES ASSUME NEW q \in Procs, req'[q].op = "update", NEW c \in req'[q].cards
               PROVE  /\ c \notin touched'[q] => Behind(req'[q].seen[c], card'[c])
                      /\ req'[q].phase = "fetched" => Behind(req'[q].copy[c], card'[c])
    BY DEF EditorsBehind
  <2>1. CASE q = p
    BY <1>1, <2>1
  <2>2. CASE q # p
    BY <1>1, <2>2 DEF Exclusive, EditorsBehind
  <2> QED
    BY <2>1, <2>2
<1>7. ValuesOnce(unique') /\ LiveValuesRegistered'
  BY KeepValues DEF Exclusive
<1>8. DeletionsOfLive'
  BY KeepDeletions DEF Exclusive
<1> QED
  BY <1>3, <1>4, <1>5, <1>6, <1>7, <1>8 DEF Exclusive

LEMMA ReadCardsExclusive ==
  ASSUME TypeOK, Exclusive, NEW p \in Procs, NEW S \in SUBSET Cards, ReadCards(p, S)
  PROVE  Exclusive'
<1> DEFINE r == [Idle EXCEPT !.op = "update", !.phase = "read", !.cards = S,
                             !.seen = Rows(S)]
<1>1. r \in Request
  BY IdleType, RowsType DEF Request
<1>2. r.op = "update" /\ r.phase = "read" /\ r.cards = S /\ r.seen = Rows(S)
  BY DEF Idle
<1>3. /\ req' = [req EXCEPT ![p] = r] /\ UNCHANGED <<card, unique, history, unchecked, touched>>
      /\ \A c \in S : Exists(c)
  BY DEF ReadCards, ghosts
<1>4. \A c \in S : Behind(Rows(S)[c], card[c])
  BY BehindOrder DEF TypeOK, Rows
<1> HIDE DEF r
<1> QED
  BY <1>1, <1>2, <1>3, <1>4, BeginExclusive

LEMMA FetchForUpdateExclusive ==
  ASSUME TypeOK, Exclusive, ~Overlap, NEW p \in Procs, FetchForUpdate(p)
  PROVE  Exclusive'
<1> DEFINE S == req[p].cards
           r == [req[p] EXCEPT !.phase = "fetched", !.copy = Rows(S)]
<1>1. req[p] \in Request /\ Rows(S) \in [Cards -> Row]
  BY RowsType DEF TypeOK, Request
<1>2. r \in Request
  BY <1>1 DEF Request
<1>3. /\ req[p].op = "update"
      /\ \A c \in S : /\ c \in Cards /\ Exists(c)
                      /\ c \notin touched[p] => Behind(req[p].seen[c], card[c])
  BY DEF FetchForUpdate, Exclusive, RequestsSensible, EditorsBehind, TypeOK, Request
<1>4. /\ r.op = req[p].op /\ r.phase = "fetched" /\ r.cards = S
      /\ r.seen = req[p].seen /\ r.copy = Rows(S)
  BY <1>1 DEF Request
<1>5. req' = [req EXCEPT ![p] = r] /\ UNCHANGED <<card, unique, history, unchecked, touched>>
  BY DEF FetchForUpdate, TypeOK, ghosts
<1>6. \A q \in Procs, c \in S : InWindow(q, c) => ~SavesRow(q)
  BY DEF FetchForUpdate, Free
<1>7. \A c \in S : Behind(Rows(S)[c], card[c])
  <2>1. \A c \in S : Rows(S)[c] = card[c] /\ card[c] \in Row
    BY <1>3 DEF Rows, TypeOK
  <2> QED
    BY <2>1, BehindOrder
<1> HIDE DEF r, S
<1>8. \A c \in r.cards : /\ Exists(c)
                         /\ c \notin touched[p] => Behind(r.seen[c], card[c])
                         /\ Behind(r.copy[c], card[c])
  BY <1>3, <1>4, <1>7
<1>9. r.op = "update" /\ r.phase = "fetched" /\ r.cards = S
  BY <1>3, <1>4
<1> QED
  BY <1>2, <1>5, <1>6, <1>8, <1>9, BeginExclusive

LEMMA FetchExclusive ==
  ASSUME TypeOK, Exclusive, ~Overlap, NEW p \in Procs, NEW S \in SUBSET Cards,
         NEW op \in Saver, Fetch(p, S, op)
  PROVE  Exclusive'
<1> DEFINE r == [Idle EXCEPT !.op = op, !.phase = "fetched", !.cards = S,
                             !.copy = Rows(S)]
<1>1. Rows(S) \in [Cards -> Row]
  BY RowsType
<1>2. r \in Request
  BY <1>1, IdleType DEF Request, Saver
<1>3. r.op = op /\ r.phase = "fetched" /\ r.cards = S /\ r.copy = Rows(S)
  BY DEF Idle
<1>4. /\ req' = [req EXCEPT ![p] = r] /\ UNCHANGED <<card, unique, history, unchecked, touched>>
      /\ \A c \in S : Exists(c)
      /\ op = "destroy" => \E c \in Cards : S = {c}
  BY DEF Fetch, ghosts
<1>5. \A q \in Procs, c \in S : ~InWindow(q, c)
  BY DEF Fetch, Free
<1>6. \A c \in S : Rows(S)[c] = card[c]
  BY DEF Rows
<1> HIDE DEF r
<1> QED
  BY <1>2, <1>3, <1>4, <1>5, <1>6, BeginExclusive DEF Saver

LEMMA SaveCopyExclusive ==
  ASSUME TypeOK, TypeOK', Exclusive, NEW p \in Procs, SaveCopy(p)
  PROVE  Exclusive'
<1>1. PICK c \in req[p].cards, patch \in Data :
        /\ card' = [card EXCEPT ![c] = Saved(req[p].copy[c], patch)]
        /\ unchecked' = IF Unregistered(c, Saved(req[p].copy[c], patch).data, unique)
                        THEN unchecked \cup {c} ELSE unchecked
        /\ touched' = [q \in Procs |-> IF req[q].op = "update" /\ c \in req[q].cards
                                       THEN touched[q] \cup {c} ELSE touched[q]]
  BY DEF SaveCopy
<1>2. c \in Cards /\ req[p].copy[c] = card[c]
  BY CopiesAreRows DEF SaveCopy
<1>3. /\ card'[c] = Saved(card[c], patch)
      /\ \A o \in Cards \ {c} : card'[o] = card[o]
      /\ req' = [req EXCEPT ![p] = Idle] /\ unique' = unique /\ history' = history
  BY <1>1, <1>2 DEF SaveCopy, TypeOK
<1>4. card'[c].status = card[c].status
  BY <1>2, <1>3 DEF Saved, TypeOK, Row
<1>5. \A q \in Procs : /\ req'[q] \in {req[q], Idle}
                       /\ q # p => ~InWindow(q, c)
  BY <1>1, <1>2, <1>3 DEF TypeOK, SaveCopy, Exclusive, SaversAlone, InWindow, SavesRow,
                          Saver
<1>6. req'[p] # req[p]
  BY <1>3 DEF TypeOK, Idle, SaveCopy
<1>7. ASSUME NEW q \in Procs, NEW o \in req[q].cards, req'[q] = req[q]
      PROVE  /\ req[q].op = "update" =>
                  /\ o \in touched'[q]
                     \/ (o \notin touched[q] /\ Behind(card[o], card'[o]))
                  /\ InWindow(q, o) => Behind(card[o], card'[o])
             /\ InWindow(q, o) /\ SavesRow(q) => card'[o] = card[o]
  <2>1. q # p /\ o \in Cards
    BY <1>6, <1>7 DEF TypeOK, Request
  <2>2. CASE o = c
    BY <1>1, <1>5, <2>1, <2>2
  <2>3. CASE o # c
    <3>1. card'[o] = card[o] /\ card[o] \in Row
      BY <1>3, <2>1, <2>3 DEF TypeOK
    <3>2. touched[q] \subseteq touched'[q]
      BY <1>1
    <3> QED
      BY <3>1, <3>2, BehindOrder
  <2> QED
    BY <2>2, <2>3
<1>8. \A o \in Cards : Exists(o) => Exists(o)'
  BY <1>3, <1>4 DEF Exists
<1>9. RequestsSensible' /\ SaversAlone' /\ SaversFresh' /\ EditorsBehind'
  BY <1>5, <1>7, <1>8, RequestsKept DEF Exclusive
<1>10. ValuesOnce(unique')
  BY <1>3 DEF Exclusive
<1>11. LiveValuesRegistered'
  <2>1. /\ unchecked \subseteq unchecked'
        /\ c \notin unchecked' => ~Unregistered(c, card'[c].data, unique')
    BY <1>1, <1>2, <1>3
  <2> QED
    <3>1. \A o \in Cards \ {c} : o \notin unchecked' => o \notin unchecked
      BY <2>1
    <3>2. c \notin unchecked' => \A f \in UniqueFields :
            card'[c].data[f] \in Values => unique'[c][f] = card'[c].data[f]
      BY <2>1 DEF Unregistered
    <3> QED
      BY <1>3, <3>1, <3>2 DEF Exclusive, LiveValuesRegistered
<1>12. DeletionsOfLive'
  BY <1>3, KeepDeletions DEF Exclusive
<1> QED
  BY <1>9, <1>10, <1>11, <1>12 DEF Exclusive

LEMMA NextExclusive ==
  TypeOK /\ Exclusive /\ ~Overlap /\ [Next]_vars => Exclusive'
<1> SUFFICES ASSUME TypeOK, Exclusive, ~Overlap, [Next]_vars PROVE Exclusive'
  OBVIOUS
<1>1. TypeOK'
  BY NextType
<1>2. CASE \E c \in Cards : Create(c) \/ Import(c)
  BY <1>1, <1>2, CreateExclusive, ImportExclusive
<1>3. CASE \E S \in SUBSET Cards : RequestPrint(S)
  BY <1>1, <1>3, RequestPrintExclusive
<1>4. ASSUME NEW p \in Procs, Serve(p) PROVE Exclusive'
  BY <1>1, <1>4, ReadCardsExclusive, FetchForUpdateExclusive, UpdateCardsExclusive,
     FetchExclusive, MoveExclusive, RestoreExclusive, SoftDeleteExclusive, EndExclusive,
     SaveCopyExclusive DEF Serve
<1>5. CASE UNCHANGED vars
  <2>1. /\ card' = card /\ unique' = unique /\ history' = history /\ req' = req
        /\ unchecked' = unchecked /\ touched' = touched
    BY <1>5 DEF vars, ghosts
  <2>2. \A c \in Cards : Exists(c) => Exists(c)' /\ Behind(card[c], card'[c])
    BY <2>1, BehindOrder DEF TypeOK, Exists
  <2>3. RequestsSensible' /\ SaversAlone' /\ SaversFresh' /\ EditorsBehind'
    BY <1>1, <2>1, <2>2, KeepRequests DEF Exclusive
  <2>4. ValuesOnce(unique') /\ LiveValuesRegistered'
    BY <2>1, KeepValues DEF Exclusive
  <2>5. DeletionsOfLive'
    BY <2>1, KeepDeletions DEF Exclusive
  <2> QED
    BY <2>3, <2>4, <2>5 DEF Exclusive
<1> QED
  BY <1>2, <1>3, <1>4, <1>5 DEF Next
-----------------------------------------------------------------------------
(***************************************************************************)
(* What follows from the invariant.                                        *)
(***************************************************************************)

\* AtomicCards reads the same rows and the same transition map.
LEMMA SameRules ==
  /\ Atomic!None = None /\ Atomic!Live = Live /\ Atomic!Status = Status
  /\ Atomic!Action = Action /\ Atomic!Data = Data /\ Atomic!NoRow = NoRow
  /\ \A s, a : Atomic!Target(s, a) = Target(s, a)
  /\ \A d : Atomic!NewRow(d) = NewRow(d)
  /\ \A d, patch : Atomic!Merge(d, patch) = Merge(d, patch)
  /\ \A r, d, v : Atomic!Edited(r, d, v) = Edited(r, d, v)
  /\ \A r, t : Atomic!Moved(r, t) = Moved(r, t)
  /\ \A r : Atomic!SoftDeleted(r) = SoftDeleted(r)
<1>1. Atomic!None = None /\ Atomic!Live = Live /\ Atomic!Status = Status
      /\ Atomic!Action = Action /\ Atomic!Data = Data
  BY DEF None, Atomic!None, Live, Atomic!Live, Status, Atomic!Status,
         Action, Atomic!Action, Data, Atomic!Data
<1>2. Atomic!NoRow = NoRow
  BY <1>1 DEF NoRow, Atomic!NoRow
<1>3. \A s, a : Atomic!Target(s, a) = Target(s, a)
  BY <1>1 DEF Target, Atomic!Target
<1>4. \A d : Atomic!NewRow(d) = NewRow(d)
  BY DEF NewRow, Atomic!NewRow
<1>5. \A d, patch : Atomic!Merge(d, patch) = Merge(d, patch)
  BY DEF Merge, Atomic!Merge
<1>6. \A r, d, v : Atomic!Edited(r, d, v) = Edited(r, d, v)
  BY DEF Edited, Atomic!Edited
<1>7. \A r, t : Atomic!Moved(r, t) = Moved(r, t)
  BY DEF Moved, Atomic!Moved
<1>8. \A r : Atomic!SoftDeleted(r) = SoftDeleted(r)
  BY DEF SoftDeleted, Atomic!SoftDeleted
<1> QED
  BY <1>1, <1>2, <1>3, <1>4, <1>5, <1>6, <1>7, <1>8

\* Registered values that are held once are distinct.
LEMMA RegisteredDistinct ==
  ValuesOnce(unique) /\ LiveValuesRegistered => LiveValuesDistinct
<1> SUFFICES ASSUME ValuesOnce(unique), LiveValuesRegistered,
                    NEW f \in UniqueFields, NEW c \in Cards \ unchecked,
                    NEW o \in Cards \ unchecked, c # o,
                    card[c].status \in Live, card[o].status \in Live,
                    card[c].data[f] \in Values, card[c].data[f] = card[o].data[f]
             PROVE  FALSE
  BY SameRules DEF LiveValuesDistinct, Atomic!DistinctIn
<1>1. unique[c][f] = card[c].data[f] /\ unique[o][f] = card[o].data[f]
  BY DEF LiveValuesRegistered
<1> QED
  BY <1>1 DEF ValuesOnce

\* The same after a step.
LEMMA StillDistinct == Exclusive' => Atomic!DistinctIn(card', unchecked')
<1> SUFFICES ASSUME Exclusive',
                    NEW f \in UniqueFields, NEW c \in Cards \ unchecked',
                    NEW o \in Cards \ unchecked', c # o,
                    card'[c].status \in Live, card'[o].status \in Live,
                    card'[c].data[f] \in Values, card'[c].data[f] = card'[o].data[f]
             PROVE  FALSE
  BY SameRules DEF Atomic!DistinctIn
<1>1. unique'[c][f] = card'[c].data[f] /\ unique'[o][f] = card'[o].data[f]
  BY DEF Exclusive, LiveValuesRegistered
<1> QED
  BY <1>1 DEF Exclusive, ValuesOnce

\* A batch of workflow steps is one atomic move.
LEMMA MoveRefines ==
  ASSUME NEW S \in SUBSET Cards, NEW t \in [S -> Status],
         \A c \in S : Exists(c) /\ Atomic!Step(card[c].status, t[c]),
         card' = [c \in Cards |-> IF c \in S THEN Moved(card[c], t[c]) ELSE card[c]],
         unchecked' = {c \in unchecked : c \in S => card[c].status # "DELETED"}
  PROVE  Atomic!Operate
<1>1. \A c \in S : Atomic!Exists(c)
  BY SameRules DEF Exists, Atomic!Exists
<1>2. Atomic!Move(S)
  BY <1>1, SameRules DEF Atomic!Move
<1> QED
  BY <1>2 DEF Atomic!Operate

\* Every step of the service is a step of the atomic table, or leaves it alone.
LEMMA StepOperates ==
  ASSUME TypeOK, Exclusive, [Next]_vars
  PROVE  Atomic!Operate \/ UNCHANGED <<card, unchecked>>
<1>1. ASSUME NEW c \in Cards, Create(c) \/ Import(c) PROVE Atomic!Operate
  <2>1. /\ ~Exists(c)
        /\ \E d \in Data : card' = [card EXCEPT ![c] = NewRow(d)]
        /\ unchecked' \in {unchecked, unchecked \cup {c}}
    BY <1>1 DEF Create, Import, ghosts
  <2>2. Atomic!Insert(c)
    BY <2>1, SameRules DEF Exists, Atomic!Insert, Atomic!Exists
  <2> QED
    BY <2>2 DEF Atomic!Operate
<1>2. ASSUME NEW p \in Procs, UpdateCards(p) PROVE Atomic!Operate
  <2> DEFINE S == req[p].cards
  <2>1. PICK patch \in [S -> Data], docs \in [S -> Data] :
          /\ \A c \in S : docs[c] = Merge(card[c].data, patch[c])
          /\ card' = [c \in Cards |->
                        IF c \in S THEN Edited(card[c], docs[c], card[c].version + 1)
                        ELSE card[c]]
    BY <1>2, UpdateCurrent
  <2>2. S \in SUBSET Cards /\ \A c \in S : Exists(c)
    BY DEF Exclusive, RequestsSensible, TypeOK, Request
  <2>3. unchecked' = unchecked \ S
    BY <1>2 DEF UpdateCards
  <2> HIDE DEF S
  <2>4. card' = [c \in Cards |->
                   IF c \in S THEN Edited(card[c], Merge(card[c].data, patch[c]),
                                         card[c].version + 1)
                   ELSE card[c]]
    BY <2>1
  <2>5. Atomic!Edit(S)
    BY <2>2, <2>3, <2>4, SameRules DEF Exists, Atomic!Edit, Atomic!Exists
  <2> QED
    BY <2>2, <2>5 DEF Atomic!Operate
<1>3. ASSUME NEW p \in Procs, NEW a \in Action, Move(p, a) PROVE Atomic!Operate
  <2> DEFINE S == req[p].cards
             t == [c \in S |-> Target(card[c].status, a)]
  <2>1. \A c \in S : c \in Cards /\ req[p].copy[c] = card[c] /\ Exists(c)
    BY <1>3, CopiesAreRows DEF Move, Exclusive, RequestsSensible
  <2>2. \A c \in S : Target(card[c].status, a) # None /\ card[c].status # "DELETED"
    BY <1>3, <2>1 DEF Move, Allowed, Target, Live
  <2>3. t \in [S -> Status]
    BY <2>2, TargetType
  <2>4. \A c \in S : Atomic!Step(card[c].status, t[c])
    BY SameRules DEF Atomic!Step
  <2>5. card' = [c \in Cards |-> IF c \in S THEN Moved(card[c], t[c]) ELSE card[c]]
    BY <1>3, <2>1 DEF Move
  <2>6. S \in SUBSET Cards
    BY <2>1
  <2>7. unchecked' = {c \in unchecked : c \in S => card[c].status # "DELETED"}
    BY <1>3, <2>2 DEF Move, ghosts
  <2> HIDE DEF S, t
  <2> QED
    BY <2>1, <2>3, <2>4, <2>5, <2>6, <2>7, MoveRefines
<1>4. ASSUME NEW p \in Procs, Restore(p) PROVE Atomic!Operate
  <2> DEFINE S == req[p].cards
  <2>1. \A c \in S : c \in Cards /\ req[p].copy[c] = card[c] /\ Exists(c)
    BY <1>4, CopiesAreRows DEF Restore, Exclusive, RequestsSensible
  <2>2. PICK t \in [S -> Status] :
          /\ \A c \in S : RestoresTo(c, t[c])
          /\ card' = [c \in Cards |-> IF c \in S THEN Moved(req[p].copy[c], t[c])
                                      ELSE card[c]]
    BY <1>4 DEF Restore
  <2>3. \A c \in S : Atomic!Step(card[c].status, t[c])
    BY <1>4, <2>1, <2>2, RestoresToLive, SameRules DEF Restore, Exclusive, Atomic!Step
  <2>4. card' = [c \in Cards |-> IF c \in S THEN Moved(card[c], t[c]) ELSE card[c]]
    BY <2>1, <2>2
  <2>5. S \in SUBSET Cards
    BY <2>1
  <2>6. unchecked' = {c \in unchecked : c \in S => card[c].status # "DELETED"}
    <3>1. unchecked' = unchecked \ S /\ \A c \in S : card[c].status = "DELETED"
      BY <1>4, <2>1 DEF Restore
    <3> QED
      BY <3>1
  <2> HIDE DEF S
  <2> QED
    BY <2>1, <2>2, <2>3, <2>4, <2>5, <2>6, MoveRefines
<1>5. ASSUME NEW R \in SUBSET Cards, RequestPrint(R) PROVE Atomic!Operate
  <2> DEFINE S == {c \in R : Printable(card[c])}
             t == [c \in S |-> "DOWNLOADED"]
  <2>1. \A c \in S : card[c].status = "APPROVED"
    BY DEF Printable
  <2>2. "DOWNLOADED" \in Status /\ "download" \in Action
    BY DEF Status, Live, Action
  <2>3. t \in [S -> Status]
    BY <2>2
  <2>4. \A c \in S : Exists(c) /\ Atomic!Step(card[c].status, t[c])
    <3>1. Target("APPROVED", "download") = "DOWNLOADED"
      BY DEF Target, Live
    <3> QED
      BY <2>1, <2>2, <3>1, SameRules DEF Exists, None, Atomic!Step
  <2>5. \A c \in S : Printed(card[c]) = Moved(card[c], t[c])
    BY <2>1 DEF Printed, Moved
  <2>6. card' = [c \in Cards |-> IF c \in S THEN Moved(card[c], t[c]) ELSE card[c]]
    BY <1>5, <2>5 DEF RequestPrint
  <2>7. S \in SUBSET Cards
    OBVIOUS
  <2>8. unchecked' = {c \in unchecked : c \in S => card[c].status # "DELETED"}
    BY <1>5, <2>1 DEF RequestPrint, ghosts
  <2> HIDE DEF S, t
  <2> QED
    BY <2>3, <2>4, <2>6, <2>7, <2>8, MoveRefines
<1>6. ASSUME NEW p \in Procs, SoftDelete(p) PROVE Atomic!Operate
  <2>1. PICK c \in Cards : req[p].cards = {c}
    BY <1>6 DEF SoftDelete, Exclusive, RequestsSensible
  <2>2. Exists(c) /\ req[p].copy[c] = card[c]
    BY <1>6, <2>1 DEF SoftDelete, Exclusive, RequestsSensible, SaversFresh, SavesRow,
                      Saver
  <2>3. card' = [card EXCEPT ![c] = SoftDeleted(@)] /\ unchecked' = unchecked
    BY <1>6, <2>1, <2>2 DEF SoftDelete, TypeOK, ghosts
  <2>4. Atomic!Remove(c)
    BY <2>2, <2>3, SameRules DEF Exists, Atomic!Remove, Atomic!Exists
  <2> QED
    BY <2>4 DEF Atomic!Operate
<1>7. ASSUME NEW p \in Procs, SaveCopy(p)
      PROVE  \E c \in Cards : Atomic!Annotate(c)
  <2>1. PICK c \in req[p].cards, patch \in Data :
          /\ card' = [card EXCEPT ![c] = Saved(req[p].copy[c], patch)]
          /\ unchecked' \in {unchecked, unchecked \cup {c}}
    BY <1>7 DEF SaveCopy
  <2>2. c \in Cards /\ req[p].copy[c] = card[c] /\ Exists(c)
    BY <1>7, CopiesAreRows DEF SaveCopy, Exclusive, RequestsSensible
  <2>3. card' = [card EXCEPT ![c].data = Merge(@, patch)]
    BY <2>1, <2>2 DEF Saved, TypeOK
  <2>4. Atomic!Annotate(c)
    BY <2>1, <2>2, <2>3, SameRules DEF Exists, Atomic!Annotate, Atomic!Exists
  <2> QED
    BY <2>2, <2>4
<1>8. CASE UNCHANGED <<card, ghosts>>
  BY <1>8 DEF ghosts
<1>9. ASSUME NEW p \in Procs,
             \/ \E S \in SUBSET Cards : ReadCards(p, S)
             \/ FetchForUpdate(p)
             \/ \E S \in SUBSET Cards, op \in Saver : Fetch(p, S, op)
             \/ FreeValues(p)
             \/ Fail(p)
      PROVE  UNCHANGED <<card, unchecked>>
  BY <1>9 DEF ReadCards, FetchForUpdate, Fetch, FreeValues, Fail, ghosts
<1> QED
  <2>1. (\E c \in Cards : Atomic!Annotate(c)) => Atomic!Operate
    BY DEF Atomic!Operate
  <2> QED
    BY <1>1, <1>2, <1>3, <1>4, <1>5, <1>6, <1>7, <1>8, <1>9, <2>1 DEF Next, Serve, vars

LEMMA StepRefines ==
  ASSUME TypeOK, Exclusive, Exclusive', [Next]_vars
  PROVE  [Atomic!Next]_<<card, unchecked>>
BY StepOperates, StillDistinct DEF Atomic!Next
-----------------------------------------------------------------------------
(***************************************************************************)
(* The theorems.                                                           *)
(***************************************************************************)

\* Without overlapping whole-row saves the exclusive invariant always holds.
LEMMA AlwaysExclusive ==
  ASSUME ~Overlap
  PROVE  Spec => [](TypeOK /\ Exclusive)
<1>1. TypeOK /\ Exclusive /\ [Next]_vars => (TypeOK /\ Exclusive)'
  BY NextType, NextExclusive
<1> QED
  BY <1>1, InitType, InitExclusive, PTL DEF Spec

\* The values a live card shows in unique fields are registered, and no two
\* live cards show the same, through edits, deletions, restores, prints and image
\* saves: only a card that an import or a reprint wrote with a value that was not
\* free, or not registered, is left out, until its next edit or restore.
THEOREM UniqueValues ==
  ASSUME ~Overlap
  PROVE  Spec => [](LiveValuesRegistered /\ LiveValuesDistinct)
<1>1. Exclusive => LiveValuesRegistered /\ LiveValuesDistinct
  BY RegisteredDistinct DEF Exclusive
<1> QED
  BY <1>1, AlwaysExclusive, PTL

\* The first half by itself, for the run that checks it.
THEOREM ValuesRegistered ==
  ASSUME ~Overlap
  PROVE  Spec => []LiveValuesRegistered
BY UniqueValues, PTL

\* An edit is accepted only from a client that saw the data it changes, but for
\* what an image or a reprint step saved since.
THEOREM EditsAreCurrent ==
  ASSUME ~Overlap
  PROVE  Spec => EditsSeeCurrentData
<1>1. ASSUME TypeOK, Exclusive, NEW p \in Procs, UpdateCards(p)
      PROVE  \A c \in req[p].cards \ touched[p] : req[p].seen[c].data = card[c].data
  <2>1. \A c \in req[p].cards \ touched[p] :
           /\ card[c].version = req[p].seen[c].version
           /\ Behind(req[p].seen[c], card[c])
    BY <1>1 DEF UpdateCards, Current, Exclusive, EditorsBehind
  <2> QED
    BY <2>1 DEF Behind
<1>2. TypeOK /\ Exclusive /\ [Next]_vars =>
        [\A p \in Procs : UpdateCards(p) =>
           \A c \in req[p].cards \ touched[p] :
             req[p].seen[c].data = card[c].data]_vars
  BY <1>1
<1> QED
  BY <1>2, AlwaysExclusive, PTL DEF Spec, EditsSeeCurrentData

\* Data changes by accepted edits, and by the images and reprints merged into
\* the current data, alone.
THEOREM EditsSurvive ==
  ASSUME ~Overlap
  PROVE  Spec => AcceptedEditsSurvive
<1> DEFINE Accepted(c) ==
             \E p \in Procs :
               /\ c \in req[p].cards
               /\ \/ UpdateCards(p)
                  \/ SaveCopy(p) /\ \E patch \in Data :
                                      card'[c].data = Merge(card[c].data, patch)
<1>1. ASSUME TypeOK, Exclusive, [Next]_vars, NEW c \in Cards,
             Exists(c), card'[c].data # card[c].data
      PROVE  Accepted(c)
  <2>1. ASSUME NEW o \in Cards, Create(o) \/ Import(o) PROVE FALSE
    BY <1>1, <2>1 DEF Create, Import, TypeOK
  <2>2. ASSUME NEW S \in SUBSET Cards, RequestPrint(S) PROVE FALSE
    BY <1>1, <2>2, RowFields DEF RequestPrint
  <2>3. ASSUME NEW p \in Procs, NEW a \in Action, Move(p, a) PROVE FALSE
    <3>1. \A o \in req[p].cards : req[p].copy[o] = card[o]
      BY <1>1, <2>3, CopiesAreRows DEF Move
    <3> QED
      BY <1>1, <2>3, <3>1, RowFields DEF Move
  <2>4. ASSUME NEW p \in Procs, Restore(p) PROVE FALSE
    <3>1. \A o \in req[p].cards : req[p].copy[o] = card[o]
      BY <1>1, <2>4, CopiesAreRows DEF Restore
    <3> QED
      BY <1>1, <2>4, <3>1, RowFields DEF Restore
  <2>5. ASSUME NEW p \in Procs, SoftDelete(p) PROVE FALSE
    <3>1. \A o \in req[p].cards : req[p].copy[o] = card[o]
      BY <1>1, <2>5 DEF SoftDelete, Exclusive, SaversFresh, SavesRow, Saver
    <3> QED
      BY <1>1, <2>5, <3>1, RowFields DEF SoftDelete
  <2>6. ASSUME NEW p \in Procs, UpdateCards(p) PROVE c \in req[p].cards
    BY <1>1, <2>6 DEF UpdateCards
  <2>7. ASSUME NEW p \in Procs, SaveCopy(p)
        PROVE  /\ c \in req[p].cards
               /\ \E patch \in Data : card'[c].data = Merge(card[c].data, patch)
    <3>1. PICK o \in req[p].cards, patch \in Data :
            card' = [card EXCEPT ![o] = Saved(req[p].copy[o], patch)]
      BY <2>7 DEF SaveCopy
    <3>2. o \in Cards /\ req[p].copy[o] = card[o]
      BY <1>1, <2>7, CopiesAreRows DEF SaveCopy
    <3>3. o = c
      BY <1>1, <3>1, <3>2 DEF TypeOK
    <3>4. card'[c].data = Merge(card[c].data, patch)
      BY <1>1, <3>1, <3>2, <3>3 DEF Saved, TypeOK, Row
    <3> QED
      BY <3>3, <3>4
  <2>8. CASE card' = card
    BY <1>1, <2>8
  <2> QED
    BY <1>1, <2>1, <2>2, <2>3, <2>4, <2>5, <2>6, <2>7, <2>8
       DEF Next, Serve, vars, ReadCards, FetchForUpdate, Fetch, FreeValues, Fail
<1>2. TypeOK /\ Exclusive /\ [Next]_vars =>
        [\A c \in Cards : Exists(c) /\ card'[c].data # card[c].data
           => Accepted(c)]_vars
  BY <1>1
<1> QED
  BY <1>2, AlwaysExclusive, PTL DEF Spec, AcceptedEditsSurvive

\* The card service implements the table of atomic versioned cards.
THEOREM Implementation ==
  ASSUME ~Overlap
  PROVE  Spec => ImplementsAtomicCards
<1>1. Init => Atomic!Init
  BY SameRules DEF Init, Atomic!Init
<1>2. TypeOK /\ Exclusive /\ (TypeOK /\ Exclusive)' /\ [Next]_vars
        => [Atomic!Next]_<<card, unchecked>>
  BY StepRefines
<1> QED
  BY <1>1, <1>2, AlwaysExclusive, PTL DEF Spec, ImplementsAtomicCards, Atomic!Spec
-----------------------------------------------------------------------------
(***************************************************************************)
(* The history explains the status: a step that records nothing saves a    *)
(* copy that is the row.                                                   *)
(***************************************************************************)

\* The status a history ends in.
Told(h) == IF h = <<>> THEN "PENDING" ELSE h[Len(h)].new

\* HistoryTellsStatus with what makes it inductive: nothing is recorded of a
\* card before it exists.
HistoryInvariant ==
  \A c \in Cards : /\ card[c].status \in Live => card[c].status = Told(history[c])
                   /\ card[c].status = None => history[c] = <<>>

\* A card whose row is written with the entry that explains it.
LEMMA RecordedStatus ==
  ASSUME TypeOK, NEW c \in Cards, NEW s \in Status, NEW t \in Status,
         history'[c] = Recorded(history[c], s, t), card'[c].status = t
  PROVE  /\ card'[c].status \in Live => card'[c].status = Told(history'[c])
         /\ card'[c].status = None => history'[c] = <<>>
<1>1. /\ history'[c] # <<>>
      /\ history'[c][Len(history'[c])] = [old |-> s, new |-> t]
  <2>1. history[c] \in Seq(Entry)
    BY DEF TypeOK
  <2> QED
    BY <2>1, RecordedEntries
<1>2. t # None
  BY DEF Status, Live, None
<1> QED
  BY <1>1, <1>2 DEF Told

\* The steps that record nothing leave every status alone or delete the card.
LEMMA UnrecordedStatus ==
  ASSUME HistoryInvariant, history' = history,
         \A c \in Cards : card'[c].status \in {card[c].status, "DELETED"}
  PROVE  HistoryInvariant'
<1> SUFFICES ASSUME NEW c \in Cards
             PROVE  /\ card'[c].status \in Live => card'[c].status = Told(history'[c])
                    /\ card'[c].status = None => history'[c] = <<>>
  BY DEF HistoryInvariant
<1>1. CASE card'[c].status = card[c].status
  BY <1>1 DEF HistoryInvariant
<1>2. CASE card'[c].status = "DELETED"
  BY <1>2 DEF Live, None
<1> QED
  BY <1>1, <1>2

LEMMA InitHistory == Init => HistoryInvariant
BY DEF Init, HistoryInvariant, NoRow, None, Live

\* Every step preserves the history invariant.
LEMMA NextHistory ==
  TypeOK /\ Exclusive /\ HistoryInvariant /\ [Next]_vars => HistoryInvariant'
<1> SUFFICES ASSUME TypeOK, Exclusive, HistoryInvariant, [Next]_vars
             PROVE  HistoryInvariant'
  OBVIOUS
<1> DEFINE Explained(c) ==
             /\ card'[c].status \in Live => card'[c].status = Told(history'[c])
             /\ card'[c].status = None => history'[c] = <<>>
<1>0. (\A c \in Cards : Explained(c)) => HistoryInvariant'
  BY DEF HistoryInvariant
<1>1. \A c \in Cards : card'[c] = card[c] /\ history'[c] = history[c] => Explained(c)
  BY DEF HistoryInvariant
<1>2. ASSUME NEW c \in Cards, Create(c) \/ Import(c) PROVE HistoryInvariant'
  <2>1. history' = history /\ card[c].status = None
    BY <1>2 DEF Create, Import, Exists
  <2>2. card'[c].status = "PENDING" /\ \A d \in Cards \ {c} : card'[d] = card[d]
    BY <1>2 DEF Create, Import, NewRow, TypeOK
  <2>3. Explained(c)
    BY <2>1, <2>2 DEF HistoryInvariant, Told, None
  <2> QED
    BY <1>0, <1>1, <2>1, <2>2, <2>3
<1>3. ASSUME NEW S \in SUBSET Cards, RequestPrint(S) PROVE HistoryInvariant'
  <2> SUFFICES ASSUME NEW c \in Cards PROVE Explained(c)
    BY <1>0
  <2>1. CASE ~(c \in S /\ Printable(card[c]))
    BY <1>1, <1>3, <2>1 DEF RequestPrint
  <2>2. CASE c \in S /\ Printable(card[c])
    <3>1. /\ history'[c] = Recorded(history[c], "APPROVED", "DOWNLOADED")
          /\ card'[c].status = "DOWNLOADED"
          /\ "APPROVED" \in Status /\ "DOWNLOADED" \in Status
      BY <1>3, <2>2 DEF RequestPrint, Printable, Printed, Status, Live
    <3> QED
      BY <3>1, RecordedStatus
  <2> QED
    BY <2>1, <2>2
<1>4. ASSUME NEW p \in Procs, NEW a \in Action, Move(p, a) PROVE HistoryInvariant'
  <2> SUFFICES ASSUME NEW c \in Cards PROVE Explained(c)
    BY <1>0
  <2>1. CASE c \notin req[p].cards
    BY <1>1, <1>4, <2>1 DEF Move
  <2>2. CASE c \in req[p].cards
    <3> DEFINE s == req[p].copy[c].status
               t == Target(s, a)
    <3>1. s \in Status /\ t \in Status
      BY <1>4, <2>2, TargetType DEF Move, Allowed, Target, Status, Live, None
    <3>2. history'[c] = Recorded(history[c], s, t) /\ card'[c].status = t
      BY <1>4, <2>2 DEF Move, Moved
    <3> QED
      BY <3>1, <3>2, RecordedStatus
  <2> QED
    BY <2>1, <2>2
<1>5. ASSUME NEW p \in Procs, Restore(p) PROVE HistoryInvariant'
  <2> SUFFICES ASSUME NEW c \in Cards PROVE Explained(c)
    BY <1>0
  <2>1. PICK t \in [req[p].cards -> Status] :
          /\ card' = [d \in Cards |-> IF d \in req[p].cards
                                      THEN Moved(req[p].copy[d], t[d]) ELSE card[d]]
          /\ history' = [d \in Cards |-> IF d \in req[p].cards
                                         THEN Recorded(history[d], "DELETED", t[d])
                                         ELSE history[d]]
    BY <1>5 DEF Restore
  <2>2. CASE c \notin req[p].cards
    BY <1>1, <2>1, <2>2
  <2>3. CASE c \in req[p].cards
    <3>1. /\ history'[c] = Recorded(history[c], "DELETED", t[c])
          /\ card'[c].status = t[c]
          /\ t[c] \in Status /\ "DELETED" \in Status
      BY <2>1, <2>3 DEF Moved, Status
    <3> QED
      BY <3>1, RecordedStatus
  <2> QED
    BY <2>2, <2>3
<1>6. ASSUME NEW p \in Procs, SoftDelete(p) PROVE HistoryInvariant'
  <2>1. history' = history
    BY <1>6 DEF SoftDelete
  <2>2. \A c \in Cards : card'[c].status \in {card[c].status, "DELETED"}
    BY <1>6 DEF SoftDelete, SoftDeleted
  <2> QED
    BY <2>1, <2>2, UnrecordedStatus
<1>7. ASSUME NEW p \in Procs, UpdateCards(p) PROVE HistoryInvariant'
  <2>1. history' = history
    BY <1>7 DEF UpdateCards
  <2>2. \A c \in Cards : card'[c].status = card[c].status
    BY <1>7 DEF UpdateCards, Edited, TypeOK
  <2> QED
    BY <2>1, <2>2, UnrecordedStatus
<1>8. ASSUME NEW p \in Procs, SaveCopy(p) PROVE HistoryInvariant'
  <2>1. PICK c \in req[p].cards, patch \in Data :
          card' = [card EXCEPT ![c] = Saved(req[p].copy[c], patch)]
    BY <1>8 DEF SaveCopy
  <2>2. c \in Cards /\ req[p].copy[c] = card[c]
    BY <1>8, CopiesAreRows DEF SaveCopy
  <2>3. card'[c].status = card[c].status
    BY <2>1, <2>2 DEF Saved, TypeOK, Row
  <2>4. \A d \in Cards : card'[d].status = card[d].status
    BY <2>1, <2>2, <2>3 DEF TypeOK
  <2>5. history' = history
    BY <1>8 DEF SaveCopy
  <2> QED
    BY <2>4, <2>5, UnrecordedStatus
<1>9. CASE card' = card /\ history' = history
  BY <1>9, UnrecordedStatus
<1> QED
  BY <1>2, <1>3, <1>4, <1>5, <1>6, <1>7, <1>8, <1>9
     DEF Next, Serve, vars, ReadCards, FetchForUpdate, Fetch, FreeValues, Fail

\* The workflow history of a live card ends in its status, as long as no save
\* of a whole row overlaps another request on the card: with it, an image or a
\* reprint step can put an earlier status back without an entry (the run with
\* overlaps checks what is left, StatusWasReached).
THEOREM HistoryExplainsStatus ==
  ASSUME ~Overlap
  PROVE  Spec => []HistoryTellsStatus
<1>1. Spec => [](TypeOK /\ Exclusive /\ HistoryInvariant)
  BY AlwaysExclusive, InitHistory, NextHistory, PTL DEF Spec
<1>2. HistoryInvariant => HistoryTellsStatus
  BY DEF HistoryInvariant, HistoryTellsStatus, Told
<1> QED
  BY <1>1, <1>2, PTL
-----------------------------------------------------------------------------
(***************************************************************************)
(* What the optimistic check rests on: what the version of a row tells.    *)
(* It is a fact about the table of atomic cards, and holds of the service  *)
(* because the service implements it.                                      *)
(***************************************************************************)

\* What a step may do to a card that exists: never lower its version, and raise
\* it with every change of its status but a deletion and of its data but an
\* image or a reprint.
VersionTells ==
  \A c \in Cards : Exists(c) =>
    /\ Exists(c)' /\ card'[c].version >= card[c].version
    /\ card'[c].data # card[c].data =>
         card'[c].version > card[c].version \/ Atomic!Annotate(c)
    /\ card'[c].status # card[c].status =>
         card'[c].version > card[c].version \/ card'[c].status = "DELETED"

LEMMA AtomicVersionTells ==
  ASSUME TypeOK, TypeOK', [Atomic!Next]_<<card, unchecked>>
  PROVE  VersionTells
<1> SUFFICES ASSUME NEW c \in Cards, Exists(c), card'[c] # card[c]
             PROVE  /\ card'[c].status # None
                    /\ \/ card'[c].version = card[c].version + 1
                       \/ /\ card'[c].version = card[c].version
                          /\ card'[c].data = card[c].data /\ card'[c].status = "DELETED"
                       \/ /\ card'[c].version = card[c].version
                          /\ card'[c].status = card[c].status
                          /\ Atomic!Annotate(c)
  <2>1. \A c \in Cards : card[c].version \in Nat /\ card'[c].version \in Nat
    BY DEF TypeOK, Row
  <2>2. QED
    BY <2>1 DEF VersionTells, Exists
<1>0. card \in [Cards -> Row] /\ card' \in [Cards -> Row]
  BY DEF TypeOK
<1>1. ASSUME NEW o \in Cards, Atomic!Insert(o) PROVE FALSE
  BY <1>0, <1>1, SameRules DEF Atomic!Insert, Atomic!Exists, Exists
<1>2. CASE \E S \in SUBSET Cards : Atomic!Edit(S)
  <2>1. PICK S \in SUBSET Cards : Atomic!Edit(S)
    BY <1>2
  <2>2. PICK patch \in [S -> Data] :
          card' = [o \in Cards |->
                     IF o \in S THEN Edited(card[o], Merge(card[o].data, patch[o]),
                                            card[o].version + 1)
                     ELSE card[o]]
    BY <2>1, SameRules DEF Atomic!Edit
  <2>3. card'[c] = Edited(card[c], Merge(card[c].data, patch[c]), card[c].version + 1)
    BY <2>2
  <2>4. card'[c].version = card[c].version + 1 /\ card'[c].status = card[c].status
    BY <2>3 DEF Edited
  <2>5. QED
    BY <2>4 DEF Exists
<1>3. CASE \E S \in SUBSET Cards : Atomic!Move(S)
  <2>1. PICK S \in SUBSET Cards : Atomic!Move(S)
    BY <1>3
  <2>2. PICK t \in [S -> Status] :
          card' = [o \in Cards |-> IF o \in S THEN Moved(card[o], t[o]) ELSE card[o]]
    BY <2>1, SameRules DEF Atomic!Move
  <2>3. c \in S /\ card'[c] = Moved(card[c], t[c])
    BY <2>2
  <2>4. card'[c].version = card[c].version + 1 /\ card'[c].status \in Status
    BY <2>3, RowFields
  <2>5. QED
    BY <2>4 DEF Status, Live, None
<1>4. ASSUME NEW o \in Cards, Atomic!Remove(o)
      PROVE  /\ card'[c].version = card[c].version
             /\ card'[c].data = card[c].data /\ card'[c].status = "DELETED"
  <2>1. card'[c] = SoftDeleted(card[c])
    BY <1>0, <1>4, SameRules DEF Atomic!Remove
  <2>2. QED
    BY <2>1, RowFields
<1>5. ASSUME NEW o \in Cards, Atomic!Annotate(o)
      PROVE  /\ card'[c].version = card[c].version
             /\ card'[c].status = card[c].status
             /\ Atomic!Annotate(c)
  <2>1. PICK patch \in Data : card' = [card EXCEPT ![o].data = Merge(@, patch)]
    BY <1>5, SameRules DEF Atomic!Annotate
  <2>2. o = c
    BY <1>0, <2>1
  <2>3. QED
    BY <1>0, <1>5, <2>1, <2>2 DEF Row
<1>6. QED
  BY <1>1, <1>2, <1>3, <1>4, <1>5 DEF Atomic!Next, Atomic!Operate, Exists, None

\* The version of a card never goes back, and every step that changes its
\* status, a deletion apart, or its data, an image or a reprint apart, raises
\* it: an editor that finds the version it saw has missed nothing else.
THEOREM VersionsRise ==
  ASSUME ~Overlap
  PROVE  Spec => [][VersionTells]_<<card, unchecked>>
<1>1. TypeOK /\ TypeOK' /\ [Atomic!Next]_<<card, unchecked>>
        => [VersionTells]_<<card, unchecked>>
  BY AtomicVersionTells
<1> QED
  BY <1>1, Implementation, AlwaysExclusive, PTL DEF ImplementsAtomicCards, Atomic!Spec
=============================================================================
