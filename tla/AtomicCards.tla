---------------------------- MODULE AtomicCards ----------------------------
(***************************************************************************)
(* What the card service promises, with no requests, no side table of      *)
(* unique values and no copies of rows: a table of versioned rows on which *)
(* every operation happens at once, on the current row.  An edit changes   *)
(* data and nothing else, a workflow step changes the status along the     *)
(* transition map and nothing else, both raise the version by one.  An     *)
(* image or a reprint changes data and no version.  No two live cards      *)
(* share a value of a unique field, those aside that an import or a        *)
(* reprint left unchecked.                                                 *)
(***************************************************************************)
EXTENDS CardRows

VARIABLES card, unchecked

Exists(c) == card[c].status # None

\* Two live cards of the table that are checked never have the same value of
\* a unique field.
DistinctIn(rows, without) ==
  \A f \in UniqueFields : \A c, o \in Cards \ without :
    /\ c # o
    /\ rows[c].status \in Live
    /\ rows[o].status \in Live
    /\ rows[c].data[f] \in Values
    => rows[c].data[f] # rows[o].data[f]
-----------------------------------------------------------------------------
Init == card = [c \in Cards |-> NoRow] /\ unchecked = {}

Insert(c) ==
  /\ ~Exists(c)
  /\ \E d \in Data : card' = [card EXCEPT ![c] = NewRow(d)]
  /\ unchecked' \in {unchecked, unchecked \cup {c}}

\* A batch of cards is edited in one transaction.
Edit(S) ==
  /\ \A c \in S : Exists(c)
  /\ \E patch \in [S -> Data] :
       card' = [c \in Cards |->
                  IF c \in S
                  THEN Edited(card[c], Merge(card[c].data, patch[c]), card[c].version + 1)
                  ELSE card[c]]
  /\ unchecked' = unchecked \ S

\* An image or a reprint is merged into the data of one card.
Annotate(c) ==
  /\ Exists(c)
  /\ \E patch \in Data : card' = [card EXCEPT ![c].data = Merge(@, patch)]
  /\ unchecked' \in {unchecked, unchecked \cup {c}}

\* One workflow step of one card: along the map, or back from DELETED.
Step(s, t) == (\E a \in Action : Target(s, a) = t) \/ (s = "DELETED" /\ t \in Live)

\* A batch of cards moves in one transaction, each by one workflow step; one
\* that comes back from DELETED is checked again.
Move(S) ==
  /\ \E t \in [S -> Status] :
       /\ \A c \in S : Exists(c) /\ Step(card[c].status, t[c])
       /\ card' = [c \in Cards |-> IF c \in S THEN Moved(card[c], t[c]) ELSE card[c]]
  /\ unchecked' = {c \in unchecked : c \in S => card[c].status # "DELETED"}

\* DELETE on the REST endpoint: no version, no data, only the status.
Remove(c) ==
  /\ Exists(c)
  /\ card' = [card EXCEPT ![c] = SoftDeleted(@)]
  /\ UNCHANGED unchecked

Operate ==
  \/ \E c \in Cards : Insert(c) \/ Annotate(c) \/ Remove(c)
  \/ \E S \in SUBSET Cards : Edit(S) \/ Move(S)

Next == Operate /\ DistinctIn(card', unchecked')

Spec == Init /\ [][Next]_<<card, unchecked>>
=============================================================================
