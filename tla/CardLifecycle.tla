--------------------------- MODULE CardLifecycle ---------------------------
(***************************************************************************)
(* The cards of one table under concurrent requests: the REST card         *)
(* endpoints (create, edit, destroy), the workflow endpoints (transition,  *)
(* bulk transition), the desktop print request, the image operations and   *)
(* reprint steps that save the card they hold, and the rows an import      *)
(* inserts, with the side table CardUniqueValue and the WorkflowHistory.   *)
(*                                                                         *)
(* PostgreSQL runs at READ COMMITTED.  One database transaction is one     *)
(* action; a request that reads a row outside it (the view's get_card)     *)
(* and writes from that copy later takes several actions, and keeps the    *)
(* copy in req[p] between them.                                            *)
(***************************************************************************)
EXTENDS CardRows, Sequences, FiniteSets

CONSTANTS Procs,         \* the web and task workers that serve requests
          ImageFields,   \* the fields of type IMAGE
          Overlap,       \* may a request that saves a whole row overlap others?
          MaxVersion,    \* bound: no request raises the version of c above
                         \* MaxVersion[c]
          MaxHistory     \* bound: card c has at most MaxHistory[c] history entries

ASSUME CardAssumption ==
  /\ Overlap \in BOOLEAN
  /\ ImageFields \subseteq Fields
  /\ MaxVersion \in [Cards -> Nat]
  /\ MaxHistory \in [Cards -> Nat]

VARIABLES card,     \* cards_card: the row of each card
          unique,   \* cards_card_unique_value: the value a card holds, if any
          history,  \* workflow_history of each card, oldest first
          req       \* the request each worker is serving

\* History variables, that the properties alone read: the cards that show a
\* value nobody registered, because an import or a reprint wrote it, and, of
\* each edit, the cards whose data an image or reprint step has saved, version
\* unchanged, since the client read them.
VARIABLES unchecked, touched

ghosts == <<unchecked, touched>>

vars == <<card, unique, history, req, ghosts>>

Exists(c) == card[c].status # None

Entry == [old : Status, new : Status]

\* A request: its operation, how far it is, the cards it works on, what the
\* client saw before it sent the request, and the Card objects the view holds.
Request == [op : {"none", "update", "transition", "destroy", "image", "reprint"},
            phase : {"idle", "read", "fetched", "deleted"},
            cards : SUBSET Cards, seen : [Cards -> Row], copy : [Cards -> Row]]

NoCopy == [c \in Cards |-> NoRow]

Idle == [op |-> "none", phase |-> "idle", cards |-> {}, seen |-> NoCopy,
         copy |-> NoCopy]

\* The Card objects a query for the cards of S returns.
Rows(S) == [c \in Cards |-> IF c \in S THEN card[c] ELSE NoRow]

\* Type correctness of the tables and of the requests in flight.
TypeOK ==
  /\ card \in [Cards -> Row]
  /\ unique \in [Cards -> [UniqueFields -> Values \cup {Absent}]]
  /\ history \in [Cards -> Seq(Entry)]
  /\ req \in [Procs -> Request]
  /\ unchecked \subseteq Cards
  /\ touched \in [Procs -> SUBSET Cards]

Init ==
  /\ card = [c \in Cards |-> NoRow]
  /\ unique = [c \in Cards |-> [f \in UniqueFields |-> Absent]]
  /\ history = [c \in Cards |-> <<>>]
  /\ req = [p \in Procs |-> Idle]
  /\ unchecked = {}
  /\ touched = [p \in Procs |-> {}]
-----------------------------------------------------------------------------
(* CardUniqueValue *)

\* Mutant: the unique index is missing.
ClashNoIndex(c, d, held) == FALSE

\* The unique index rejects d for card c: another card's row has the value.
Clash(c, d, held) ==
  \E f \in UniqueFields : \E o \in Cards \ {c} :
    d[f] \in Values /\ held[o][f] = d[f]

\* _enforce_unique_fields: upsert a value, drop the row of an empty one, and
\* leave a field the document does not have alone.
Enforced(c, d) ==
  [f \in UniqueFields |->
     IF d[f] \in Values THEN d[f]
     ELSE IF d[f] = Blank THEN Absent ELSE unique[c][f]]

\* The documents docs of the cards of S registered one after the other, in the
\* order rank gives them: what the table holds when the turn of rank r comes.
HeldBefore(S, docs, rank, r) ==
  [o \in Cards |-> IF o \in S /\ rank[o] < r THEN Enforced(o, docs[o])
                   ELSE unique[o]]

\* Some order of the batch meets no clash (the client orders a batch of edits,
\* nothing orders a batch of restores).
Enforceable(S, docs) ==
  \E rank \in [S -> 1..Cardinality(S)] :
    /\ \A c, o \in S : c # o => rank[c] # rank[o]
    /\ \A c \in S : ~Clash(c, docs[c], HeldBefore(S, docs, rank, rank[c]))

NoValues == [f \in UniqueFields |-> Absent]

\* A value of d that the table does not have for card c.
Unregistered(c, d, held) == \E f \in UniqueFields : d[f] \in Values /\ held[c][f] # d[f]
-----------------------------------------------------------------------------
(* Requests *)

\* Worker q holds a copy of c that it may still write from.
InWindow(q, c) == req[q].phase \in {"fetched", "deleted"} /\ c \in req[q].cards

Saver == {"transition", "destroy", "image", "reprint"}
SavesRow(q) == req[q].op \in Saver

\* With ~Overlap no request starts to work on a card while another one that
\* saves the whole row works on it, and one that saves the whole row waits
\* for everybody.  With Overlap, as deployed, nothing keeps them apart.
Free(S, savesRow) ==
  Overlap \/ \A q \in Procs : \A c \in S :
               InWindow(q, c) => ~savesRow /\ ~SavesRow(q)

\* The history entry of a status change, written with it.
RecordedReversed(h, s, t) == Append(h, [old |-> t, new |-> s])
Recorded(h, s, t) == Append(h, [old |-> s, new |-> t])

\* The bounds of the model: one more version, one more history entry.
HasRoom(c, version) == version < MaxVersion[c] /\ Len(history[c]) < MaxHistory[c]

\* POST /cards: one transaction; a clash rolls all of it back.
Create(c) ==
  /\ ~Exists(c)
  /\ \E d \in Data :
       /\ ~Clash(c, d, unique)
       /\ card' = [card EXCEPT ![c] = NewRow(d)]
       /\ unique' = [unique EXCEPT ![c] = Enforced(c, d)]
  /\ UNCHANGED <<history, req, ghosts>>

\* A row of an import (_import_chunk_transaction): a value that is taken is
\* only warned of.  The card is made with it, and only the values that are
\* free are registered.
Import(c) ==
  /\ ~Exists(c)
  /\ \E d \in Data :
       LET registered == [f \in UniqueFields |->
             IF \E o \in Cards : d[f] \in Values /\ unique[o][f] = d[f] THEN Absent
             ELSE Enforced(c, d)[f]]
       IN /\ card' = [card EXCEPT ![c] = NewRow(d)]
          /\ unique' = [unique EXCEPT ![c] = registered]
          /\ unchecked' = IF Unregistered(c, d, unique') THEN unchecked \cup {c}
                          ELSE unchecked
  /\ UNCHANGED <<history, req, touched>>

\* The client lists the cards it is about to edit; the versions it sends back
\* with the edit are those it saw here.
ReadCards(p, S) ==
  /\ req[p] = Idle
  /\ S # {} /\ \A c \in S : Exists(c)
  /\ req' = [req EXCEPT ![p] = [Idle EXCEPT !.op = "update", !.phase = "read",
                                            !.cards = S, !.seen = Rows(S)]]
  /\ UNCHANGED <<card, unique, history, ghosts>>

\* PATCH /cards/{c}: the view's get_card, before update_card's transaction; or
\* PATCH /cards/bulk_update, which fetches each card before it updates it.
FetchForUpdate(p) ==
  /\ req[p].phase = "read"
  /\ Free(req[p].cards, FALSE)
  /\ req' = [req EXCEPT ![p].phase = "fetched", ![p].copy = Rows(req[p].cards)]
  /\ UNCHANGED <<card, unique, history, ghosts>>

\* The compare-and-set of update_card.
CurrentUnchecked(c, expected) == TRUE
Current(c, expected) == card[c].version = expected

\* update_card on every card of the request, in one transaction: merge into the
\* copy's data, write if the row still has the expected version, register the
\* unique values.  No status is checked.
UpdateCards(p) ==
  LET S == req[p].cards
      copy == req[p].copy
      expected(c) == req[p].seen[c].version
  IN /\ req[p].op = "update" /\ req[p].phase = "fetched"
     /\ \A c \in S : /\ copy[c].version = expected(c)
                     /\ Current(c, expected(c))
                     /\ expected(c) < MaxVersion[c]
     /\ \E patch \in [S -> Data] :
          LET new == [c \in S |-> Merge(copy[c].data, patch[c])]
          IN /\ Enforceable(S, new)
             /\ card' = [c \in Cards |->
                           IF c \in S THEN Edited(card[c], new[c], expected(c) + 1)
                           ELSE card[c]]
             /\ unique' = [c \in Cards |->
                             IF c \in S THEN Enforced(c, new[c]) ELSE unique[c]]
     /\ req' = [req EXCEPT ![p] = Idle]
     /\ unchecked' = unchecked \ S
     /\ touched' = [touched EXCEPT ![p] = {}]
     /\ UNCHANGED history

\* The card was DOWNLOADED once: only then can a reprint have been asked for.
WasDownloaded(c) == \E i \in DOMAIN history[c] : history[c][i].new = "DOWNLOADED"

\* The view of a transition or of destroy fetches its card, bulk_transition
\* lists its cards, an image operation or a reprint step reads the card it is
\* for.  No row is locked, and no status looked at.
Fetch(p, S, op) ==
  /\ req[p] = Idle
  /\ S # {} /\ \A c \in S : Exists(c)
  /\ op # "transition" => \E c \in Cards : S = {c}
  /\ op = "reprint" => \A c \in S : WasDownloaded(c)
  /\ Free(S, TRUE)
  /\ req' = [req EXCEPT ![p] = [Idle EXCEPT !.op = op, !.phase = "fetched",
                                            !.cards = S, !.copy = Rows(S)]]
  /\ UNCHANGED <<card, unique, history, ghosts>>

\* The transition is in the map.
AllowedAlways(row, a) == TRUE
Allowed(row, a) == Target(row.status, a) # None

\* The transition frees the unique values of the card.
FreesOnUnverify(t) == t \in {"DELETED", "PENDING"}
Frees(t) == t = "DELETED"

\* transition_card on every card of the request, in one transaction, for an
\* action of the map: the full row of the copy is saved over the current one.
Move(p, a) ==
  LET S == req[p].cards
      copy == req[p].copy
      to(c) == Target(copy[c].status, a)
  IN /\ req[p].op = "transition" /\ req[p].phase = "fetched"
     /\ \A c \in S : Allowed(copy[c], a) /\ HasRoom(c, copy[c].version)
     /\ card' = [c \in Cards |-> IF c \in S THEN Moved(copy[c], to(c)) ELSE card[c]]
     /\ unique' = [c \in Cards |->
                     IF c \in S /\ Frees(to(c)) THEN NoValues ELSE unique[c]]
     /\ history' = [c \in Cards |->
                      IF c \in S THEN Recorded(history[c], copy[c].status, to(c))
                      ELSE history[c]]
     /\ req' = [req EXCEPT ![p] = Idle]
     /\ UNCHANGED ghosts

\* Where restore takes card c: the status its latest deletion entry left, or
\* PENDING without such an entry.
RestoresTo(c, s) ==
  LET deletions == {i \in DOMAIN history[c] : history[c][i].new = "DELETED"}
  IN \/ deletions = {} /\ s = "PENDING"
     \/ \E i \in deletions : (\A j \in deletions : j <= i) /\ s = history[c][i].old

\* transition_card with RESTORE: the unique values are registered again.
Restore(p) ==
  LET S == req[p].cards
      copy == req[p].copy
  IN /\ req[p].op = "transition" /\ req[p].phase = "fetched"
     /\ \A c \in S : copy[c].status = "DELETED" /\ HasRoom(c, copy[c].version)
     /\ Enforceable(S, [c \in S |-> copy[c].data])
     /\ \E t \in [S -> Status] :
          /\ \A c \in S : RestoresTo(c, t[c])
          /\ card' = [c \in Cards |-> IF c \in S THEN Moved(copy[c], t[c]) ELSE card[c]]
          /\ history' = [c \in Cards |->
                           IF c \in S THEN Recorded(history[c], "DELETED", t[c])
                           ELSE history[c]]
     /\ unique' = [c \in Cards |->
                     IF c \in S THEN Enforced(c, copy[c].data) ELSE unique[c]]
     /\ req' = [req EXCEPT ![p] = Idle]
     /\ unchecked' = unchecked \ S
     /\ UNCHANGED touched

\* delete_card, first autocommitted statement: soft_delete saves the copy.
SoftDelete(p) ==
  /\ req[p].op = "destroy" /\ req[p].phase = "fetched"
  /\ card' = [c \in Cards |->
                IF c \in req[p].cards THEN SoftDeleted(req[p].copy[c]) ELSE card[c]]
  /\ req' = [req EXCEPT ![p].phase = "deleted"]
  /\ UNCHANGED <<unique, history, ghosts>>

\* delete_card, second autocommitted statement: free the unique values.
FreeValues(p) ==
  /\ req[p].phase = "deleted"
  /\ unique' = [c \in Cards |-> IF c \in req[p].cards THEN NoValues ELSE unique[c]]
  /\ req' = [req EXCEPT ![p] = Idle]
  /\ UNCHANGED <<card, history, ghosts>>

\* What an image operation puts in the document: an image, or none, for one
\* field (delete_image sets a key that is there to None).
ImagePatch(d, patch) ==
  \E f \in ImageFields : /\ patch[f] \in Values \/ (patch[f] = Blank /\ d[f] # Absent)
                         /\ \A g \in Fields \ {f} : patch[g] = Absent

\* card.save() of a card fetched before: every column of the copy, the status
\* with it, no version, no history entry, no CardUniqueValue.
\* upload_image, delete_image and restore_image write one image field,
\* approve_reprint_request the fields of the draft, mark_reprint_printed none.
\* Mutant: the save leaves out what the copy had and merges into an empty document.
SavedOverNothing(row, patch) == [row EXCEPT !.data = patch]
Saved(row, patch) == [row EXCEPT !.data = Merge(row.data, patch)]

SaveCopy(p) ==
  /\ req[p].op \in {"image", "reprint"} /\ req[p].phase = "fetched"
  /\ \E c \in req[p].cards, patch \in Data :
       LET row == Saved(req[p].copy[c], patch)
       IN /\ req[p].op = "image" => ImagePatch(req[p].copy[c].data, patch)
          /\ card' = [card EXCEPT ![c] = row]
          /\ unchecked' = IF Unregistered(c, row.data, unique) THEN unchecked \cup {c}
                          ELSE unchecked
          /\ touched' = [q \in Procs |-> IF req[q].op = "update" /\ c \in req[q].cards
                                         THEN touched[q] \cup {c} ELSE touched[q]]
  /\ req' = [req EXCEPT ![p] = Idle]
  /\ UNCHANGED <<unique, history>>

\* A request ends without its next write: refused by a policy or a check
\* (403, 409, 400), rolled back, or its worker died.
Fail(p) ==
  /\ req[p] # Idle
  /\ req' = [req EXCEPT ![p] = Idle]
  /\ touched' = [touched EXCEPT ![p] = {}]
  /\ UNCHANGED <<card, unique, history, unchecked>>

\* The cards request_print sends to the printer: the others are skipped.
PrintableVerified(row) == row.status \in {"VERIFIED", "APPROVED"}
Printable(row) == row.status = "APPROVED"

\* card.status = DOWNLOADED; card.version += 1; save of those two columns.
PrintedUnversioned(row) == [row EXCEPT !.status = "DOWNLOADED"]
Printed(row) == [status |-> "DOWNLOADED", version |-> row.version + 1,
                 data |-> row.data, deleted |-> row.deleted]

\* DesktopWorkflowService.request_print: one transaction that locks each row
\* of the request.
RequestPrint(S) ==
  LET printed == {c \in S : Printable(card[c])}
  IN /\ printed # {}
     /\ Free(printed, FALSE)
     /\ \A c \in printed : HasRoom(c, card[c].version)
     /\ card' = [c \in Cards |-> IF c \in printed THEN Printed(card[c]) ELSE card[c]]
     /\ history' = [c \in Cards |->
                      IF c \in printed
                      THEN Recorded(history[c], card[c].status, "DOWNLOADED")
                      ELSE history[c]]
     /\ UNCHANGED <<unique, req, ghosts>>

Serve(p) ==
  \/ \E S \in SUBSET Cards : ReadCards(p, S)
  \/ FetchForUpdate(p)
  \/ UpdateCards(p)
  \/ \E S \in SUBSET Cards, op \in Saver : Fetch(p, S, op)
  \/ \E a \in Action : Move(p, a)
  \/ Restore(p)
  \/ SoftDelete(p)
  \/ FreeValues(p)
  \/ SaveCopy(p)
  \/ Fail(p)

Next ==
  \/ \E c \in Cards : Create(c) \/ Import(c)
  \/ \E S \in SUBSET Cards : RequestPrint(S)
  \/ \E p \in Procs : Serve(p)

Spec == Init /\ [][Next]_vars
-----------------------------------------------------------------------------
(* Properties *)

Approval == [old |-> "VERIFIED", new |-> "APPROVED"]

ApprovedBefore(c) == \E i \in DOMAIN history[c] : history[c][i] = Approval

\* A card is DOWNLOADED, that is printed, only if its history holds an
\* approval of a verified card: no order of transitions, prints, restores,
\* destroys and saves of stale copies prints a card nobody approved.
PrintedWasApproved ==
  \A c \in Cards : card[c].status = "DOWNLOADED" => ApprovedBefore(c)

\* Its inductive form: no row, no copy of a row some worker may still save and
\* no history entry a restore may read has a status past the approval of a
\* card that was never approved.
PastApproval == {"APPROVED", "DOWNLOADED"}
ApprovalInvariant ==
  \A c \in Cards :
    /\ card[c].status \in PastApproval => ApprovedBefore(c)
    /\ \A p \in Procs : req[p].copy[c].status \in PastApproval => ApprovedBefore(c)
    /\ \A i \in DOMAIN history[c] :
         history[c][i].old \in PastApproval => ApprovedBefore(c)

\* A live card has a status its history says it reached, or that of a new
\* card: the save of a stale copy may take it back to an earlier status, with
\* no entry of its own, but never to one no recorded step led to.
Reached(c, s) == s = "PENDING" \/ \E i \in DOMAIN history[c] : history[c][i].new = s
StatusWasReached ==
  \A c \in Cards : card[c].status \in Live => Reached(c, card[c].status)

\* While no such save overlaps another request, the workflow history explains
\* the status of every live card: it ends in that status, and only a card that
\* is PENDING may have none.
HistoryTellsStatus ==
  \A c \in Cards : card[c].status \in Live =>
    card[c].status = IF history[c] = <<>> THEN "PENDING"
                     ELSE history[c][Len(history[c])].new

\* Every value a live card shows in a unique field is registered for it in
\* CardUniqueValue, so that the index protects it, unless an import or a
\* reprint wrote one that was not: no edit, deletion, restore, print or image
\* save leaves a value behind or loses its registration.
LiveValuesRegistered ==
  \A c \in Cards \ unchecked : card[c].status \in Live =>
    \A f \in UniqueFields : card[c].data[f] \in Values
                              => unique[c][f] = card[c].data[f]

Atomic == INSTANCE AtomicCards WITH card <- card, unchecked <- unchecked

\* Two live cards that show the same value in a unique field: one of them has
\* it from an import or a reprint, and no edit or restore since.
LiveValuesDistinct == Atomic!DistinctIn(card, unchecked)

\* The service, with its requests, copies and side table, implements the
\* table of atomic versioned cards.
ImplementsAtomicCards == Atomic!Spec

\* An accepted edit was made by a client that saw the data it is merged into:
\* no edit, transition or print came between its read and its write.  (Image
\* and reprint steps raise no version, and the check does not see them.)
EditsSeeCurrentData ==
  [][\A p \in Procs : UpdateCards(p) =>
       \A c \in req[p].cards \ touched[p] : req[p].seen[c].data = card[c].data]_vars

\* Data changes only when an edit is accepted, or when an image or reprint step
\* merges its own fields into the current data: no transition, print, deletion
\* or save of a copy takes an accepted edit back.
AcceptedEditsSurvive ==
  [][\A c \in Cards : Exists(c) /\ card'[c].data # card[c].data
       => \E p \in Procs :
            /\ c \in req[p].cards
            /\ \/ UpdateCards(p)
               \/ SaveCopy(p) /\ \E patch \in Data :
                                   card'[c].data = Merge(card[c].data, patch)]_vars

\* An approved card is locked: its data stays what was approved
\* (docs/WORKFLOW.md).  update_card checks no status.
ApprovedDataLocked ==
  [][\A c \in Cards : card[c].status = "APPROVED"
                       => card'[c].data = card[c].data]_vars

\* The status a deleted card had before its deletion, as its history tells it:
\* the deletion is the last entry, or (destroy) has none and came after it.
StatusBeforeDeletion(c) ==
  LET last == history[c][Len(history[c])]
  IN IF history[c] = <<>> THEN "PENDING"
     ELSE IF last.new = "DELETED" THEN last.old ELSE last.new

\* A restored card has the status it had before it was deleted (the comment
\* of transition_card: "the previous status").  DELETE on the REST endpoint
\* writes no history entry, and restore then reads that of an older deletion.
RestoreGivesStatusBack ==
  [][\A c \in Cards : card[c].status = "DELETED" /\ card'[c].status \in Live
       => card'[c].status = StatusBeforeDeletion(c)]_vars
=============================================================================
