------------------------------ MODULE Reprints ------------------------------
(***************************************************************************)
(* Reprint requests: ReprintService and the views of src/apps/reprints,    *)
(* the REST endpoints of staff and the endpoint of the print stations.     *)
(*                                                                         *)
(* Every operation works on a copy of the request its view fetched and on  *)
(* a copy of the card it reads later, checks the first and saves all       *)
(* columns of both; no row is locked before it is written.  A draft is the *)
(* data and the images a request asks to change.                           *)
(***************************************************************************)
EXTENDS Integers

CONSTANTS ReprintCards,     \* the printed cards
          ReprintRequests,  \* the requests that may be made
          ReprintWorkers,   \* the server processes
          CardOf,           \* the card of each request
          WithDraft,        \* the requests with a draft
          MaxPrinted        \* bound: the PRINTED history rows of a card

ASSUME ReprintAssumption ==
  /\ CardOf \in [ReprintRequests -> ReprintCards]
  /\ WithDraft \subseteq ReprintRequests
  /\ MaxPrinted \in Nat

VARIABLES reprint,       \* the status of each request
          acts,          \* the actions of its ReprintHistory rows
          reprintCard,   \* the card rows
          printedRows,   \* the ReprintHistory rows PRINTED, per card
          clerk          \* the operation each server process runs

reprintVars == <<reprint, acts, reprintCard, printedRows, clerk>>

ReprintOp == {"approve", "reject", "print"}
ReprintStatus == {"NEW", "REQUESTED", "CONFIRMED", "REJECTED", "PRINTED"}
ReprintAct == {"REQUESTED", "APPROVED", "REJECTED", "PRINTED"}

\* The columns that matter: whether the card is DOWNLOADED, the drafts its
\* data comes from, and the two counters.
ReprintRow == [downloaded : BOOLEAN, drafts : SUBSET ReprintRequests,
               reprints : Nat, prints : Nat]

\* A process: the operation, the request, and the copies it holds.
Clerk == [at : {"fetched", "loaded"}, op : ReprintOp \cup {"save"},
          req : ReprintRequests, copy : ReprintStatus, row : ReprintRow]
NoClerk == [at |-> "idle"]

\* Type correctness of the rows and the copies.
ReprintTypeOK ==
  /\ reprint \in [ReprintRequests -> ReprintStatus]
  /\ acts \in [ReprintRequests -> SUBSET ReprintAct]
  /\ reprintCard \in [ReprintCards -> ReprintRow]
  /\ printedRows \in [ReprintCards -> 0..MaxPrinted]
  /\ clerk \in [ReprintWorkers -> Clerk \cup {NoClerk}]

NewReprintRow == [downloaded |-> TRUE, drafts |-> {}, reprints |-> 0, prints |-> 1]

ReprintInit ==
  /\ reprint = [r \in ReprintRequests |-> "NEW"]
  /\ acts = [r \in ReprintRequests |-> {}]
  /\ reprintCard = [c \in ReprintCards |-> NewReprintRow]
  /\ printedRows = [c \in ReprintCards |-> 0]
  /\ clerk = [w \in ReprintWorkers |-> NoClerk]
-----------------------------------------------------------------------------
\* create_reprint_request: only for a DOWNLOADED card.
RequestReprint(r) ==
  /\ reprint[r] = "NEW" /\ reprintCard[CardOf[r]].downloaded
  /\ reprint' = [reprint EXCEPT ![r] = "REQUESTED"]
  /\ acts' = [acts EXCEPT ![r] = @ \cup {"REQUESTED"}]
  /\ UNCHANGED <<reprintCard, printedRows, clerk>>

\* A view fetches the request.  A print station fetches many at once: each of
\* them then goes on as if a process of its own had it.
FetchReprint(w, r, op) ==
  /\ clerk[w] = NoClerk /\ reprint[r] # "NEW"
  /\ clerk' = [clerk EXCEPT ![w] = [at |-> "fetched", op |-> op, req |-> r,
                                    copy |-> reprint[r], row |-> NewReprintRow]]
  /\ UNCHANGED <<reprint, acts, reprintCard, printedRows>>

\* The check of the copy.  Mutant: a station may print what is not approved yet.
AllowsAny(op, status) == status \in {"REQUESTED", "CONFIRMED"}
Allows(op, status) ==
  IF op = "print" THEN status = "CONFIRMED" ELSE status = "REQUESTED"

\* A process that has read the card; it has done with the copy of the request.
Holding(op, r) == [at |-> "loaded", op |-> op, req |-> r, copy |-> "NEW",
                   row |-> reprintCard[CardOf[r]]]

\* The transaction begins and reads the card.
LoadReprintCard(w) ==
  /\ clerk[w] # NoClerk /\ clerk[w].at = "fetched"
  /\ Allows(clerk[w].op, clerk[w].copy)
  /\ clerk' = [clerk EXCEPT ![w] = Holding(clerk[w].op, clerk[w].req)]
  /\ UNCHANGED <<reprint, acts, reprintCard, printedRows>>

ReprintLoaded(w, op) == clerk[w] # NoClerk /\ clerk[w].at = "loaded" /\ clerk[w].op = op

\* The end of an operation: status and history row of its request.
Closed(w, status, act) ==
  LET r == clerk[w].req
  IN /\ reprint' = [reprint EXCEPT ![r] = status]
     /\ acts' = [acts EXCEPT ![r] = @ \cup {act}]
     /\ clerk' = [clerk EXCEPT ![w] = NoClerk]

\* A draft is written into the card, all of it; nothing is counted.
Applied(row, r) == [row EXCEPT !.drafts = @ \cup {r}]

\* approve_reprint_request: the card is saved if there is a draft.
ApproveReprint(w) ==
  LET r == clerk[w].req
  IN /\ ReprintLoaded(w, "approve")
     /\ reprintCard' = IF r \in WithDraft
          THEN [reprintCard EXCEPT ![CardOf[r]] = Applied(clerk[w].row, r)]
          ELSE reprintCard
     /\ Closed(w, "CONFIRMED", "APPROVED")
     /\ UNCHANGED printedRows

RejectReprint(w) ==
  /\ ReprintLoaded(w, "reject")
  /\ Closed(w, "REJECTED", "REJECTED")
  /\ UNCHANGED <<reprintCard, printedRows>>

\* The counters after a print.
Reprinted(row) == [row EXCEPT !.reprints = @ + 1, !.prints = @ + 1]

\* mark_reprint_printed.
PrintReprint(w) ==
  LET c == CardOf[clerk[w].req]
  IN /\ ReprintLoaded(w, "print") /\ printedRows[c] < MaxPrinted
     /\ reprintCard' = [reprintCard EXCEPT ![c] = Reprinted(clerk[w].row)]
     /\ printedRows' = [printedRows EXCEPT ![c] = @ + 1]
     /\ Closed(w, "PRINTED", "PRINTED")

\* Any other request that saves a whole card (a transition, an image): it read
\* the card before, and may delete or restore it or change its data.
FetchToSave(w, r) ==
  /\ clerk[w] = NoClerk
  /\ clerk' = [clerk EXCEPT ![w] = Holding("save", r)]
  /\ UNCHANGED <<reprint, acts, reprintCard, printedRows>>
SaveWholeCard(w) ==
  /\ ReprintLoaded(w, "save")
  /\ \E d \in BOOLEAN, drafts \in {{}, clerk[w].row.drafts} :
       reprintCard' = [reprintCard EXCEPT ![CardOf[clerk[w].req]] =
                         [clerk[w].row EXCEPT !.downloaded = d, !.drafts = drafts]]
  /\ clerk' = [clerk EXCEPT ![w] = NoClerk]
  /\ UNCHANGED <<reprint, acts, printedRows>>

\* Refused, failed and rolled back, or the process dies.
DropReprint(w) ==
  /\ clerk[w] # NoClerk
  /\ clerk' = [clerk EXCEPT ![w] = NoClerk]
  /\ UNCHANGED <<reprint, acts, reprintCard, printedRows>>

ReprintNext ==
  \/ \E r \in ReprintRequests : RequestReprint(r)
  \/ \E w \in ReprintWorkers :
       \/ \E r \in ReprintRequests :
            FetchToSave(w, r) \/ \E op \in ReprintOp : FetchReprint(w, r, op)
       \/ LoadReprintCard(w) \/ ApproveReprint(w) \/ RejectReprint(w)
       \/ PrintReprint(w) \/ SaveWholeCard(w) \/ DropReprint(w)

ReprintSpec == ReprintInit /\ [][ReprintNext]_reprintVars
-----------------------------------------------------------------------------
(* Properties *)

\* Nothing of a request happens to a card that nobody approved: neither a print
\* nor a change of its data, however approvals, rejections and prints overlap.
\* (A request may end up both approved and rejected.)
ReprintsApproved ==
  \A r \in ReprintRequests :
    \/ reprint[r] \in {"CONFIRMED", "PRINTED"}
    \/ "PRINTED" \in acts[r]
    \/ r \in reprintCard[CardOf[r]].drafts
    => "APPROVED" \in acts[r]

\* What docs/API_REFERENCE.md:367 says of an approval: it increments the counters
\* of the card.  Violated: the counters wait for mark_reprint_printed.
ApprovalCounts ==
  [][\A r \in ReprintRequests :
       reprint'[r] = "CONFIRMED" /\ reprint[r] = "REQUESTED" =>
         reprintCard'[CardOf[r]].reprints > reprintCard[CardOf[r]].reprints]_reprintVars

\* What the code counts are prints: the counters of a card never claim one the
\* history does not have, and never disagree with each other.  (Overlapping
\* prints may leave them too low.)
PrintsRecorded ==
  \A c \in ReprintCards :
    /\ reprintCard[c].reprints <= printedRows[c]
    /\ reprintCard[c].prints = reprintCard[c].reprints + 1
=============================================================================
