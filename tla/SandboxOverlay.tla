--------------------------- MODULE SandboxOverlay ---------------------------
(***************************************************************************)
(* One sandbox session: the rows of apps/sandbox that lie over the         *)
(* production cards, which other users move meanwhile.                     *)
(*                                                                         *)
(* Every operation is a transaction that begins with session.touch(): an   *)
(* UPDATE of the session's row, whose lock it keeps until it ends.  What   *)
(* it reads after that and what it writes at the end are steps of their    *)
(* own here, for nothing else keeps two operations apart.  An import does  *)
(* not touch the session, and commits row by row.  Display ids, documents  *)
(* (a card's data is the set of edits in it) and the export, which only    *)
(* reads, are left out.                                                    *)
(***************************************************************************)
EXTENDS WorkflowRules, Integers, Sequences

CONSTANTS SandboxCards,  \* production cards of the session's table
          SandboxNew,    \* the ids of cards that exist in the session only
          SandboxCalls   \* the operations asked for in the session

ASSUME SandboxAssumption ==
  /\ SandboxCards # {} /\ SandboxCards \cap SandboxNew = {}
  /\ None \notin SandboxCalls

Overlaid == SandboxCards \cup SandboxNew

\* A SandboxCardCreate row that was deleted.
Gone == "gone"

VARIABLES sandbox,     \* the session: active, past its time, or deactivated
          sessionLock, \* the transaction that holds the lock of its row
          production,  \* the status of the real cards
          overlay,     \* the status of the SandboxCardStatus or SandboxCardCreate
                       \* row of a card, None without one
          changed,     \* the edits in its SandboxChange rows or in its data
          hidden,      \* the cards with a SandboxCardDelete row
          trail,       \* the SandboxWorkflowHistory of each card
          call         \* the requests, with what they have read

sandboxVars ==
  <<sandbox, sessionLock, production, overlay, changed, hidden, trail, call>>

CallOp == {"transition", "edit", "create", "delete"}
Call == [at : {"new", "refused", "fetched", "touched", "read", "done", "failed"},
         op : CallOp, card : Overlaid, from : Status, to : Status,
         copy : SUBSET SandboxCalls]
NewCall == [at |-> "new", op |-> "edit", card |-> CHOOSE c \in SandboxCards : TRUE,
            from |-> "PENDING", to |-> "PENDING", copy |-> {}]

Step == [from : Status, to : Status]

\* Type correctness of the rows and the requests.
SandboxTypeOK ==
  /\ sandbox \in {"active", "expired", "inactive"}
  /\ sessionLock \in SandboxCalls \cup {None}
  /\ production \in [SandboxCards -> Status]
  /\ overlay \in [Overlaid -> Status \cup {None, Gone}]
  /\ changed \in [Overlaid -> SUBSET SandboxCalls]
  /\ hidden \subseteq SandboxCards
  /\ trail \in [Overlaid -> Seq(Step)]
  /\ call \in [SandboxCalls -> Call]

SandboxInit ==
  /\ sandbox = "active" /\ sessionLock = None
  /\ production \in [SandboxCards -> Status]
  /\ overlay = [x \in Overlaid |-> None]
  /\ changed = [x \in Overlaid |-> {}]
  /\ hidden = {}
  /\ trail = [x \in Overlaid |-> << >>]
  /\ call = [r \in SandboxCalls |-> NewCall]
-----------------------------------------------------------------------------
(* The session *)

CallAt(r, at) == call[r].at = at
CallGoes(r, at) == call' = [call EXCEPT ![r].at = at]

\* The lock of the session's row is free.  Mutant: a touch that writes nothing.
SessionFreeAlways == TRUE
SessionFree == sessionLock = None

\* _get_session_from_request: active, and not past its time; an inactive one is
\* refused without a trace.
FetchSession(r, op, x) ==
  /\ CallAt(r, "new") /\ sandbox # "inactive"
  /\ op = "create" => x \in SandboxNew
  /\ call' = [call EXCEPT ![r].op = op, ![r].card = x,
                ![r].at = IF sandbox = "expired" THEN "refused" ELSE "fetched"]
  /\ UNCHANGED <<sandbox, sessionLock, production, overlay, changed, hidden, trail>>

\* A session past its time is deactivated, even if it was resumed meanwhile.
RefuseExpired(r) ==
  /\ CallAt(r, "refused") /\ SessionFree
  /\ sandbox' = "inactive"
  /\ CallGoes(r, "failed")
  /\ UNCHANGED <<sessionLock, production, overlay, changed, hidden, trail>>

ExpireSession ==
  /\ sandbox = "active"
  /\ sandbox' = "expired"
  /\ UNCHANGED <<sessionLock, production, overlay, changed, hidden, trail, call>>

\* get_or_create_session: resumed, with all that is in it.
ResumeSession ==
  /\ sandbox # "active" /\ SessionFree
  /\ sandbox' = "active"
  /\ UNCHANGED <<sessionLock, production, overlay, changed, hidden, trail, call>>

\* deactivate_session.
DeactivateSession ==
  /\ sandbox = "active" /\ SessionFree
  /\ sandbox' = "inactive"
  /\ UNCHANGED <<sessionLock, production, overlay, changed, hidden, trail, call>>
-----------------------------------------------------------------------------
(* The operations *)

\* session.touch().
TouchSession(r) ==
  /\ CallAt(r, "fetched") /\ SessionFree
  /\ sessionLock' = r
  /\ CallGoes(r, "touched")
  /\ UNCHANGED <<sandbox, production, overlay, changed, hidden, trail>>

\* A card the operation finds: a real one always, though it is hidden.
Found(x) == x \in SandboxCards \/ overlay[x] \in Status

\* The status of a card in the session: its row, or the real card's.
ShownStatus(x) == IF overlay[x] = None THEN production[x] ELSE overlay[x]

\* _resolve_transition: as in production, but a deleted card is not restored,
\* for the map has no such key.
Allowed(s, a) == Target(s, a) # None

\* transition_card reads the status.
ReadStatus(r, a) ==
  LET x == call[r].card
  IN /\ CallAt(r, "touched") /\ call[r].op = "transition" /\ Found(x)
     /\ Allowed(ShownStatus(x), a)
     /\ call' = [call EXCEPT ![r].at = "read", ![r].from = ShownStatus(x),
                             ![r].to = Target(ShownStatus(x), a)]
     /\ UNCHANGED <<sandbox, sessionLock, production, overlay, changed, hidden, trail>>

\* edit_card reads the card, of which it merges a document only if the card is
\* one of the sandbox.
ReadToEdit(r) ==
  LET x == call[r].card
  IN /\ CallAt(r, "touched") /\ call[r].op = "edit" /\ Found(x)
     /\ call' = [call EXCEPT ![r].at = "read", ![r].copy = changed[x]]
     /\ UNCHANGED <<sandbox, sessionLock, production, overlay, changed, hidden, trail>>

\* The end of a transaction.
CallEnds(r, at) ==
  /\ sessionLock' = IF sessionLock = r THEN None ELSE sessionLock
  /\ CallGoes(r, at)

\* The status, and a history row.
CommitTransition(r) ==
  LET x == call[r].card
  IN /\ CallAt(r, "read") /\ call[r].op = "transition"
     /\ overlay' = [overlay EXCEPT ![x] = call[r].to]
     /\ trail' = [trail EXCEPT ![x] = Append(@, [from |-> call[r].from, to |-> call[r].to])]
     /\ CallEnds(r, "done")
     /\ UNCHANGED <<sandbox, production, changed, hidden>>

\* One SandboxChange row per field, or the whole document of a sandbox card.
CommitEdit(r) ==
  LET x == call[r].card
  IN /\ CallAt(r, "read") /\ call[r].op = "edit"
     /\ changed' = [changed EXCEPT ![x] =
          IF x \in SandboxCards THEN @ \cup {r} ELSE call[r].copy \cup {r}]
     /\ CallEnds(r, "done")
     /\ UNCHANGED <<sandbox, production, overlay, hidden, trail>>

CreateInSession(r) ==
  LET x == call[r].card
  IN /\ CallAt(r, "touched") /\ call[r].op = "create" /\ overlay[x] = None
     /\ overlay' = [overlay EXCEPT ![x] = "PENDING"]
     /\ CallEnds(r, "done")
     /\ UNCHANGED <<sandbox, production, changed, hidden, trail>>

\* delete_card hides a real card, and deletes a sandbox card with its history.
DeleteInSession(r) ==
  LET x == call[r].card
  IN /\ CallAt(r, "touched") /\ call[r].op = "delete"
     /\ IF x \in SandboxCards
        THEN hidden' = hidden \cup {x} /\ UNCHANGED <<overlay, changed, trail>>
        ELSE /\ overlay[x] # None
             /\ overlay' = [overlay EXCEPT ![x] = Gone]
             /\ changed' = [changed EXCEPT ![x] = {}]
             /\ trail' = [trail EXCEPT ![x] = << >>]
             /\ UNCHANGED hidden
     /\ CallEnds(r, "done")
     /\ UNCHANGED <<sandbox, production>>

\* A card that is not there, a transition that is not allowed, an error or a
\* dead process: the transaction is rolled back.
FailCall(r) ==
  /\ call[r].at \in {"refused", "fetched", "touched", "read"}
  /\ CallEnds(r, "failed")
  /\ UNCHANGED <<sandbox, production, overlay, changed, hidden, trail>>

\* A row of process_import.
ImportSandboxRow(x) ==
  /\ overlay[x] = None
  /\ overlay' = [overlay EXCEPT ![x] = "PENDING"]
  /\ UNCHANGED <<sandbox, sessionLock, production, changed, hidden, trail, call>>

\* Other users move the real card: the transition map, or a restore.
MoveProduction(c, t) ==
  /\ \/ \E a \in Action : Target(production[c], a) = t
     \/ production[c] = "DELETED" /\ t \in Live
  /\ production' = [production EXCEPT ![c] = t]
  /\ UNCHANGED <<sandbox, sessionLock, overlay, changed, hidden, trail, call>>

SandboxNext ==
  \/ ExpireSession \/ ResumeSession \/ DeactivateSession
  \/ \E r \in SandboxCalls :
       \/ \E op \in CallOp, x \in Overlaid : FetchSession(r, op, x)
       \/ RefuseExpired(r) \/ TouchSession(r)
       \/ \E a \in Action : ReadStatus(r, a)
       \/ ReadToEdit(r) \/ CommitTransition(r) \/ CommitEdit(r)
       \/ CreateInSession(r) \/ DeleteInSession(r) \/ FailCall(r)
  \/ \E x \in SandboxNew : ImportSandboxRow(x)
  \/ \E c \in SandboxCards, t \in Status : MoveProduction(c, t)

SandboxSpec == SandboxInit /\ [][SandboxNext]_sandboxVars
-----------------------------------------------------------------------------
(* Properties *)

\* The history of a card in the session is a chain that ends in the status the
\* session shows, and an edit it has answered stays in the data of its card:
\* the operations of a session take effect one after the other, though none of
\* them locks or compares the rows it reads.
HistoryConnects ==
  \A x \in Overlaid :
    LET t == trail[x]
    IN /\ \A i \in 2..Len(t) : t[i].from = t[i - 1].to
       /\ t # << >> => ShownStatus(x) = t[Len(t)].to
EditsKept ==
  \A r \in SandboxCalls :
    LET x == call[r].card
    IN CallAt(r, "done") /\ call[r].op = "edit" /\ Found(x) => r \in changed[x]
SessionIsSerial == HistoryConnects /\ EditsKept
=============================================================================
