---------------------------- MODULE AtomicPrints ----------------------------
(***************************************************************************)
(* What the desktop print request promises, with no locks, no waiting and  *)
(* no order of the cards: it prints its cards in one step or not at all,   *)
(* and what it answers is true at that step.                               *)
(***************************************************************************)
EXTENDS WorkflowRules

CONSTANTS PrintCards,     \* the cards of the organization
          PrintRequests   \* the requests the stations make

VARIABLES status,   \* the status of each card
          answer    \* the cards each request answered for

NoAnswer == [transitioned |-> {}, already |-> {}, done |-> FALSE]

P_Init ==
  /\ status \in [PrintCards -> Status]
  /\ answer = [r \in PrintRequests |-> NoAnswer]

\* The request moves the cards of T, all APPROVED, and finds those of D printed.
P_Print(r, T, D) ==
  /\ ~answer[r].done
  /\ \A c \in T : status[c] = "APPROVED"
  /\ status' = [c \in PrintCards |-> IF c \in T THEN "DOWNLOADED" ELSE status[c]]
  /\ \A c \in D : status'[c] = "DOWNLOADED"
  /\ answer' = [answer EXCEPT ![r] = [transitioned |-> T, already |-> D, done |-> TRUE]]

\* Another request moves a card along the map, or restores it.
P_Move(c, t) ==
  /\ (\E a \in Action : Target(status[c], a) = t) \/ (status[c] = "DELETED" /\ t \in Live)
  /\ status' = [status EXCEPT ![c] = t]
  /\ UNCHANGED answer

P_Next ==
  \/ \E r \in PrintRequests : \E T, D \in SUBSET PrintCards : P_Print(r, T, D)
  \/ \E c \in PrintCards, t \in Status : P_Move(c, t)

P_Spec == P_Init /\ [][P_Next]_<<status, answer>>
=============================================================================
