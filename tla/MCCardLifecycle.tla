--------------------------- MODULE MCCardLifecycle ---------------------------
(***************************************************************************)
(* Instances of CardLifecycle for TLC.  c1 goes through long lives; c2 is  *)
(* there to compete with it for values and to share its transactions.      *)
(***************************************************************************)
EXTENDS CardLifecycle, TLC

CONSTANTS c1, c2,        \* the cards
          Long, Short    \* the bound of c1 and the bound of c2

Versions == [c \in Cards |-> IF c = c1 THEN Long ELSE Short]
Entries == [c \in Cards |-> IF c = c1 THEN Long ELSE Short]

\* Bound of cards_exclusive: with both cards about, c1 has a shorter life and no
\* image operation; alone, it goes all the way to a reprint.
Small ==
  Exists(c2) => /\ card[c1].version <= Short
                /\ \A p \in Procs : req[p].op # "image"

SameWorkers == Permutations(Procs) \cup Permutations(Values)
=============================================================================
