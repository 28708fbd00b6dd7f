------------------------------ MODULE CardRows ------------------------------
(***************************************************************************)
(* The part of a cards_card row the specifications tell apart              *)
(* (src/apps/cards/models.py): the JSON document, the status, the version  *)
(* and whether deleted_at is set.  Who did it and when are left out.       *)
(***************************************************************************)
EXTENDS WorkflowRules, Integers

CONSTANTS Cards,         \* the cards one table may come to hold
          Fields,        \* the fields of the table
          UniqueFields,  \* those with Field.is_unique
          Values,        \* the non-empty values of a field
          Blank,         \* a field that is present and empty
          Absent         \* a field the JSON document does not have

ASSUME RowAssumption ==
  /\ UniqueFields \subseteq Fields
  /\ Blank \notin Values /\ Absent \notin Values /\ Blank # Absent

Data == [Fields -> Values \cup {Blank, Absent}]

Row == [status : Status \cup {None}, version : Nat, data : Data,
        deleted : BOOLEAN]

\* A card that has not been created.
NoRow == [status |-> None, version |-> 0, data |-> [f \in Fields |-> Absent],
          deleted |-> FALSE]

\* The row POST /cards inserts.
NewRow(d) == [status |-> "PENDING", version |-> 1, data |-> d, deleted |-> FALSE]

\* dict(card.data); new_data.update(patch)
Merge(d, patch) == [f \in Fields |-> IF patch[f] = Absent THEN d[f] ELSE patch[f]]

\* A row after an edit: its document and its version.
Edited(row, d, v) ==
  [status |-> row.status, version |-> v, data |-> d, deleted |-> row.deleted]

\* A row after one workflow step to status t: version += 1, deleted_at set on
\* the way to DELETED and cleared on the way back.
Moved(row, t) ==
  [status |-> t, version |-> row.version + 1, data |-> row.data,
   deleted |-> IF t = "DELETED" THEN TRUE
               ELSE IF row.status = "DELETED" THEN FALSE ELSE row.deleted]

\* A row after Card.soft_delete.
SoftDeleted(row) == [status |-> "DELETED", version |-> row.version,
                     data |-> row.data, deleted |-> TRUE]
=============================================================================
