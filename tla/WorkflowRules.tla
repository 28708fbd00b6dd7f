--------------------------- MODULE WorkflowRules ---------------------------
(***************************************************************************)
(* The status values of a card and the transition map of                   *)
(* src/apps/workflow/constants.py, shared by every module that moves a     *)
(* card through its workflow (REST, desktop, export, sandbox).             *)
(***************************************************************************)

\* The statuses a card that has not been soft-deleted can have.
Live == {"PENDING", "VERIFIED", "APPROVED", "DOWNLOADED"}

Status == Live \cup {"DELETED"}

\* Stands for "no such key in TRANSITION_MAP" and for "no such row".
None == "NONE"

Action == {"verify", "unverify", "approve", "unapprove", "delete",
           "restore", "download"}

\* TRANSITION_MAP.get((s, a)): restore has no key, the service handles it apart.
Target(s, a) ==
  CASE s = "PENDING"  /\ a = "verify"    -> "VERIFIED"
    [] s = "VERIFIED" /\ a = "unverify"  -> "PENDING"
    [] s = "VERIFIED" /\ a = "approve"   -> "APPROVED"
    [] s = "APPROVED" /\ a = "unapprove" -> "VERIFIED"
    [] s = "APPROVED" /\ a = "download"  -> "DOWNLOADED"
    [] s \in Live     /\ a = "delete"    -> "DELETED"
    [] OTHER                             -> None
=============================================================================
