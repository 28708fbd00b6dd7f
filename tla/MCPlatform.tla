----------------------------- MODULE MCPlatform -----------------------------
(***************************************************************************)
(* Instances for TLC of the modules with promises of progress: desktop     *)
(* printing, feature flags, backups and notifications.  As in MCPipelines  *)
(* a behaviour is one of a single module, chosen at the start.             *)
(* Nothing that fairness speaks of is enabled in a module that keeps still *)
(* from the start, so the fairness of all of them can be assumed at once.  *)
(***************************************************************************)
EXTENDS PrintLocks, FeatureFlags, Backups, Notifications

CONSTANTS d1, d2  \* the cards of the print requests

\* Both orders of two cards, and a list that names a card twice.
Orders == {<<d1, d2>>, <<d2, d1>>, <<d1, d1>>}

VARIABLE focus  \* the module whose behaviour this is

vars == <<focus, printVars, flagVars, backupVars, noticeVars>>

Init ==
  /\ focus \in {"print", "flag", "backup", "notice"}
  /\ PrintInit /\ FlagInit /\ BackupInit /\ NoticeInit
  \* one initial state for the modules that keep still
  /\ focus # "flag" => flag = "none"
  /\ focus # "notice" => preference = [u \in Recipients |-> "none"]

Next ==
  /\ UNCHANGED focus
  /\ \/ /\ focus = "print" /\ PrintNext
        /\ UNCHANGED <<flagVars, backupVars, noticeVars>>
     \/ /\ focus = "flag" /\ FlagNext
        /\ UNCHANGED <<printVars, backupVars, noticeVars>>
     \/ /\ focus = "backup" /\ BackupNext
        /\ UNCHANGED <<printVars, flagVars, noticeVars>>
     \/ /\ focus = "notice" /\ NoticeNext
        /\ UNCHANGED <<printVars, flagVars, backupVars>>

Fairness == PrintFairness /\ FlagFairness /\ BackupFairness /\ NoticeFairness

Spec == Init /\ [][Next]_vars /\ Fairness

\* The types of all four modules.
TypeOK == PrintTypeOK /\ FlagTypeOK /\ BackupTypeOK /\ NoticeTypeOK
=============================================================================
