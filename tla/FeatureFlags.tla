---------------------------- MODULE FeatureFlags ----------------------------
(***************************************************************************)
(* FeatureFlagService: one feature flag, its overrides per organization,   *)
(* and the answers of is_enabled kept in the cache for ten minutes.  Every *)
(* statement is a transaction of its own, and the cache knows nothing of   *)
(* them: a check that read the rows before a change may store its answer   *)
(* after the change has cleared the cache.                                 *)
(***************************************************************************)
EXTENDS Integers

CONSTANTS FlagOrgs,      \* the organizations
          Global,        \* the scope of a check without an organization
          FlagCheckers,  \* processes that call is_enabled
          FlagAdmins,    \* PRO users
          FlagChanges    \* bound: how many changes are made

ASSUME FlagAssumption == Global \notin FlagOrgs /\ FlagChanges \in Nat

FlagScopes == FlagOrgs \cup {Global}

\* A row or cache entry that says so, or is absent.
FlagValue == {"on", "off"}
FlagEntry == FlagValue \cup {"none"}

VARIABLES flag,      \* the FeatureFlag row
          override,  \* the ClientFeatureFlag rows
          entry,     \* the cache, per scope
          check,     \* the checkers
          change,    \* the PRO users
          changes,   \* how many changes were started
          tainted    \* scopes whose entry an overlapping check stored, or
                     \* whose invalidation died with its request

flagVars == <<flag, override, entry, check, change, changes, tainted>>

\* seen is the row read so far, late that a change was committed meanwhile.
Check == [at : {"idle", "missed"}, scope : FlagScopes, seen : {"none"}, late : BOOLEAN]
         \cup [at : {"read", "answered"}, scope : FlagScopes, seen : FlagValue,
               late : BOOLEAN]
Change == [at : {"idle", "found", "written", "cleared"}, scope : FlagScopes,
           value : FlagValue]

FlagTypeOK ==
  /\ flag \in FlagEntry
  /\ override \in [FlagOrgs -> FlagEntry]
  /\ entry \in [FlagScopes -> FlagEntry]
  /\ check \in [FlagCheckers -> Check]
  /\ change \in [FlagAdmins -> Change]
  /\ changes \in 0..FlagChanges
  /\ tainted \subseteq FlagScopes

IdleCheck == [at |-> "idle", scope |-> Global, seen |-> "none", late |-> FALSE]
IdleChange == [at |-> "idle", scope |-> Global, value |-> "on"]

FlagInit ==
  /\ flag \in {"none", "on"}  \* before and after bootstrap_defaults
  /\ override = [o \in FlagOrgs |-> "none"]
  /\ entry = [s \in FlagScopes |-> "none"]
  /\ check = [k \in FlagCheckers |-> IdleCheck]
  /\ change = [a \in FlagAdmins |-> IdleChange]
  /\ changes = 0
  /\ tainted = {}
-----------------------------------------------------------------------------
(* is_enabled *)

\* cache.get: a hit is the answer, a miss goes to the database.
StartCheck(k, s) ==
  /\ check[k].at = "idle"
  /\ entry[s] = "none"
  /\ check' = [check EXCEPT ![k] = [IdleCheck EXCEPT !.at = "missed", !.scope = s]]
  /\ UNCHANGED <<flag, override, entry, change, changes, tainted>>

\* FeatureFlag.objects.get: a feature without a row is enabled.  Without an
\* organization there is no override to look for.
ReadFlag(k) ==
  /\ check[k].at = "missed"
  /\ check' = [check EXCEPT
       ![k].at = IF flag = "none" \/ check[k].scope = Global THEN "answered" ELSE "read",
       ![k].seen = IF flag = "none" THEN "on" ELSE flag]
  /\ UNCHANGED <<flag, override, entry, change, changes, tainted>>

\* An override beats the flag.  Mutant: also where there is none.
OverridingAny(o, seen) == o
Overriding(o, seen) == IF o = "none" THEN seen ELSE o

\* ClientFeatureFlag.objects.get.
ReadOverride(k) ==
  /\ check[k].at = "read"
  /\ check' = [check EXCEPT ![k].at = "answered",
                            ![k].seen = Overriding(override[check[k].scope], @)]
  /\ UNCHANGED <<flag, override, entry, change, changes, tainted>>

\* cache.set with a timeout.
StoreAnswer(k) ==
  LET s == check[k].scope
  IN /\ check[k].at = "answered"
     /\ entry' = [entry EXCEPT ![s] = check[k].seen]
     /\ tainted' = IF check[k].late THEN tainted \cup {s} ELSE tainted \ {s}
     /\ check' = [check EXCEPT ![k] = IdleCheck]
     /\ UNCHANGED <<flag, override, change, changes>>

\* The checking process dies.
DropCheck(k) ==
  /\ check[k].at # "idle"
  /\ check' = [check EXCEPT ![k] = IdleCheck]
  /\ UNCHANGED <<flag, override, entry, change, changes, tainted>>

\* Redis drops the entry when its timeout has passed.  Mutant: no timeout.
ExpiresNever(s) == FALSE
Expires(s) == entry[s] # "none"
ExpireEntry(s) ==
  /\ Expires(s)
  /\ entry' = [entry EXCEPT ![s] = "none"]
  /\ tainted' = tainted \ {s}
  /\ UNCHANGED <<flag, override, check, change, changes>>
-----------------------------------------------------------------------------
(* set_global and set_for_client *)

\* The scopes whose answer a change may alter.
Affected(s) == IF s = Global THEN FlagScopes ELSE {s}

\* get_or_create(key, defaults = enabled).
StartChange(a, s, v) ==
  /\ change[a].at = "idle" /\ changes < FlagChanges
  /\ changes' = changes + 1
  /\ flag' = IF flag = "none" THEN "on" ELSE flag
  /\ change' = [change EXCEPT ![a] = [at |-> "found", scope |-> s, value |-> v]]
  /\ UNCHANGED <<override, entry, check, tainted>>

\* flag.save(), or update_or_create of the override.
WriteChange(a) ==
  LET s == change[a].scope
  IN /\ change[a].at = "found"
     /\ IF s = Global
        THEN flag' = change[a].value /\ UNCHANGED override
        ELSE override' = [override EXCEPT ![s] = change[a].value] /\ UNCHANGED flag
     /\ change' = [change EXCEPT ![a].at = "written"]
     /\ check' = [k \in FlagCheckers |->
                    IF check[k].at # "idle" /\ check[k].scope \in Affected(s)
                    THEN [check[k] EXCEPT !.late = TRUE] ELSE check[k]]
     /\ UNCHANGED <<entry, changes, tainted>>

Forget(S) ==
  /\ entry' = [s \in FlagScopes |-> IF s \in S THEN "none" ELSE entry[s]]
  /\ tainted' = tainted \ S
  /\ UNCHANGED <<flag, override, check, changes>>

\* cache.delete of the key of the change's own scope.
ClearOwn(a) ==
  /\ change[a].at = "written"
  /\ Forget({change[a].scope})
  /\ change' = [change EXCEPT ![a].at = "cleared"]

\* delete_pattern of all scopes, or cache.delete of the global key.  Mutant: a
\* global change leaves the answers of the organizations.
ClearedGlobal(s) == {Global}
Cleared(s) == IF s = Global THEN FlagScopes ELSE {Global}
ClearOthers(a) ==
  /\ change[a].at = "cleared"
  /\ Forget(Cleared(change[a].scope))
  /\ change' = [change EXCEPT ![a] = IdleChange]

\* The scopes a change has written and not yet cleared.
Pending(a) ==
  LET s == change[a].scope
  IN CASE change[a].at = "written" -> Affected(s)
       [] change[a].at = "cleared" /\ s = Global -> FlagOrgs
       [] OTHER -> {}

\* The request dies, or a statement of it fails.
DropChange(a) ==
  /\ change[a].at # "idle"
  /\ tainted' = tainted \cup Pending(a)
  /\ change' = [change EXCEPT ![a] = IdleChange]
  /\ UNCHANGED <<flag, override, entry, check, changes>>

FlagNext ==
  \/ \E k \in FlagCheckers :
       \/ \E s \in FlagScopes : StartCheck(k, s)
       \/ ReadFlag(k) \/ ReadOverride(k) \/ StoreAnswer(k) \/ DropCheck(k)
  \/ \E s \in FlagScopes : ExpireEntry(s)
  \/ \E a \in FlagAdmins :
       \/ \E s \in FlagScopes, v \in FlagValue : StartChange(a, s, v)
       \/ WriteChange(a) \/ ClearOwn(a) \/ ClearOthers(a) \/ DropChange(a)

\* Redis keeps its timeouts.  Nothing else need ever happen.
FlagFairness == \A s \in FlagScopes : WF_flagVars(ExpireEntry(s))

FlagSpec == FlagInit /\ [][FlagNext]_flagVars /\ FlagFairness
-----------------------------------------------------------------------------
(* Properties *)

\* What the rows say of a scope.
Enabled(s) ==
  IF s # Global /\ override[s] # "none" THEN override[s]
  ELSE IF flag = "none" THEN "on" ELSE flag

Stale(s) == entry[s] \notin {"none", Enabled(s)}

\* The cache contradicts the rows only until the change that wrote them has
\* cleared it, or where a check overlapped the change or its request died.
StaleIsExplained ==
  \A s \in FlagScopes :
    Stale(s) => s \in tainted \/ \E a \in FlagAdmins : s \in Pending(a)

\* Whatever overlapped or died, the answers come to agree with the rows once
\* no more changes are made: the timeout ends what invalidation missed.
StalenessEnds == <>[](\A s \in FlagScopes : ~Stale(s))
=============================================================================
