--------------------------- MODULE PlatformProofs ---------------------------
(***************************************************************************)
(* Proofs about what runs beside the cards, for any number of flags'       *)
(* organizations, checkers, backups, runs and notices: the flag cache is   *)
(* stale only for a known reason, kept backups are readable and            *)
(* verifications of them do not fail for nothing, and archived             *)
(* notifications are quiet.  At the end, what is proved of these modules   *)
(* and of the print requests holds of them together.                       *)
(***************************************************************************)
EXTENDS MCPlatform, PrintLocksProofs

(***************************************************************************)
(* Feature flags: the invariant.  A checker no change overlapped holds an  *)
(* answer the rows still give, and an override has its flag.               *)
(***************************************************************************)

OverridesFlagged == \A o \in FlagOrgs : override[o] # "none" => flag # "none"

ChangesFlagged == \A a \in FlagAdmins : change[a].at # "idle" => flag # "none"

CheckSound(k) ==
  /\ check[k].at = "read" =>
       /\ check[k].scope # Global /\ flag # "none"
       /\ check[k].seen \in FlagValue
       /\ ~check[k].late => check[k].seen = flag
  /\ check[k].at = "answered" =>
       /\ check[k].seen \in FlagValue
       /\ ~check[k].late =>
            \A s \in FlagScopes : check[k].scope = s => check[k].seen = Enabled(s)

FlagInv ==
  /\ FlagTypeOK /\ OverridesFlagged /\ ChangesFlagged
  /\ \A k \in FlagCheckers : CheckSound(k)
  /\ StaleIsExplained

LEMMA FlagParts ==
  ASSUME FlagTypeOK
  PROVE  /\ \A k \in FlagCheckers : check[k] \in Check /\ check[k].scope \in FlagScopes
         /\ \A a \in FlagAdmins :
              change[a] \in Change /\ change[a].scope \in FlagScopes
              /\ change[a].value \in FlagValue
         /\ \A o \in FlagOrgs : o # Global /\ o \in FlagScopes
         /\ Global \in FlagScopes
<1>1. \A k \in FlagCheckers : check[k] \in Check
  BY DEF FlagTypeOK
<1>2. \A a \in FlagAdmins : change[a] \in Change
  BY DEF FlagTypeOK
<1>3. QED
  BY <1>1, <1>2, FlagAssumption DEF Check, Change, FlagScopes

LEMMA FlagRecords ==
  /\ IdleCheck \in Check /\ IdleChange \in Change
  /\ \A s \in FlagScopes :
       [at |-> "missed", scope |-> s, seen |-> "none", late |-> FALSE] \in Check
  /\ \A k \in Check, at \in {"read", "answered"}, seen \in FlagValue :
       [k EXCEPT !.at = at, !.seen = seen] \in Check
  /\ \A k \in Check : [k EXCEPT !.late = TRUE] \in Check
  /\ \A s \in FlagScopes, v \in FlagValue :
       [at |-> "found", scope |-> s, value |-> v] \in Change
  /\ \A a \in Change, at \in {"written", "cleared"} : [a EXCEPT !.at = at] \in Change
BY DEF IdleCheck, IdleChange, Check, Change, FlagScopes, FlagEntry, FlagValue

LEMMA EnabledValue ==
  ASSUME FlagTypeOK, NEW s \in FlagScopes
  PROVE  Enabled(s) \in FlagValue
BY DEF FlagTypeOK, Enabled, FlagScopes, FlagEntry, FlagValue

LEMMA FlagInitInv == FlagInit => FlagInv
<1> SUFFICES ASSUME FlagInit PROVE FlagInv
  OBVIOUS
<1>1. FlagTypeOK
  <2>1. check \in [FlagCheckers -> Check] /\ change \in [FlagAdmins -> Change]
    BY FlagRecords DEF FlagInit
  <2>2. 0 \in 0..FlagChanges
    BY FlagAssumption
  <2>3. QED
    BY <2>1, <2>2 DEF FlagInit, FlagTypeOK, FlagEntry, FlagValue
<1>2. \A k \in FlagCheckers : check[k].at = "idle"
  BY DEF FlagInit, IdleCheck
<1>3. \A a \in FlagAdmins : change[a].at = "idle"
  BY DEF FlagInit, IdleChange
<1>4. StaleIsExplained
  BY DEF FlagInit, StaleIsExplained, Stale
<1>5. OverridesFlagged
  BY DEF FlagInit, OverridesFlagged
<1>6. QED
  BY <1>1, <1>2, <1>3, <1>4, <1>5 DEF FlagInv, ChangesFlagged, CheckSound

LEMMA FlagTypeStep == FlagInv /\ [FlagNext]_flagVars => FlagTypeOK'
<1> SUFFICES ASSUME FlagInv, FlagTypeOK, [FlagNext]_flagVars PROVE FlagTypeOK'
  BY DEF FlagInv
<1>1. ASSUME NEW k \in FlagCheckers, NEW s \in FlagScopes, StartCheck(k, s)
      PROVE  FlagTypeOK'
  <2>1. [IdleCheck EXCEPT !.at = "missed", !.scope = s] \in Check
    BY FlagRecords DEF IdleCheck, Check
  <2>2. QED
    BY <1>1, <2>1 DEF StartCheck, FlagTypeOK
<1>2. ASSUME NEW k \in FlagCheckers, ReadFlag(k) PROVE FlagTypeOK'
  <2> DEFINE at == IF flag = "none" \/ check[k].scope = Global THEN "answered" ELSE "read"
             seen == IF flag = "none" THEN "on" ELSE flag
  <2>1. at \in {"read", "answered"} /\ seen \in FlagValue
    BY DEF FlagTypeOK, FlagEntry, FlagValue
  <2>2. check' = [check EXCEPT ![k] = [check[k] EXCEPT !.at = at, !.seen = seen]]
    BY <1>2 DEF ReadFlag, FlagTypeOK
  <2> HIDE DEF at, seen
  <2>3. [check[k] EXCEPT !.at = at, !.seen = seen] \in Check
    BY <2>1, FlagParts, FlagRecords
  <2>4. QED
    BY <1>2, <2>2, <2>3 DEF ReadFlag, FlagTypeOK
<1>3. ASSUME NEW k \in FlagCheckers, ReadOverride(k) PROVE FlagTypeOK'
  <2> DEFINE o == override[check[k].scope]
             seen == IF o = "none" THEN check[k].seen ELSE o
  <2>1. seen \in FlagValue
    <3>1. check[k].scope \in FlagOrgs
      BY <1>3, FlagParts DEF FlagScopes, FlagInv, CheckSound, ReadOverride
    <3>2. check[k].seen \in FlagValue
      BY <1>3 DEF FlagInv, CheckSound, ReadOverride
    <3>3. QED
      BY <3>1, <3>2 DEF FlagTypeOK, FlagEntry
  <2>2. check' = [check EXCEPT ![k] = [check[k] EXCEPT !.at = "answered", !.seen = seen]]
    BY <1>3 DEF ReadOverride, Overriding, FlagTypeOK
  <2> HIDE DEF seen
  <2>3. [check[k] EXCEPT !.at = "answered", !.seen = seen] \in Check
    BY <2>1, FlagParts, FlagRecords
  <2>4. QED
    BY <1>3, <2>2, <2>3 DEF ReadOverride, FlagTypeOK
<1>4. ASSUME NEW k \in FlagCheckers, StoreAnswer(k) PROVE FlagTypeOK'
  <2>1. check[k].scope \in FlagScopes /\ check[k].seen \in FlagEntry
    BY FlagParts DEF Check, FlagEntry
  <2>2. QED
    BY <1>4, <2>1, FlagRecords DEF StoreAnswer, FlagTypeOK
<1>5. ASSUME NEW k \in FlagCheckers, DropCheck(k) PROVE FlagTypeOK'
  BY <1>5, FlagRecords DEF DropCheck, FlagTypeOK
<1>6. ASSUME NEW s \in FlagScopes, ExpireEntry(s) PROVE FlagTypeOK'
  BY <1>6 DEF ExpireEntry, FlagTypeOK, FlagEntry
<1>7. ASSUME NEW a \in FlagAdmins, NEW s \in FlagScopes, NEW v \in FlagValue,
             StartChange(a, s, v)
      PROVE  FlagTypeOK'
  <2>1. changes' \in 0..FlagChanges
    BY <1>7, FlagAssumption DEF StartChange, FlagTypeOK
  <2>2. change' \in [FlagAdmins -> Change]
    BY <1>7, FlagRecords DEF StartChange, FlagTypeOK
  <2>3. flag' \in FlagEntry
    BY <1>7 DEF StartChange, FlagTypeOK, FlagEntry, FlagValue
  <2>4. QED
    BY <1>7, <2>1, <2>2, <2>3 DEF StartChange, FlagTypeOK
<1>8. ASSUME NEW a \in FlagAdmins, WriteChange(a) PROVE FlagTypeOK'
  <2>1. [change[a] EXCEPT !.at = "written"] \in Change
    BY FlagParts, FlagRecords
  <2>2. change' = [change EXCEPT ![a] = [change[a] EXCEPT !.at = "written"]]
    BY <1>8 DEF WriteChange, FlagTypeOK
  <2>3. change' \in [FlagAdmins -> Change]
    BY <2>1, <2>2 DEF FlagTypeOK
  <2>4. \A k \in FlagCheckers : check[k] \in Check /\ [check[k] EXCEPT !.late = TRUE] \in Check
    BY FlagParts, FlagRecords
  <2>5. check' \in [FlagCheckers -> Check]
    BY <1>8, <2>4 DEF WriteChange
  <2>6. flag' \in FlagEntry /\ override' \in [FlagOrgs -> FlagEntry]
    BY <1>8, FlagParts DEF WriteChange, FlagTypeOK, FlagEntry
  <2>7. QED
    BY <1>8, <2>3, <2>5, <2>6 DEF WriteChange, FlagTypeOK
<1>9. ASSUME NEW S, Forget(S)
      PROVE  /\ entry' \in [FlagScopes -> FlagEntry] /\ tainted' \subseteq FlagScopes
             /\ UNCHANGED <<flag, override, check, changes>>
  BY <1>9 DEF Forget, FlagTypeOK, FlagEntry
<1>10. ASSUME NEW a \in FlagAdmins, ClearOwn(a) PROVE FlagTypeOK'
  <2>1. [change[a] EXCEPT !.at = "cleared"] \in Change
    BY FlagParts, FlagRecords
  <2>2. change' = [change EXCEPT ![a] = [change[a] EXCEPT !.at = "cleared"]]
    BY <1>10 DEF ClearOwn, FlagTypeOK
  <2>3. change' \in [FlagAdmins -> Change]
    BY <2>1, <2>2 DEF FlagTypeOK
  <2>4. QED
    BY <1>9, <1>10, <2>3 DEF ClearOwn, FlagTypeOK
<1>11. ASSUME NEW a \in FlagAdmins, ClearOthers(a) PROVE FlagTypeOK'
  BY <1>9, <1>11, FlagRecords DEF ClearOthers, FlagTypeOK
<1>12. ASSUME NEW a \in FlagAdmins, DropChange(a) PROVE FlagTypeOK'
  <2>1. Pending(a) \subseteq FlagScopes
    BY FlagParts DEF Pending, Affected, FlagScopes
  <2>2. QED
    BY <1>12, <2>1, FlagRecords DEF DropChange, FlagTypeOK
<1>13. CASE UNCHANGED flagVars
  BY <1>13 DEF flagVars, FlagTypeOK
<1>14. QED
  BY <1>1, <1>2, <1>3, <1>4, <1>5, <1>6, <1>7, <1>8, <1>10, <1>11, <1>12, <1>13
  DEF FlagNext

\* Rows that stay keep the answers and the soundness of checkers that stay.
LEMMA FlagInvStep == FlagInv /\ [FlagNext]_flagVars => FlagInv'
<1> SUFFICES ASSUME FlagInv, [FlagNext]_flagVars PROVE FlagInv'
  OBVIOUS
<1>0. FlagTypeOK /\ FlagTypeOK'
  BY FlagTypeStep DEF FlagInv
<1>s. ASSUME NEW s \in FlagScopes, Stale(s)
      PROVE  s \in tainted \/ \E a \in FlagAdmins : s \in Pending(a)
  BY <1>s DEF FlagInv, StaleIsExplained
\* The steps of a checker, and the timeout: the rows and the changes stay.
<1> DEFINE SameFlags == UNCHANGED <<flag, override, change>>
<1>r. ASSUME SameFlags
      PROVE  /\ OverridesFlagged' /\ ChangesFlagged'
             /\ \A s \in FlagScopes : Enabled(s)' = Enabled(s)
             /\ \A a \in FlagAdmins : Pending(a)' = Pending(a)
  BY <1>r DEF FlagInv, OverridesFlagged, ChangesFlagged, Enabled, Pending, Affected
<1>1. ASSUME NEW k \in FlagCheckers, SameFlags, entry' = entry, tainted' = tainted,
             \A j \in FlagCheckers : j # k => check'[j] = check[j], CheckSound(k)'
      PROVE  FlagInv'
  <2>1. \A s \in FlagScopes : Enabled(s)' = Enabled(s)
    BY <1>1, <1>r
  <2>2. ASSUME NEW j \in FlagCheckers PROVE CheckSound(j)'
    <3>1. CASE j # k
      <4>1. CheckSound(j) /\ check'[j] = check[j] /\ flag' = flag
        BY <1>1, <3>1 DEF FlagInv
      <4>2. QED
        BY <2>1, <4>1 DEF CheckSound
    <3>2. QED
      BY <1>1, <3>1
  <2>3. StaleIsExplained'
    BY <1>1, <1>r, <1>s, <2>1 DEF StaleIsExplained, Stale
  <2>4. QED
    BY <1>0, <1>1, <1>r, <2>2, <2>3 DEF FlagInv
<1>2. ASSUME NEW k \in FlagCheckers, NEW s \in FlagScopes, StartCheck(k, s) PROVE FlagInv'
  <2>1. /\ check'[k].at = "missed" /\ \A j \in FlagCheckers : j # k => check'[j] = check[j]
        /\ SameFlags /\ entry' = entry /\ tainted' = tainted
    BY <1>0, <1>2 DEF StartCheck, FlagTypeOK, IdleCheck
  <2>2. CheckSound(k)'
    BY <2>1 DEF CheckSound
  <2>3. QED
    BY <1>1, <2>1, <2>2
<1>3. ASSUME NEW k \in FlagCheckers, ReadFlag(k) PROVE FlagInv'
  <2>p. PICK s \in FlagScopes : s = check[k].scope
    BY <1>0, FlagParts
  <2>1. /\ SameFlags /\ entry' = entry /\ tainted' = tainted
        /\ \A j \in FlagCheckers : j # k => check'[j] = check[j]
    BY <1>0, <1>3 DEF ReadFlag, FlagTypeOK
  <2>2. /\ check'[k].at = IF flag = "none" \/ s = Global THEN "answered" ELSE "read"
        /\ check'[k].seen = IF flag = "none" THEN "on" ELSE flag
        /\ check'[k].scope = s
    BY <1>0, <1>3, <2>p, FlagParts DEF ReadFlag, FlagTypeOK, Check
  <2>3. flag \in FlagEntry /\ s \in FlagScopes
    BY <1>0, FlagParts DEF FlagTypeOK
  <2>4. flag = "none" \/ s = Global =>
          Enabled(s) = IF flag = "none" THEN "on" ELSE flag
    BY <2>3 DEF Enabled, FlagInv, OverridesFlagged, FlagScopes
  <2>5. CheckSound(k)'
    <3>1. Enabled(s)' = Enabled(s) /\ flag' = flag
      BY <1>r, <2>1, <2>3
    <3>2. "on" \in FlagValue /\ (flag # "none" => flag \in FlagValue)
      BY <2>3 DEF FlagEntry, FlagValue
    <3>3. CASE flag = "none" \/ s = Global
      <4>1. check'[k].at = "answered" /\ check'[k].seen = Enabled(s)
        BY <2>2, <2>4, <3>3
      <4>2. check'[k].seen \in FlagValue
        BY <2>2, <3>2
      <4>3. QED
        BY <4>1, <4>2, <2>2, <3>1 DEF CheckSound
    <3>4. CASE flag # "none" /\ s # Global
      <4>1. check'[k].at = "read" /\ check'[k].seen = flag
        BY <2>2, <3>4
      <4>2. QED
        BY <4>1, <2>2, <3>1, <3>2, <3>4 DEF CheckSound
    <3>5. QED
      BY <3>3, <3>4
  <2>6. QED
    BY <1>1, <2>1, <2>5
<1>4. ASSUME NEW k \in FlagCheckers, ReadOverride(k) PROVE FlagInv'
  <2>p. PICK s \in FlagScopes : s = check[k].scope
    BY <1>0, FlagParts
  <2>1. /\ SameFlags /\ entry' = entry /\ tainted' = tainted /\ check[k].at = "read"
        /\ \A j \in FlagCheckers : j # k => check'[j] = check[j]
    BY <1>0, <1>4 DEF ReadOverride, FlagTypeOK
  <2>2. /\ check'[k].at = "answered" /\ check'[k].scope = s
        /\ check'[k].late = check[k].late
        /\ check'[k].seen = IF override[s] = "none" THEN check[k].seen ELSE override[s]
    BY <1>0, <1>4, <2>p, FlagParts DEF ReadOverride, Overriding, FlagTypeOK, Check
  <2>3. /\ s # Global /\ flag # "none" /\ check[k].seen \in FlagValue
        /\ ~check[k].late => check[k].seen = flag
    BY <2>1, <2>p DEF FlagInv, CheckSound
  <2>4. s \in FlagOrgs /\ override[s] \in FlagEntry
    BY <1>0, <2>3 DEF FlagScopes, FlagTypeOK
  <2>5. check'[k].seen \in FlagValue
    BY <2>2, <2>3, <2>4 DEF FlagEntry
  <2>6. ~check[k].late => check'[k].seen = Enabled(s)
    BY <2>2, <2>3 DEF Enabled
  <2>7. Enabled(s)' = Enabled(s)
    BY <1>r, <2>1
  <2>8. CheckSound(k)'
    BY <2>2, <2>5, <2>6, <2>7 DEF CheckSound
  <2>9. QED
    BY <1>1, <2>1, <2>8
<1>5. ASSUME NEW k \in FlagCheckers, StoreAnswer(k) PROVE FlagInv'
  <2>p. PICK s \in FlagScopes : s = check[k].scope
    BY <1>0, FlagParts
  <2>1. /\ SameFlags /\ check[k].at = "answered"
        /\ entry' = [entry EXCEPT ![s] = check[k].seen]
        /\ tainted' = IF check[k].late THEN tainted \cup {s} ELSE tainted \ {s}
        /\ check'[k].at = "idle" /\ \A j \in FlagCheckers : j # k => check'[j] = check[j]
    BY <1>0, <1>5, <2>p DEF StoreAnswer, FlagTypeOK, IdleCheck
  <2>2. ~check[k].late => check[k].seen = Enabled(s)
    BY <2>1, <2>p DEF FlagInv, CheckSound
  <2>3. \A t \in FlagScopes : Enabled(t)' = Enabled(t)
    BY <1>r, <2>1
  <2>4. ASSUME NEW t \in FlagScopes, Stale(t)'
        PROVE  t \in tainted' \/ \E a \in FlagAdmins : t \in Pending(a)'
    <3>1. CASE t = s
      <4>1. entry'[s] = check[k].seen
        BY <1>0, <2>1 DEF FlagTypeOK
      <4>2. check[k].late
        BY <4>1, <3>1, <2>2, <2>3, <2>4 DEF Stale
      <4>3. QED
        BY <4>2, <3>1, <2>1
    <3>2. CASE t # s
      <4>1. entry'[t] = entry[t]
        BY <1>0, <2>1, <3>2 DEF FlagTypeOK
      <4>2. Stale(t)
        BY <4>1, <2>3, <2>4 DEF Stale
      <4>3. t \in tainted => t \in tainted'
        BY <3>2, <2>1
      <4>4. QED
        BY <4>2, <4>3, <1>s, <1>r, <2>1
    <3>3. QED
      BY <3>1, <3>2
  <2>5. StaleIsExplained'
    BY <2>4 DEF StaleIsExplained
  <2>6. ASSUME NEW j \in FlagCheckers PROVE CheckSound(j)'
    <3>1. CASE j = k
      BY <3>1, <2>1 DEF CheckSound
    <3>2. CASE j # k
      <4>1. CheckSound(j) /\ check'[j] = check[j] /\ flag' = flag
        BY <2>1, <3>2 DEF FlagInv
      <4>2. QED
        BY <2>3, <4>1 DEF CheckSound
    <3>3. QED
      BY <3>1, <3>2
  <2>7. QED
    BY <1>0, <1>r, <2>1, <2>5, <2>6 DEF FlagInv
<1>6. ASSUME NEW k \in FlagCheckers, DropCheck(k) PROVE FlagInv'
  <2>1. /\ check'[k].at = "idle" /\ \A j \in FlagCheckers : j # k => check'[j] = check[j]
        /\ SameFlags /\ entry' = entry /\ tainted' = tainted
    BY <1>0, <1>6 DEF DropCheck, FlagTypeOK, IdleCheck
  <2>2. CheckSound(k)'
    BY <2>1 DEF CheckSound
  <2>3. QED
    BY <1>1, <2>1, <2>2
\* Entries are only dropped, with whatever tainted them, and every scope still
\* contradicting the rows is one of a change at work.
<1>7. ASSUME UNCHANGED <<flag, override, check>>, OverridesFlagged', ChangesFlagged',
             \A s \in FlagScopes :
               entry'[s] # "none" => entry'[s] = entry[s] /\ (s \in tainted => s \in tainted'),
             \A s \in FlagScopes, a \in FlagAdmins :
               entry'[s] # "none" /\ s \in Pending(a) => s \in Pending(a)' \/ s \in tainted'
      PROVE  FlagInv'
  <2>1. \A s \in FlagScopes : Enabled(s)' = Enabled(s)
    BY <1>7 DEF Enabled
  <2>2. ASSUME NEW j \in FlagCheckers PROVE CheckSound(j)'
    <3>1. CheckSound(j) /\ check' = check /\ flag' = flag
      BY <1>7 DEF FlagInv
    <3>2. QED
      BY <2>1, <3>1 DEF CheckSound
  <2>3. ASSUME NEW s \in FlagScopes, Stale(s)'
        PROVE  s \in tainted' \/ \E a \in FlagAdmins : s \in Pending(a)'
    <3>1. entry'[s] # "none" /\ entry'[s] = entry[s] /\ (s \in tainted => s \in tainted')
      BY <1>7, <2>3 DEF Stale
    <3>2. Stale(s)
      BY <3>1, <2>1, <2>3 DEF Stale
    <3>3. QED
      BY <3>1, <3>2, <1>s, <1>7
  <2>4. QED
    BY <1>0, <1>7, <2>2, <2>3 DEF FlagInv, StaleIsExplained
<1>8. ASSUME NEW s \in FlagScopes, ExpireEntry(s) PROVE FlagInv'
  <2>1. SameFlags /\ UNCHANGED check
    BY <1>8 DEF ExpireEntry
  <2>2. \A t \in FlagScopes :
          entry'[t] # "none" => entry'[t] = entry[t] /\ (t \in tainted => t \in tainted')
    BY <1>0, <1>8 DEF ExpireEntry, FlagTypeOK
  <2>3. \A a \in FlagAdmins : Pending(a)' = Pending(a)
    BY <1>r, <2>1
  <2>4. OverridesFlagged' /\ ChangesFlagged'
    BY <1>r, <2>1
  <2>5. QED
    BY <1>7, <2>1, <2>2, <2>3, <2>4
<1>9. ASSUME NEW a \in FlagAdmins, ClearOwn(a) PROVE FlagInv'
  <2>p. PICK s \in FlagScopes : s = change[a].scope
    BY <1>0, FlagParts
  <2>1. /\ change[a].at = "written" /\ UNCHANGED <<flag, override, check>>
        /\ \A t \in FlagScopes : entry'[t] = IF t \in {s} THEN "none" ELSE entry[t]
        /\ tainted' = tainted \ {s}
    BY <1>9, <2>p DEF ClearOwn, Forget
  <2>2. /\ change'[a].at = "cleared" /\ change'[a].scope = s
        /\ \A b \in FlagAdmins : b # a => change'[b] = change[b]
    BY <1>0, <1>9, <2>p, FlagParts DEF ClearOwn, FlagTypeOK, Change
  <2>3. OverridesFlagged' /\ ChangesFlagged'
    BY <2>1, <2>2 DEF FlagInv, OverridesFlagged, ChangesFlagged
  <2>4. ASSUME NEW t \in FlagScopes, entry'[t] # "none"
        PROVE  /\ entry'[t] = entry[t] /\ (t \in tainted => t \in tainted')
               /\ \A b \in FlagAdmins : t \in Pending(b) => t \in Pending(b)'
    <3>1. t # s
      BY <2>1, <2>4
    <3>2. \A b \in FlagAdmins : b # a => Pending(b)' = Pending(b)
      BY <2>2 DEF Pending, Affected
    <3>3. Pending(a) = Affected(s) /\ Pending(a)' = IF s = Global THEN FlagOrgs ELSE {}
      BY <2>p, <2>1, <2>2 DEF Pending
    <3>4. t \in Pending(a) => t \in Pending(a)'
      BY <3>1, <3>3 DEF Affected, FlagScopes
    <3>5. QED
      BY <3>1, <3>2, <3>4, <2>1
  <2>5. QED
    BY <1>7, <2>1, <2>3, <2>4
<1>10. ASSUME NEW a \in FlagAdmins, ClearOthers(a) PROVE FlagInv'
  <2>p. PICK s \in FlagScopes : s = change[a].scope
    BY <1>0, FlagParts
  <2>1. /\ change[a].at = "cleared" /\ UNCHANGED <<flag, override, check>>
        /\ \A t \in FlagScopes : entry'[t] = IF t \in Cleared(s) THEN "none" ELSE entry[t]
        /\ tainted' = tainted \ Cleared(s)
    BY <1>10, <2>p DEF ClearOthers, Forget
  <2>2. /\ change'[a].at = "idle"
        /\ \A b \in FlagAdmins : b # a => change'[b] = change[b]
    BY <1>0, <1>10 DEF ClearOthers, FlagTypeOK, IdleChange
  <2>3. OverridesFlagged' /\ ChangesFlagged'
    BY <2>1, <2>2 DEF FlagInv, OverridesFlagged, ChangesFlagged
  <2>4. ASSUME NEW t \in FlagScopes, entry'[t] # "none"
        PROVE  /\ entry'[t] = entry[t] /\ (t \in tainted => t \in tainted')
               /\ \A b \in FlagAdmins : t \in Pending(b) => t \in Pending(b)'
    <3>1. t \notin Cleared(s)
      BY <2>1, <2>4
    <3>2. \A b \in FlagAdmins : b # a => Pending(b)' = Pending(b)
      BY <2>2 DEF Pending, Affected
    <3>3. Pending(a) = IF s = Global THEN FlagOrgs ELSE {}
      BY <2>p, <2>1 DEF Pending
    <3>4. t \notin Pending(a)
      BY <3>1, <3>3 DEF Cleared
    <3>5. QED
      BY <3>1, <3>2, <3>4, <2>1
  <2>5. QED
    BY <1>7, <2>1, <2>3, <2>4
<1>11. ASSUME NEW a \in FlagAdmins, DropChange(a) PROVE FlagInv'
  <2>1. /\ UNCHANGED <<flag, override, check, entry>>
        /\ tainted' = tainted \cup Pending(a)
    BY <1>11 DEF DropChange
  <2>2. /\ change'[a].at = "idle"
        /\ \A b \in FlagAdmins : b # a => change'[b] = change[b]
    BY <1>0, <1>11 DEF DropChange, FlagTypeOK, IdleChange
  <2>3. OverridesFlagged' /\ ChangesFlagged'
    BY <2>1, <2>2 DEF FlagInv, OverridesFlagged, ChangesFlagged
  <2>4. \A b \in FlagAdmins : b # a => Pending(b)' = Pending(b)
    BY <2>2 DEF Pending, Affected
  <2>5. QED
    BY <1>7, <2>1, <2>3, <2>4
<1>12. ASSUME NEW a \in FlagAdmins, NEW s \in FlagScopes, NEW v \in FlagValue,
             StartChange(a, s, v)
      PROVE  FlagInv'
  <2>1. /\ UNCHANGED <<override, entry, check, tainted>> /\ change[a].at = "idle"
        /\ flag' = IF flag = "none" THEN "on" ELSE flag
    BY <1>12 DEF StartChange
  <2>2. /\ change'[a].at = "found"
        /\ \A b \in FlagAdmins : b # a => change'[b] = change[b]
    BY <1>0, <1>12 DEF StartChange, FlagTypeOK
  <2>3. flag' # "none" /\ (flag # "none" => flag' = flag)
    BY <2>1
  <2>4. OverridesFlagged' /\ ChangesFlagged'
    BY <2>3 DEF OverridesFlagged, ChangesFlagged
  <2>5. \A t \in FlagScopes : Enabled(t)' = Enabled(t)
    BY <2>1 DEF Enabled
  <2>6. ASSUME NEW j \in FlagCheckers PROVE CheckSound(j)'
    <3>1. CheckSound(j) /\ check'[j] = check[j]
      BY <2>1 DEF FlagInv
    <3>2. QED
      BY <2>3, <2>5, <3>1 DEF CheckSound
  <2>7. \A b \in FlagAdmins : Pending(b) \subseteq Pending(b)'
    <3>1. Pending(a) = {}
      BY <2>1 DEF Pending
    <3>2. \A b \in FlagAdmins : b # a => Pending(b)' = Pending(b)
      BY <2>2 DEF Pending, Affected
    <3>3. QED
      BY <3>1, <3>2
  <2>8. StaleIsExplained'
    BY <1>s, <2>1, <2>5, <2>7 DEF StaleIsExplained, Stale
  <2>9. QED
    BY <1>0, <2>4, <2>6, <2>8 DEF FlagInv
<1>13. ASSUME NEW a \in FlagAdmins, WriteChange(a) PROVE FlagInv'
  <2>p. PICK s \in FlagScopes : s = change[a].scope
    BY <1>0, FlagParts
  <2>1. /\ change[a].at = "found" /\ UNCHANGED <<entry, tainted>>
        /\ s = Global => flag' \in FlagValue /\ override' = override
        /\ s # Global => flag' = flag
                         /\ \A t \in FlagOrgs : t # s => override'[t] = override[t]
    BY <1>0, <1>13, <2>p, FlagParts DEF WriteChange, FlagTypeOK
  <2>2. /\ change'[a].at = "written" /\ change'[a].scope = s
        /\ \A b \in FlagAdmins : b # a => change'[b] = change[b]
    BY <1>0, <1>13, <2>p, FlagParts DEF WriteChange, FlagTypeOK, Change
  <2>3. flag # "none" /\ flag' # "none"
    BY <2>1 DEF FlagInv, ChangesFlagged, FlagValue
  <2>4. OverridesFlagged' /\ ChangesFlagged'
    BY <2>3 DEF OverridesFlagged, ChangesFlagged
  <2>5. \A t \in FlagScopes : t \notin Affected(s) => Enabled(t)' = Enabled(t)
    BY <2>1 DEF Enabled, Affected, FlagScopes
  <2>6. ASSUME NEW j \in FlagCheckers PROVE CheckSound(j)'
    <3>p. PICK t \in FlagScopes : t = check[j].scope
      BY <1>0, FlagParts
    <3>0. CheckSound(j)
      BY DEF FlagInv
    <3>1. check'[j] = IF check[j].at # "idle" /\ t \in Affected(s)
                      THEN [check[j] EXCEPT !.late = TRUE] ELSE check[j]
      BY <1>13, <2>p, <3>p DEF WriteChange
    <3>2. CASE check[j].at # "idle" /\ t \in Affected(s)
      <4>1. /\ check'[j].late /\ check'[j].at = check[j].at
            /\ check'[j].scope = check[j].scope /\ check'[j].seen = check[j].seen
        BY <1>0, <3>1, <3>2, FlagParts DEF Check
      <4>2. QED
        BY <4>1, <3>0, <2>3 DEF CheckSound
    <3>3. CASE check[j].at = "idle"
      BY <3>1, <3>3 DEF CheckSound
    <3>4. CASE check[j].at # "idle" /\ t \notin Affected(s)
      <4>1. check'[j] = check[j] /\ s # Global /\ flag' = flag
        BY <2>1, <3>1, <3>4 DEF Affected
      <4>2. Enabled(t)' = Enabled(t)
        BY <2>5, <3>4
      <4>3. QED
        BY <3>p, <4>1, <4>2, <3>0 DEF CheckSound
    <3>5. QED
      BY <3>2, <3>3, <3>4
  <2>7. Pending(a)' = Affected(s) /\ Pending(a) = {}
    BY <2>1, <2>2 DEF Pending
  <2>8. \A b \in FlagAdmins : b # a => Pending(b)' = Pending(b)
    BY <2>2 DEF Pending, Affected
  <2>9. ASSUME NEW t \in FlagScopes, Stale(t)'
        PROVE  t \in tainted' \/ \E b \in FlagAdmins : t \in Pending(b)'
    <3>1. CASE t \in Affected(s)
      BY <3>1, <2>7
    <3>2. CASE t \notin Affected(s)
      <4>1. Stale(t)
        BY <2>1, <2>5, <2>9, <3>2 DEF Stale
      <4>2. QED
        BY <4>1, <1>s, <2>1, <2>7, <2>8
    <3>3. QED
      BY <3>1, <3>2
  <2>10. StaleIsExplained'
    BY <2>9 DEF StaleIsExplained
  <2>11. QED
    BY <1>0, <2>4, <2>6, <2>10 DEF FlagInv
<1>14. CASE UNCHANGED flagVars
  BY <1>0, <1>7, <1>14, <1>r DEF flagVars
<1>15. QED
  BY <1>2, <1>3, <1>4, <1>5, <1>6, <1>8, <1>9, <1>10, <1>11, <1>12, <1>13, <1>14
  DEF FlagNext

\* Types of FeatureFlags.
THEOREM FlagTypeCorrect == FlagSpec => []FlagTypeOK
<1>1. FlagInv => FlagTypeOK
  BY DEF FlagInv
<1>2. QED
  BY <1>1, FlagInitInv, FlagInvStep, PTL DEF FlagSpec

\* The cache of is_enabled contradicts the rows only where a change is at work, a
\* check overlapped one, or the request of one died.
THEOREM StaleIsExplainedAlways == FlagSpec => []StaleIsExplained
<1>1. FlagInv => StaleIsExplained
  BY DEF FlagInv
<1>2. QED
  BY <1>1, FlagInitInv, FlagInvStep, PTL DEF FlagSpec

\* What makes the cache of is_enabled contradict the rows: a change that commits,
\* until it has cleared the entry, or an answer from before it that is stored after.
StalenessHasCause ==
  \A s \in FlagScopes : Stale(s)' =>
    \/ Stale(s)
    \/ \E a \in FlagAdmins :
         change[a].at = "found" /\ change'[a].at = "written" /\ s \in Affected(change[a].scope)
    \/ \E k \in FlagCheckers :
         check[k].at = "answered" /\ check[k].late /\ check[k].scope = s /\ check'[k].at = "idle"

LEMMA StaleStep == FlagInv /\ [FlagNext]_flagVars => StalenessHasCause
<1> SUFFICES ASSUME FlagInv, [FlagNext]_flagVars, NEW s \in FlagScopes, Stale(s)', ~Stale(s)
             PROVE  \/ \E a \in FlagAdmins : /\ change[a].at = "found"
                                             /\ change'[a].at = "written"
                                             /\ s \in Affected(change[a].scope)
                    \/ \E k \in FlagCheckers : /\ check[k].at = "answered" /\ check[k].late
                                               /\ check[k].scope = s /\ check'[k].at = "idle"
  BY DEF StalenessHasCause
<1>0. FlagTypeOK
  BY DEF FlagInv
\* An answer that is not stale stays so while the rows say the same, unless it
\* is replaced.
<1>1. Enabled(s)' # Enabled(s) \/ entry'[s] \notin {entry[s], "none"}
  BY DEF Stale
<1>2. ASSUME UNCHANGED <<flag, override>> PROVE Enabled(s)' = Enabled(s)
  BY <1>2 DEF Enabled
<1>3. ASSUME NEW k \in FlagCheckers, StoreAnswer(k)
      PROVE  /\ check[k].at = "answered" /\ check[k].late /\ check[k].scope = s
             /\ check'[k].at = "idle"
  <2>1. Enabled(s)' = Enabled(s) /\ check[k].at = "answered" /\ check'[k].at = "idle"
    BY <1>0, <1>2, <1>3 DEF StoreAnswer, FlagTypeOK, IdleCheck
  <2>2. check[k].scope = s /\ entry'[s] = check[k].seen
    BY <1>0, <1>1, <1>3, <2>1 DEF StoreAnswer, FlagTypeOK
  <2>3. check[k].late
    <3>1. SUFFICES ASSUME ~check[k].late PROVE check[k].seen = Enabled(s)
      BY <2>1, <2>2, <3>1 DEF Stale
    <3>2. QED
      BY <2>1, <2>2, <3>1 DEF FlagInv, CheckSound
  <2>4. QED
    BY <2>1, <2>2, <2>3
<1>4. ASSUME NEW a \in FlagAdmins, WriteChange(a)
      PROVE  /\ change[a].at = "found" /\ change'[a].at = "written"
             /\ s \in Affected(change[a].scope)
  <2>1. change[a].at = "found" /\ change'[a].at = "written" /\ entry' = entry
    BY <1>0, <1>4 DEF WriteChange, FlagTypeOK
  <2>2. ASSUME s \notin Affected(change[a].scope) PROVE Enabled(s)' = Enabled(s)
    BY <1>0, <1>4, <2>2 DEF WriteChange, Affected, Enabled, FlagTypeOK, FlagScopes
  <2>3. QED
    BY <1>1, <2>1, <2>2
<1>5. ASSUME NEW k \in FlagCheckers,
             (\E t \in FlagScopes : StartCheck(k, t)) \/ ReadFlag(k) \/ ReadOverride(k)
             \/ DropCheck(k)
      PROVE  FALSE
  BY <1>1, <1>2, <1>5 DEF StartCheck, ReadFlag, ReadOverride, DropCheck
<1>6. ASSUME NEW t \in FlagScopes, ExpireEntry(t) PROVE FALSE
  BY <1>0, <1>1, <1>2, <1>6 DEF ExpireEntry, FlagTypeOK
<1>7. ASSUME NEW a \in FlagAdmins, ClearOwn(a) \/ ClearOthers(a) \/ DropChange(a) PROVE FALSE
  BY <1>1, <1>2, <1>7 DEF ClearOwn, ClearOthers, Forget, DropChange
<1>8. ASSUME NEW a \in FlagAdmins, NEW t \in FlagScopes, NEW v \in FlagValue,
             StartChange(a, t, v)
      PROVE  FALSE
  BY <1>1, <1>8 DEF StartChange, Enabled
<1>9. CASE UNCHANGED flagVars
  BY <1>1, <1>2, <1>9 DEF flagVars
<1>10. QED
  BY <1>3, <1>4, <1>5, <1>6, <1>7, <1>8, <1>9 DEF FlagNext

\* No check, timeout, invalidation or dying request makes a fresh answer stale:
\* only a change of the rows does, or the store of an answer a change overtook.
THEOREM StalenessHasCauseAlways == FlagSpec => [][StalenessHasCause]_flagVars
<1>1. FlagInv /\ [FlagNext]_flagVars => [StalenessHasCause]_flagVars
  BY StaleStep
<1>2. QED
  BY <1>1, FlagInitInv, FlagInvStep, PTL DEF FlagSpec

(***************************************************************************)
(* Notifications: the invariant.  A sweep archives one notification after  *)
(* the other.                                                              *)
(***************************************************************************)

NoticeInv ==
  /\ NoticeTypeOK /\ ArchivedIsQuiet
  /\ \A m, n \in sweep.swept : m = n

LEMMA NoticeRecords ==
  ASSUME NoticeTypeOK
  PROVE  /\ sweep.archiving \in SUBSET Notices /\ sweep.swept \in SUBSET Notices
         /\ IdleReader \in [at : {"idle", "fetched"}, n : Notices,
                            state : ReadState \ {"UNREAD"}]
         /\ NoSweep \in [archiving : SUBSET Notices, swept : SUBSET Notices]
         /\ \A u \in Recipients : /\ reader[u].n \in Notices
                                  /\ reader[u].state \in ReadState \ {"UNREAD"}
<1>1. (CHOOSE n \in Notices : TRUE) \in Notices
  BY NoticeAssumption
<1>2. QED
  BY <1>1 DEF NoticeTypeOK, IdleReader, NoSweep, ReadState

LEMMA NoticeInitInv == NoticeInit => NoticeInv
<1> SUFFICES ASSUME NoticeInit PROVE NoticeInv
  OBVIOUS
<1>1. (CHOOSE n \in Notices : TRUE) \in Notices
  BY NoticeAssumption
<1>2. IdleReader \in [at : {"idle", "fetched"}, n : Notices, state : ReadState \ {"UNREAD"}]
  BY <1>1 DEF IdleReader, ReadState
<1>3. NoSweep \in [archiving : SUBSET Notices, swept : SUBSET Notices] /\ NoSweep.swept = {}
  BY DEF NoSweep
<1>4. 0 \in 0..NoticeFaults
  BY NoticeAssumption
<1>5. NoticeTypeOK
  BY <1>2, <1>3, <1>4 DEF NoticeInit, NoticeTypeOK
<1>6. ArchivedIsQuiet
  BY DEF NoticeInit, ArchivedIsQuiet
<1>7. QED
  BY <1>3, <1>5, <1>6 DEF NoticeInit, NoticeInv

LEMMA NoticeTypeStep == NoticeTypeOK /\ [NoticeNext]_noticeVars => NoticeTypeOK'
<1> SUFFICES ASSUME NoticeTypeOK, [NoticeNext]_noticeVars PROVE NoticeTypeOK'
  OBVIOUS
<1>1. ASSUME NEW n \in Notices, CreateNotice(n) \/ EndCreate(n) \/ PassTime(n)
      PROVE  NoticeTypeOK'
  <2>1. CASE CreateNotice(n)
    BY <2>1 DEF CreateNotice, NoticeTypeOK
  <2>2. CASE EndCreate(n)
    BY <2>2 DEF EndCreate, NoticeTypeOK
  <2>3. CASE PassTime(n)
    <3>1. (IF phase[n] = "visible" THEN "expired" ELSE "old") \in {"visible", "expired", "old"}
      OBVIOUS
    <3>2. QED
      BY <2>3, <3>1 DEF PassTime, NoticeTypeOK
  <2>4. QED
    BY <1>1, <2>1, <2>2, <2>3
<1>2. ASSUME NEW n \in Notices, StartDelivery(n) PROVE NoticeTypeOK'
  <2>1. {u \in Recipients : Accepts(u)} \subseteq Recipients
    OBVIOUS
  <2>2. preference' \in [Recipients -> {"none", "yes", "no"}]
    BY <1>2 DEF StartDelivery, NoticeTypeOK
  <2>3. addressees' \in [Notices -> SUBSET Recipients]
    BY <1>2, <2>1 DEF StartDelivery, NoticeTypeOK
  <2>4. QED
    BY <1>2, <2>2, <2>3 DEF StartDelivery, NoticeTypeOK
<1>3. ASSUME NEW n \in Notices, Deliver(n) PROVE NoticeTypeOK'
  <2> DEFINE rows == [u \in Recipients |->
               IF u \in addressees[n] /\ delivery[n][u] = "none" THEN "UNREAD"
               ELSE delivery[n][u]]
  <2>1. rows \in [Recipients -> ReadState \cup {"none"}]
    BY DEF NoticeTypeOK, ReadState
  <2>2. delivery' = [delivery EXCEPT ![n] = rows] \/ delivery' = delivery
    BY <1>3 DEF Deliver
  <2> HIDE DEF rows
  <2>3. delivery' \in [Notices -> [Recipients -> ReadState \cup {"none"}]]
    BY <2>1, <2>2 DEF NoticeTypeOK
  <2>4. QED
    BY <1>3, <2>3 DEF Deliver, NoticeTypeOK
<1>4. ASSUME NEW n \in Notices, LoseTask(n) PROVE NoticeTypeOK'
  <2>1. noticeFaults' \in 0..NoticeFaults
    BY <1>4, NoticeAssumption DEF LoseTask, NoticeTypeOK
  <2>2. QED
    BY <1>4, <2>1 DEF LoseTask, NoticeTypeOK
<1>5. ASSUME NEW u \in Recipients, SetPreference(u) PROVE NoticeTypeOK'
  BY <1>5 DEF SetPreference, NoticeTypeOK
<1>6. ASSUME NEW u \in Recipients, NEW n \in Notices, NEW s \in ReadState \ {"UNREAD"},
             FetchDelivery(u, n, s)
      PROVE  NoticeTypeOK'
  <2>1. [at |-> "fetched", n |-> n, state |-> s]
          \in [at : {"idle", "fetched"}, n : Notices, state : ReadState \ {"UNREAD"}]
    OBVIOUS
  <2>2. QED
    BY <1>6, <2>1 DEF FetchDelivery, NoticeTypeOK
<1>7. ASSUME NEW u \in Recipients, SaveDelivery(u) PROVE NoticeTypeOK'
  <2>p. PICK n \in Notices : n = reader[u].n
    BY NoticeRecords
  <2> DEFINE rows == [delivery[n] EXCEPT ![u] = reader[u].state]
  <2>1. rows \in [Recipients -> ReadState \cup {"none"}]
    BY NoticeRecords DEF NoticeTypeOK
  <2>2. delivery' = [delivery EXCEPT ![n] = rows] \/ delivery' = delivery
    BY <1>7, <2>p DEF SaveDelivery
  <2> HIDE DEF rows
  <2>3. delivery' \in [Notices -> [Recipients -> ReadState \cup {"none"}]]
    BY <2>1, <2>2 DEF NoticeTypeOK
  <2>4. QED
    BY <1>7, <2>3, NoticeRecords DEF SaveDelivery, NoticeTypeOK
<1>8. CASE StartSweep
  BY <1>8 DEF StartSweep, NoticeTypeOK
<1>9. ASSUME NEW n \in Notices, ArchiveNotice(n) PROVE NoticeTypeOK'
  <2>1. sweep' \in [archiving : SUBSET Notices, swept : SUBSET Notices]
    BY <1>9, NoticeRecords DEF ArchiveNotice
  <2>2. QED
    BY <1>9, <2>1 DEF ArchiveNotice, NoticeTypeOK
<1>10. ASSUME NEW n \in Notices, ArchiveDeliveries(n) PROVE NoticeTypeOK'
  <2> DEFINE rows == [u \in Recipients |->
               IF delivery[n][u] \in Swept THEN "ARCHIVED" ELSE delivery[n][u]]
  <2>1. rows \in [Recipients -> ReadState \cup {"none"}]
    BY DEF NoticeTypeOK, ReadState
  <2>2. delivery' = [delivery EXCEPT ![n] = rows]
    BY <1>10 DEF ArchiveDeliveries
  <2> HIDE DEF rows
  <2>3. delivery' \in [Notices -> [Recipients -> ReadState \cup {"none"}]]
    BY <2>1, <2>2 DEF NoticeTypeOK
  <2>4. sweep' \in [archiving : SUBSET Notices, swept : SUBSET Notices]
    BY <1>10 DEF ArchiveDeliveries, NoticeTypeOK
  <2>5. QED
    BY <1>10, <2>3, <2>4 DEF ArchiveDeliveries, NoticeTypeOK
<1>11. CASE PurgeNotices
  <2>1. [u \in Recipients |-> "none"] \in [Recipients -> ReadState \cup {"none"}]
    OBVIOUS
  <2>2. QED
    BY <1>11, <2>1 DEF PurgeNotices, NoticeTypeOK
<1>12. CASE LoseSweep
  <2>1. noticeFaults' \in 0..NoticeFaults
    BY <1>12, NoticeAssumption DEF LoseSweep, NoticeTypeOK
  <2>2. QED
    BY <1>12, <2>1, NoticeRecords DEF LoseSweep, NoticeTypeOK
<1>13. CASE UNCHANGED noticeVars
  BY <1>13 DEF noticeVars, NoticeTypeOK
<1>14. QED
  BY <1>1, <1>2, <1>3, <1>4, <1>5, <1>6, <1>7, <1>8, <1>9, <1>10, <1>11, <1>12, <1>13
  DEF NoticeNext, DeliverySteps

LEMMA NoticeInvStep == NoticeInv /\ [NoticeNext]_noticeVars => NoticeInv'
<1> SUFFICES ASSUME NoticeInv, [NoticeNext]_noticeVars PROVE NoticeInv'
  OBVIOUS
<1>0. NoticeTypeOK /\ NoticeTypeOK'
  BY NoticeTypeStep DEF NoticeInv
\* What archives nothing new and excuses no less, and makes nothing unread.
<1> DEFINE NotMore == \A n \in Notices :
             notice'[n] = "archived" /\ n \notin sweep'.swept \cup torn' =>
               /\ notice[n] = "archived" /\ n \notin sweep.swept \cup torn
               /\ \A u \in Recipients : delivery'[n][u] = "UNREAD" => delivery[n][u] = "UNREAD"
<1>1. NotMore => ArchivedIsQuiet'
  BY DEF NoticeInv, ArchivedIsQuiet
<1> HIDE DEF NotMore
<1>2. ASSUME NEW n \in Notices, CreateNotice(n) \/ EndCreate(n) PROVE NoticeInv'
  <2>1. \A m \in Notices : notice'[m] = "archived" => notice[m] = "archived"
    BY <1>0, <1>2 DEF CreateNotice, EndCreate, NoticeTypeOK
  <2>2. UNCHANGED <<sweep, torn, delivery>>
    BY <1>2 DEF CreateNotice, EndCreate
  <2>3. NotMore
    BY <2>1, <2>2 DEF NotMore
  <2>4. QED
    BY <1>0, <1>1, <2>2, <2>3 DEF NoticeInv
<1>3. ASSUME UNCHANGED <<notice, sweep, torn, delivery>> PROVE NoticeInv'
  BY <1>0, <1>1, <1>3 DEF NoticeInv, NotMore
<1>4. ASSUME NEW n \in Notices, Deliver(n) PROVE NoticeInv'
  <2>1. /\ UNCHANGED <<notice, sweep>> /\ torn \subseteq torn'
        /\ \A m \in Notices : m # n => delivery'[m] = delivery[m]
    BY <1>0, <1>4 DEF Deliver, NoticeTypeOK
  <2>2. notice[n] = "archived" => n \in torn'
    BY <1>4 DEF Deliver
  <2>3. NotMore
    BY <2>1, <2>2 DEF NotMore
  <2>4. QED
    BY <1>0, <1>1, <2>1, <2>3 DEF NoticeInv
<1>5. ASSUME NEW u \in Recipients, SaveDelivery(u) PROVE NoticeInv'
  <2>p. PICK n \in Notices : n = reader[u].n
    BY <1>0, NoticeRecords
  <2>1. UNCHANGED <<notice, sweep, torn>>
    BY <1>5 DEF SaveDelivery
  <2>2. delivery' = [delivery EXCEPT ![n] = [delivery[n] EXCEPT ![u] = reader[u].state]]
        \/ delivery' = delivery
    BY <1>5, <2>p DEF SaveDelivery
  <2>3. \A m \in Notices, v \in Recipients :
          delivery'[m][v] = delivery[m][v] \/ delivery'[m][v] = reader[u].state
    <3>1. /\ DOMAIN delivery = Notices
          /\ \A m \in Notices : DOMAIN delivery[m] = Recipients
      BY <1>0 DEF NoticeTypeOK
    <3> DEFINE rows == [delivery[n] EXCEPT ![u] = reader[u].state]
    <3>2. \A v \in Recipients : rows[v] = delivery[n][v] \/ rows[v] = reader[u].state
      BY <3>1
    <3>3. delivery' = [delivery EXCEPT ![n] = rows] \/ delivery' = delivery
      BY <2>2
    <3> HIDE DEF rows
    <3>4. \A m \in Notices : delivery'[m] = delivery[m] \/ (m = n /\ delivery'[m] = rows)
      BY <3>1, <3>3
    <3>5. QED
      BY <3>2, <3>4
  <2>4. reader[u].state # "UNREAD"
    BY <1>0, NoticeRecords
  <2>5. NotMore
    BY <2>1, <2>3, <2>4 DEF NotMore
  <2>6. QED
    BY <1>0, <1>1, <2>1, <2>5 DEF NoticeInv
<1>6. CASE StartSweep
  <2>1. UNCHANGED <<notice, delivery, torn>> /\ sweep.swept = {} /\ sweep'.swept = {}
    BY <1>6 DEF StartSweep, NoSweep
  <2>2. NotMore
    BY <2>1 DEF NotMore
  <2>3. QED
    BY <1>0, <1>1, <2>1, <2>2 DEF NoticeInv
<1>7. ASSUME NEW n \in Notices, ArchiveNotice(n) PROVE NoticeInv'
  <2>1. /\ UNCHANGED <<delivery, torn>> /\ sweep.swept = {} /\ sweep'.swept = {n}
        /\ \A m \in Notices : m # n => notice'[m] = notice[m]
    BY <1>0, <1>7 DEF ArchiveNotice, NoticeTypeOK
  <2>2. NotMore
    BY <2>1 DEF NotMore
  <2>3. QED
    BY <1>0, <1>1, <2>1, <2>2 DEF NoticeInv
<1>8. ASSUME NEW n \in Notices, ArchiveDeliveries(n) PROVE NoticeInv'
  <2>1. UNCHANGED <<notice, torn>> /\ n \in sweep.swept /\ sweep'.swept = {}
    BY <1>0, <1>8, NoticeRecords DEF ArchiveDeliveries, NoticeTypeOK
  <2>2. \A m \in Notices : m # n => delivery'[m] = delivery[m] /\ m \notin sweep.swept
    BY <1>0, <1>8, <2>1 DEF ArchiveDeliveries, NoticeTypeOK, NoticeInv
  <2>3. \A u \in Recipients : delivery'[n][u] # "UNREAD"
    BY <1>0, <1>8 DEF ArchiveDeliveries, NoticeTypeOK, Swept
  <2>4. ArchivedIsQuiet'
    BY <2>1, <2>2, <2>3 DEF NoticeInv, ArchivedIsQuiet
  <2>5. QED
    BY <1>0, <2>1, <2>4 DEF NoticeInv
<1>9. CASE PurgeNotices
  <2>1. UNCHANGED <<sweep, torn>>
    BY <1>9 DEF PurgeNotices
  <2>2. \A m \in Notices : notice'[m] = "archived" =>
          notice[m] = "archived" /\ delivery'[m] = delivery[m]
    BY <1>0, <1>9 DEF PurgeNotices, NoticeTypeOK
  <2>3. NotMore
    BY <2>1, <2>2 DEF NotMore
  <2>4. QED
    BY <1>0, <1>1, <2>1, <2>3 DEF NoticeInv
<1>10. CASE LoseSweep
  <2>1. /\ UNCHANGED <<notice, delivery>> /\ torn' = torn \cup sweep.swept
        /\ sweep'.swept = {}
    BY <1>10 DEF LoseSweep, NoSweep
  <2>2. NotMore
    BY <2>1 DEF NotMore
  <2>3. QED
    BY <1>0, <1>1, <2>1, <2>2 DEF NoticeInv
<1>11. QED
  <2>1. ASSUME NEW n \in Notices
        PROVE  StartDelivery(n) \/ LoseTask(n) \/ PassTime(n) =>
                 UNCHANGED <<notice, sweep, torn, delivery>>
    BY DEF StartDelivery, LoseTask, PassTime
  <2>2. ASSUME NEW u \in Recipients
        PROVE  /\ SetPreference(u) => UNCHANGED <<notice, sweep, torn, delivery>>
               /\ \A n \in Notices, s \in ReadState \ {"UNREAD"} :
                    FetchDelivery(u, n, s) => UNCHANGED <<notice, sweep, torn, delivery>>
    BY DEF SetPreference, FetchDelivery
  <2>3. UNCHANGED noticeVars => UNCHANGED <<notice, sweep, torn, delivery>>
    BY DEF noticeVars
  <2>4. QED
    BY <1>2, <1>3, <1>4, <1>5, <1>6, <1>7, <1>8, <1>9, <1>10, <2>1, <2>2, <2>3
    DEF NoticeNext, DeliverySteps

\* Types of Notifications.
THEOREM NoticeTypeCorrect == NoticeSpec => []NoticeTypeOK
<1>1. NoticeInit => NoticeTypeOK
  BY NoticeInitInv DEF NoticeInv
<1>2. QED
  BY <1>1, NoticeTypeStep, PTL DEF NoticeSpec

\* After archive_expired_notifications nobody finds the notification unread,
\* unless the sweep died in it or its delivery came later.
THEOREM ArchivedIsQuietAlways == NoticeSpec => []ArchivedIsQuiet
<1>1. NoticeInv => ArchivedIsQuiet
  BY DEF NoticeInv
<1>2. QED
  BY <1>1, NoticeInitInv, NoticeInvStep, PTL DEF NoticeSpec

(***************************************************************************)
(* Notifications: who is reached.                                          *)
(***************************************************************************)

\* The deliveries of a notification are those its finished task made, until the
\* purge takes them all.
Reached(n) == {u \in Recipients : delivery[n][u] # "none"}
DeliveredExactly ==
  \A n \in Notices :
    Reached(n) = IF task[n] = "done" /\ Committed(n) THEN addressees[n] ELSE {}

\* Only committed notifications are delivered or archived, and a delivery is
\* there for an addressee, from the end of the task to the purge.
DeliveryInv ==
  /\ NoticeTypeOK
  /\ \A n \in sweep.archiving : notice[n] = "shown"
  /\ \A n \in Notices :
       /\ task[n] = "running" => notice[n] \in {"shown", "archived", "gone"}
       /\ task[n] = "done" => notice[n] \in {"shown", "archived", "gone"}
       /\ task[n] = "none" => notice[n] = "none"
       /\ \A u \in Recipients :
            delivery[n][u] # "none" <=>
              task[n] = "done" /\ Committed(n) /\ u \in addressees[n]

LEMMA DeliveryInvInit == NoticeInit => DeliveryInv
BY NoticeInitInv DEF NoticeInit, NoticeInv, DeliveryInv, NoSweep

LEMMA DeliveryInvStep == DeliveryInv /\ [NoticeNext]_noticeVars => DeliveryInv'
<1> SUFFICES ASSUME DeliveryInv, [NoticeNext]_noticeVars PROVE DeliveryInv'
  OBVIOUS
<1>0. NoticeTypeOK /\ NoticeTypeOK'
  BY NoticeTypeStep DEF DeliveryInv
\* What is to be shown of each notification, and holds where nothing moves.
<1> DEFINE Fits(n) ==
             /\ task[n] = "running" => notice[n] \in {"shown", "archived", "gone"}
             /\ task[n] = "done" => notice[n] \in {"shown", "archived", "gone"}
             /\ task[n] = "none" => notice[n] = "none"
             /\ \A u \in Recipients :
                  delivery[n][u] # "none" <=>
                    task[n] = "done" /\ Committed(n) /\ u \in addressees[n]
           Still(n) == UNCHANGED <<notice[n], task[n], addressees[n], delivery[n]>>
<1>1. \A n \in Notices : Fits(n)
  BY DEF DeliveryInv
<1>s. \A n \in sweep'.archiving : notice'[n] = "shown"
  <2>1. ASSUME NEW n \in Notices, CreateNotice(n) \/ EndCreate(n) \/ ArchiveNotice(n)
        PROVE  \A m \in sweep'.archiving : notice'[m] = "shown"
    <3>1. /\ \A m \in Notices : m # n => notice'[m] = notice[m]
          /\ sweep'.archiving \subseteq sweep.archiving \cap Notices
      BY <1>0, <2>1, NoticeRecords DEF CreateNotice, EndCreate, ArchiveNotice, NoticeTypeOK
    <3>2. n \notin sweep'.archiving
      BY <2>1 DEF CreateNotice, EndCreate, ArchiveNotice, DeliveryInv
    <3>3. QED
      BY <3>1, <3>2 DEF DeliveryInv
  <2>2. CASE StartSweep
    BY <2>2 DEF StartSweep
  <2>3. CASE PurgeNotices \/ LoseSweep
    BY <2>3 DEF PurgeNotices, LoseSweep, NoSweep
  <2>4. ASSUME UNCHANGED <<notice, sweep>> PROVE \A m \in sweep'.archiving : notice'[m] = "shown"
    BY <2>4 DEF DeliveryInv
  <2>5. ASSUME NEW n \in Notices
        PROVE  StartDelivery(n) \/ Deliver(n) \/ LoseTask(n) \/ PassTime(n)
                 => UNCHANGED <<notice, sweep>>
    BY DEF StartDelivery, Deliver, LoseTask, PassTime
  <2>6. ASSUME NEW u \in Recipients
        PROVE  /\ SetPreference(u) \/ SaveDelivery(u) => UNCHANGED <<notice, sweep>>
               /\ \A n \in Notices, s \in ReadState \ {"UNREAD"} :
                    FetchDelivery(u, n, s) => UNCHANGED <<notice, sweep>>
    BY DEF SetPreference, SaveDelivery, FetchDelivery
  <2>7. ASSUME NEW n \in Notices, ArchiveDeliveries(n)
        PROVE  sweep'.archiving = sweep.archiving /\ notice' = notice
    BY <1>0, <2>7 DEF ArchiveDeliveries, NoticeTypeOK
  <2>8. UNCHANGED noticeVars => UNCHANGED <<notice, sweep>>
    BY DEF noticeVars
  <2>9. QED
    BY <2>1, <2>2, <2>3, <2>4, <2>5, <2>6, <2>7, <2>8
    DEF NoticeNext, DeliverySteps, DeliveryInv
<1>2. ASSUME \A n \in Notices : Fits(n)' PROVE DeliveryInv'
  BY <1>0, <1>s, <1>2 DEF DeliveryInv
<1>3. ASSUME NEW n \in Notices, Still(n) PROVE Fits(n)'
  BY <1>1, <1>3 DEF Committed
<1> HIDE DEF Fits
<1>4. ASSUME UNCHANGED <<notice, task, addressees, delivery>> PROVE DeliveryInv'
  BY <1>2, <1>3, <1>4
<1>5. ASSUME NEW n \in Notices, Fits(n)', \A m \in Notices : m # n => Still(m)
      PROVE  DeliveryInv'
  BY <1>2, <1>3, <1>5
<1>6. ASSUME NEW n \in Notices, CreateNotice(n) \/ EndCreate(n) PROVE DeliveryInv'
  <2>1. \A m \in Notices : m # n => Still(m)
    BY <1>0, <1>6 DEF CreateNotice, EndCreate, NoticeTypeOK
  <2>2. /\ UNCHANGED <<addressees, delivery>> /\ notice[n] \in {"none", "writing"}
        /\ task'[n] = "queued" \/ (task'[n] = task[n] /\ notice[n] = "writing")
        /\ notice'[n] # "none"
    <3>1. CASE CreateNotice(n)
      BY <1>0, <3>1 DEF CreateNotice, NoticeTypeOK
    <3>2. CASE EndCreate(n)
      BY <1>0, <3>2 DEF EndCreate, NoticeTypeOK
    <3>3. QED
      BY <1>6, <3>1, <3>2
  <2>4. task'[n] \notin {"running", "done", "none"}
    BY <1>1, <2>2 DEF Fits
  <2>5. Fits(n)'
    BY <1>1, <2>2, <2>4 DEF Fits, Committed
  <2>3. QED
    BY <1>5, <2>1, <2>5
<1>7. ASSUME NEW n \in Notices, StartDelivery(n) \/ LoseTask(n) PROVE DeliveryInv'
  <2>1. \A m \in Notices : m # n => Still(m)
    BY <1>0, <1>7 DEF StartDelivery, LoseTask, NoticeTypeOK
  <2>2. Fits(n)'
    BY <1>0, <1>1, <1>7 DEF StartDelivery, LoseTask, NoticeTypeOK, Fits, Committed
  <2>3. QED
    BY <1>5, <2>1, <2>2
<1>8. ASSUME NEW n \in Notices, Deliver(n) PROVE DeliveryInv'
  <2>1. \A m \in Notices : m # n => Still(m)
    BY <1>0, <1>8 DEF Deliver, NoticeTypeOK
  <2>2. /\ task[n] = "running" /\ task'[n] = "done" /\ UNCHANGED <<notice, addressees>>
        /\ \A u \in Recipients : delivery[n][u] = "none"
        /\ addressees[n] \subseteq Recipients
    BY <1>0, <1>1, <1>8 DEF Deliver, NoticeTypeOK, Fits
  <2>3. \A u \in Recipients :
          delivery'[n][u] # "none" <=> Committed(n) /\ u \in addressees[n]
    BY <1>0, <1>8, <2>2 DEF Deliver, NoticeTypeOK
  <2>4. Fits(n)'
    BY <1>1, <2>2, <2>3 DEF Fits, Committed
  <2>5. QED
    BY <1>5, <2>1, <2>4
<1>9. ASSUME NEW u \in Recipients, SaveDelivery(u) PROVE DeliveryInv'
  <2>p. PICK n \in Notices : n = reader[u].n
    BY <1>0, NoticeRecords
  <2>1. UNCHANGED <<notice, task, addressees>>
    BY <1>9 DEF SaveDelivery
  <2>2. reader[u].state # "none"
    BY <1>0, NoticeRecords DEF ReadState
  <2>3. \A m \in Notices, v \in Recipients :
          delivery'[m][v] # "none" <=> delivery[m][v] # "none"
    <3> DEFINE rows == [delivery[n] EXCEPT ![u] = reader[u].state]
    <3>1. \A m \in Notices : DOMAIN delivery[m] = Recipients
      BY <1>0 DEF NoticeTypeOK
    <3>2. delivery' = delivery
          \/ (delivery[n][u] # "none" /\ delivery' = [delivery EXCEPT ![n] = rows])
      BY <1>9, <2>p DEF SaveDelivery
    <3>3. \A v \in Recipients : rows[v] = IF v = u THEN reader[u].state ELSE delivery[n][v]
      BY <3>1
    <3> HIDE DEF rows
    <3>4. \A m \in Notices : delivery'[m] = delivery[m]
            \/ (m = n /\ delivery[n][u] # "none" /\ delivery'[m] = rows)
      BY <1>0, <3>2 DEF NoticeTypeOK
    <3>5. QED
      BY <2>2, <3>3, <3>4
  <2>4. \A m \in Notices : Fits(m)'
    BY <1>1, <2>1, <2>3 DEF Fits, Committed
  <2>5. QED
    BY <1>2, <2>4
<1>10. ASSUME NEW n \in Notices, ArchiveNotice(n) PROVE DeliveryInv'
  <2>1. /\ notice[n] = "shown" /\ notice'[n] = "archived"
        /\ UNCHANGED <<task, addressees, delivery>>
        /\ \A m \in Notices : m # n => Still(m)
    BY <1>0, <1>10 DEF ArchiveNotice, DeliveryInv, NoticeTypeOK
  <2>2. Fits(n)'
    BY <1>1, <2>1 DEF Fits, Committed
  <2>3. QED
    BY <1>5, <2>1, <2>2
<1>11. ASSUME NEW n \in Notices, ArchiveDeliveries(n) PROVE DeliveryInv'
  <2>1. \A m \in Notices : m # n => Still(m)
    BY <1>0, <1>11 DEF ArchiveDeliveries, NoticeTypeOK
  <2>2. /\ UNCHANGED <<notice, task, addressees>>
        /\ \A u \in Recipients : delivery'[n][u] # "none" <=> delivery[n][u] # "none"
    BY <1>0, <1>11 DEF ArchiveDeliveries, NoticeTypeOK, Swept
  <2>3. Fits(n)'
    BY <1>1, <2>2 DEF Fits, Committed
  <2>4. QED
    BY <1>5, <2>1, <2>3
<1>12. CASE PurgeNotices
  <2>1. ASSUME NEW n \in Notices PROVE Fits(n)'
    BY <1>0, <1>1, <1>12 DEF PurgeNotices, NoticeTypeOK, Fits, Committed
  <2>2. QED
    BY <1>2, <2>1
<1>13. QED
  <2>1. ASSUME NEW n \in Notices
        PROVE  PassTime(n) => UNCHANGED <<notice, task, addressees, delivery>>
    BY DEF PassTime
  <2>2. ASSUME NEW u \in Recipients
        PROVE  /\ SetPreference(u) => UNCHANGED <<notice, task, addressees, delivery>>
               /\ \A n \in Notices, s \in ReadState \ {"UNREAD"} :
                    FetchDelivery(u, n, s) => UNCHANGED <<notice, task, addressees, delivery>>
    BY DEF SetPreference, FetchDelivery
  <2>3. StartSweep \/ LoseSweep \/ UNCHANGED noticeVars
          => UNCHANGED <<notice, task, addressees, delivery>>
    BY DEF StartSweep, LoseSweep, noticeVars
  <2>4. QED
    BY <1>4, <1>6, <1>7, <1>8, <1>9, <1>10, <1>11, <1>12, <2>1, <2>2, <2>3
    DEF NoticeNext, DeliverySteps

\* A finished task reached exactly the users it had read, and nobody is reached
\* otherwise: no read, archiving, purge or second write adds or loses a delivery
\* of a notification that is still there.
THEOREM DeliveredExactlyAlways == NoticeSpec => []DeliveredExactly
<1>1. DeliveryInv => DeliveredExactly
  <2> SUFFICES ASSUME DeliveryInv, NEW n \in Notices
               PROVE  Reached(n) = IF task[n] = "done" /\ Committed(n)
                                   THEN addressees[n] ELSE {}
    BY DEF DeliveredExactly
  <2>1. addressees[n] \subseteq Recipients
    BY DEF DeliveryInv, NoticeTypeOK
  <2>2. QED
    BY <2>1 DEF DeliveryInv, Reached
<1>2. QED
  BY <1>1, DeliveryInvInit, DeliveryInvStep, PTL DEF NoticeSpec

(***************************************************************************)
(* Backups: the invariant.  A retention run holds only backups the policy  *)
(* does not keep, and a backup is not listed before its creation is over.  *)
(***************************************************************************)

Over(b) == maker[b] \in {"done", "died"}
Filed(b) == maker[b] = "filed" \/ Over(b)

\* What a verification that failed may tell of: a lost file, or a storage that erred.
Missed(b) == file[b] = "lost" \/ <<b, "hidden">> \in erred

\* The row, the artifact and the file of a backup.
BackupSound(b) ==
  /\ ~Over(b) => backup[b].age = 7
  /\ backup[b].status = "COMPLETED" => Filed(b) \/ maker[b] = "completed"
  /\ maker[b] \in {"stored", "completed", "filed"} => file[b] # "none"
  /\ maker[b] = "filed" => b \in artifact
  /\ backup[b].status = "COMPLETED" /\ maker[b] = "done" /\ Kept(b) => b \in artifact
  /\ b \in artifact => Filed(b) /\ (Kept(b) => file[b] # "none")
  /\ "failed" \in result[b] => Filed(b) /\ (Kept(b) => Missed(b))

SweeperSound(w) ==
  /\ \A b \in sweeper[w].todo : Over(b) /\ ~Kept(b)
  /\ sweeper[w].at = "unfiled" => Over(sweeper[w].on) /\ ~Kept(sweeper[w].on)

VerifierSound(v) ==
  verifier[v].at = "read" /\ ~verifier[v].seen =>
    LET b == verifier[v].on IN Filed(b) /\ (Kept(b) => Missed(b))

BackupInv ==
  /\ BackupTypeOK
  /\ \A b \in BackupSessions : BackupSound(b)
  /\ \A w \in Sweepers : SweeperSound(w)
  /\ \A v \in Verifiers : VerifierSound(v)

VerifierRec == [at : {"idle", "listed", "read"}, on : BackupSessions,
                todo : SUBSET BackupSessions, seen : BOOLEAN]
SweeperRec == [at : {"idle", "listed", "unfiled"}, on : BackupSessions,
               todo : SUBSET BackupSessions, found : SUBSET BackupSessions]

LEMMA BackupRecords ==
  /\ IdleVerifier \in VerifierRec /\ IdleSweeper \in SweeperRec
  /\ \A b \in Backup, status \in {"none", "PENDING", "PROCESSING", "COMPLETED", "FAILED",
                                  "deleted"} :
       /\ [b EXCEPT !.status = status] \in Backup
       /\ \A d \in {"sunday", "first", "other"} :
            [b EXCEPT !.status = status, !.day = d] \in Backup
  /\ \A b \in Backup : [b EXCEPT !.age = Older(b.age)] \in Backup
  /\ \A v \in VerifierRec, T \in SUBSET BackupSessions :
       /\ [v EXCEPT !.at = "listed", !.todo = T] \in VerifierRec
       /\ [v EXCEPT !.todo = T] \in VerifierRec
  /\ \A v \in VerifierRec, b \in BackupSessions, seen \in BOOLEAN :
       [v EXCEPT !.at = "read", !.on = b, !.seen = seen] \in VerifierRec
  /\ \A w \in SweeperRec, T, F \in SUBSET BackupSessions :
       /\ [w EXCEPT !.at = "listed", !.todo = T, !.found = F] \in SweeperRec
       /\ [w EXCEPT !.at = "listed", !.todo = T] \in SweeperRec
  /\ \A w \in SweeperRec, b \in BackupSessions :
       [w EXCEPT !.at = "unfiled", !.on = b] \in SweeperRec
<1>1. AnyBackup \in BackupSessions
  BY BackupAssumption DEF AnyBackup
<1>2. IdleVerifier \in VerifierRec /\ IdleSweeper \in SweeperRec
  BY <1>1 DEF IdleVerifier, IdleSweeper, VerifierRec, SweeperRec
<1>3. \A b \in Backup, status \in {"none", "PENDING", "PROCESSING", "COMPLETED", "FAILED",
                                   "deleted"} :
        /\ [b EXCEPT !.status = status] \in Backup
        /\ \A d \in {"sunday", "first", "other"} :
             [b EXCEPT !.status = status, !.day = d] \in Backup
  BY DEF Backup
<1>4. \A b \in Backup : [b EXCEPT !.age = Older(b.age)] \in Backup
  <2>1. \A b \in Backup : Older(b.age) \in Ages
    BY DEF Older, Ages, Backup
  <2>2. \A b \in Backup, a \in Ages : [b EXCEPT !.age = a] \in Backup
    BY DEF Backup
  <2>3. QED
    BY <2>1, <2>2
<1>5. \A v \in VerifierRec, T \in SUBSET BackupSessions :
        /\ [v EXCEPT !.at = "listed", !.todo = T] \in VerifierRec
        /\ [v EXCEPT !.todo = T] \in VerifierRec
  BY DEF VerifierRec
<1>6. \A v \in VerifierRec, b \in BackupSessions, seen \in BOOLEAN :
        [v EXCEPT !.at = "read", !.on = b, !.seen = seen] \in VerifierRec
  BY DEF VerifierRec
<1>7. \A w \in SweeperRec, T, F \in SUBSET BackupSessions :
        /\ [w EXCEPT !.at = "listed", !.todo = T, !.found = F] \in SweeperRec
        /\ [w EXCEPT !.at = "listed", !.todo = T] \in SweeperRec
  BY DEF SweeperRec
<1>8. \A w \in SweeperRec, b \in BackupSessions :
        [w EXCEPT !.at = "unfiled", !.on = b] \in SweeperRec
  BY DEF SweeperRec
<1>9. QED
  BY <1>2, <1>3, <1>4, <1>5, <1>6, <1>7, <1>8

LEMMA BackupParts ==
  ASSUME BackupTypeOK
  PROVE  /\ \A b \in BackupSessions :
              /\ backup[b] \in Backup /\ backup[b].age \in Ages
              /\ backup[b].status \in {"none", "PENDING", "PROCESSING", "COMPLETED",
                                       "FAILED", "deleted"}
         /\ \A v \in Verifiers : /\ verifier[v] \in VerifierRec
                                 /\ verifier[v].on \in BackupSessions
                                 /\ verifier[v].todo \in SUBSET BackupSessions
                                 /\ verifier[v].seen \in BOOLEAN
         /\ \A w \in Sweepers : /\ sweeper[w] \in SweeperRec
                                /\ sweeper[w].on \in BackupSessions
                                /\ sweeper[w].todo \in SUBSET BackupSessions
<1>1. \A b \in BackupSessions : backup[b] \in Backup
  BY DEF BackupTypeOK
<1>2. \A v \in Verifiers : verifier[v] \in VerifierRec
  BY DEF BackupTypeOK, VerifierRec
<1>3. \A w \in Sweepers : sweeper[w] \in SweeperRec
  BY DEF BackupTypeOK, SweeperRec
<1>4. QED
  BY <1>1, <1>2, <1>3 DEF Backup, VerifierRec, SweeperRec

\* What the policy keeps is what it retains.
LEMMA KeptIsRetained ==
  ASSUME BackupTypeOK, NEW b \in BackupSessions
  PROVE  Kept(b) <=> Retained(b)
BY BackupParts DEF Kept, Retained, Ages

LEMMA BackupInitInv == BackupInit => BackupInv
<1> SUFFICES ASSUME BackupInit PROVE BackupInv
  OBVIOUS
<1>1. BackupTypeOK
  <2>1. verifier \in [Verifiers -> VerifierRec] /\ sweeper \in [Sweepers -> SweeperRec]
    BY BackupRecords DEF BackupInit
  <2>2. [status |-> "none", day |-> "other", age |-> 7] \in Backup
    BY DEF Backup, Ages
  <2>3. backup \in [BackupSessions -> Backup]
    BY <2>2 DEF BackupInit
  <2>4. 0 \in 0..BackupFaults
    BY BackupAssumption
  <2>5. QED
    BY <2>1, <2>3, <2>4 DEF BackupInit, BackupTypeOK, VerifierRec, SweeperRec
<1>2. ASSUME NEW b \in BackupSessions PROVE BackupSound(b)
  BY DEF BackupInit, BackupSound, Over, Filed
<1>3. ASSUME NEW w \in Sweepers PROVE SweeperSound(w)
  BY DEF BackupInit, SweeperSound, IdleSweeper
<1>4. ASSUME NEW v \in Verifiers PROVE VerifierSound(v)
  BY DEF BackupInit, VerifierSound, IdleVerifier
<1>5. QED
  BY <1>1, <1>2, <1>3, <1>4 DEF BackupInv

LEMMA BackupTypeStep == BackupTypeOK /\ [BackupNext]_backupVars => BackupTypeOK'
<1> SUFFICES ASSUME BackupTypeOK, [BackupNext]_backupVars PROVE BackupTypeOK'
  OBVIOUS
<1> DEFINE Statuses == {"none", "PENDING", "PROCESSING", "COMPLETED", "FAILED", "deleted"}
           MakerAts == {"idle", "created", "started", "stored", "completed", "filed",
                        "done", "died"}
<1>r. ASSUME NEW b \in BackupSessions, NEW from, NEW to \in MakerAts,
             NEW status \in Statuses, Reach(b, from, to, status)
      PROVE  /\ backup' \in [BackupSessions -> Backup]
             /\ maker' \in [BackupSessions -> MakerAts]
  <2>1. backup' = [backup EXCEPT ![b] = [backup[b] EXCEPT !.status = status]]
    BY <1>r DEF Reach, BackupTypeOK
  <2>2. [backup[b] EXCEPT !.status = status] \in Backup
    BY BackupParts, BackupRecords
  <2>3. QED
    BY <1>r, <2>1, <2>2 DEF Reach, BackupTypeOK
<1>v. verifier \in [Verifiers -> VerifierRec] /\ sweeper \in [Sweepers -> SweeperRec]
  BY DEF BackupTypeOK, VerifierRec, SweeperRec
<1>1. ASSUME NEW b \in BackupSessions, NEW d \in {"sunday", "first", "other"},
             StartBackup(b, d)
      PROVE  BackupTypeOK'
  <2>1. backup' = [backup EXCEPT ![b] = [backup[b] EXCEPT !.status = "PENDING", !.day = d]]
    BY <1>1 DEF StartBackup, BackupTypeOK
  <2>2. [backup[b] EXCEPT !.status = "PENDING", !.day = d] \in Backup
    BY BackupParts, BackupRecords
  <2>3. backup' \in [BackupSessions -> Backup]
    BY <2>1, <2>2 DEF BackupTypeOK
  <2>4. QED
    BY <1>1, <2>3 DEF StartBackup, BackupTypeOK
<1>2. ASSUME NEW b \in BackupSessions,
             ProcessBackup(b) \/ CompleteBackup(b) \/ EndBackup(b) \/ FailBackup(b)
      PROVE  BackupTypeOK'
  <2>1. /\ backup' \in [BackupSessions -> Backup]
        /\ maker' \in [BackupSessions -> MakerAts]
    <3>1. CASE ProcessBackup(b)
      BY <3>1, <1>r DEF ProcessBackup
    <3>2. CASE CompleteBackup(b)
      BY <3>2, <1>r DEF CompleteBackup
    <3>3. CASE EndBackup(b)
      BY <3>3, <1>r DEF EndBackup
    <3>4. CASE FailBackup(b)
      BY <3>4, <1>r DEF FailBackup, OnError
    <3>5. QED
      BY <1>2, <3>1, <3>2, <3>3, <3>4
  <2>2. UNCHANGED <<artifact, file, result, verifier, sweeper, erred, faults>>
    BY <1>2 DEF ProcessBackup, CompleteBackup, EndBackup, FailBackup
  <2>3. QED
    BY <2>1, <2>2 DEF BackupTypeOK
<1>3. ASSUME NEW b \in BackupSessions, StoreBackup(b) PROVE BackupTypeOK'
  <2>1. /\ backup' \in [BackupSessions -> Backup]
        /\ maker' \in [BackupSessions -> MakerAts]
    BY <1>3, <1>r DEF StoreBackup
  <2>2. QED
    BY <1>3, <2>1 DEF StoreBackup, BackupTypeOK
<1>4. ASSUME NEW b \in BackupSessions, FileBackup(b) PROVE BackupTypeOK'
  <2>1. /\ backup' \in [BackupSessions -> Backup]
        /\ maker' \in [BackupSessions -> MakerAts]
    BY <1>4, <1>r DEF FileBackup
  <2>2. QED
    BY <1>4, <2>1 DEF FileBackup, BackupTypeOK
<1>f. ASSUME faults < BackupFaults, faults' = faults + 1
      PROVE  faults' \in 0..BackupFaults
  BY <1>f, BackupAssumption DEF BackupTypeOK
<1>5. ASSUME NEW b \in BackupSessions, LoseMaker(b) PROVE BackupTypeOK'
  <2>1. faults' \in 0..BackupFaults
    BY <1>5, <1>f DEF LoseMaker
  <2>2. QED
    BY <1>5, <2>1 DEF LoseMaker, BackupTypeOK
<1>6. ASSUME NEW b \in BackupSessions, AgeBackup(b) PROVE BackupTypeOK'
  <2>1. backup' = [backup EXCEPT ![b] = [backup[b] EXCEPT !.age = Older(backup[b].age)]]
    BY <1>6 DEF AgeBackup, BackupTypeOK
  <2>2. [backup[b] EXCEPT !.age = Older(backup[b].age)] \in Backup
    BY BackupParts, BackupRecords
  <2>3. backup' \in [BackupSessions -> Backup]
    BY <2>1, <2>2 DEF BackupTypeOK
  <2>4. QED
    BY <1>6, <2>3 DEF AgeBackup, BackupTypeOK
<1>7. ASSUME NEW b \in BackupSessions, LoseFile(b) PROVE BackupTypeOK'
  <2>1. faults' \in 0..BackupFaults
    BY <1>7, <1>f DEF LoseFile
  <2>2. QED
    BY <1>7, <2>1 DEF LoseFile, BackupTypeOK
<1>8. ASSUME NEW v \in Verifiers, NEW b \in BackupSessions,
             ListArtifacts(v) \/ EndVerify(v) \/ ReadBackup(v, b) \/ MisreadBackup(v, b)
      PROVE  BackupTypeOK'
  <2>1. artifact \in SUBSET BackupSessions /\ verifier[v].todo \ {b} \in SUBSET BackupSessions
    BY BackupParts DEF BackupTypeOK
  <2>2. \E rec \in VerifierRec : verifier' = [verifier EXCEPT ![v] = rec]
    <3>1. CASE ListArtifacts(v)
      <4>1. verifier' = [verifier EXCEPT ![v] =
              [verifier[v] EXCEPT !.at = "listed", !.todo = artifact]]
        BY <3>1, <1>v DEF ListArtifacts
      <4>2. [verifier[v] EXCEPT !.at = "listed", !.todo = artifact] \in VerifierRec
        BY <2>1, BackupParts, BackupRecords
      <4>3. QED
        BY <4>1, <4>2
    <3>2. CASE EndVerify(v)
      BY <3>2, BackupRecords DEF EndVerify
    <3>3. CASE ReadBackup(v, b) /\ b \in artifact
      <4>1. verifier' = [verifier EXCEPT ![v] =
              [verifier[v] EXCEPT !.at = "read", !.on = b, !.seen = (file[b] = "stored")]]
        BY <3>3, <1>v DEF ReadBackup
      <4>2. (file[b] = "stored") \in BOOLEAN
        OBVIOUS
      <4>3. [verifier[v] EXCEPT !.at = "read", !.on = b, !.seen = (file[b] = "stored")]
              \in VerifierRec
        BY <4>2, BackupParts, BackupRecords
      <4>4. QED
        BY <4>1, <4>3
    <3>4. CASE ReadBackup(v, b) /\ b \notin artifact
      <4>1. verifier' = [verifier EXCEPT ![v] =
              [verifier[v] EXCEPT !.todo = verifier[v].todo \ {b}]]
        BY <3>4, <1>v DEF ReadBackup
      <4>2. [verifier[v] EXCEPT !.todo = verifier[v].todo \ {b}] \in VerifierRec
        BY <2>1, BackupParts, BackupRecords
      <4>3. QED
        BY <4>1, <4>2
    <3>5. CASE MisreadBackup(v, b)
      <4>1. verifier' = [verifier EXCEPT ![v] =
              [verifier[v] EXCEPT !.at = "read", !.on = b, !.seen = FALSE]]
        BY <3>5, <1>v DEF MisreadBackup
      <4>2. QED
        BY <4>1, BackupParts, BackupRecords
    <3>6. QED
      BY <1>8, <3>1, <3>2, <3>3, <3>4, <3>5
  <2>3. verifier' \in [Verifiers -> VerifierRec]
    BY <2>2, <1>v
  <2>4. /\ UNCHANGED <<backup, artifact, file, maker, result, sweeper>>
        /\ erred' \subseteq BackupSessions \X {"hidden", "left"}
        /\ faults' \in 0..BackupFaults
    <3>1. CASE MisreadBackup(v, b)
      <4>1. faults' \in 0..BackupFaults
        BY <3>1, <1>f DEF MisreadBackup
      <4>2. QED
        BY <3>1, <4>1 DEF MisreadBackup, BackupTypeOK
    <3>2. CASE ~MisreadBackup(v, b)
      BY <1>8, <3>2 DEF ListArtifacts, EndVerify, ReadBackup, BackupTypeOK
    <3>3. QED
      BY <3>1, <3>2
  <2>5. QED
    BY <2>3, <2>4 DEF BackupTypeOK, VerifierRec
<1>9. ASSUME NEW v \in Verifiers, RecordVerdict(v) PROVE BackupTypeOK'
  <2>p. PICK b \in BackupSessions : b = verifier[v].on
    BY BackupParts
  <2>1. verifier[v].todo \ {b} \in SUBSET BackupSessions
    BY BackupParts
  <2>2. [verifier[v] EXCEPT !.at = "listed", !.todo = verifier[v].todo \ {b}] \in VerifierRec
    BY <2>1, BackupParts, BackupRecords
  <2>3. \/ verifier' = [verifier EXCEPT ![v] =
                          [verifier[v] EXCEPT !.at = "listed", !.todo = verifier[v].todo \ {b}]]
        \/ verifier' = [verifier EXCEPT ![v] = IdleVerifier]
    BY <1>9, <2>p, <1>v DEF RecordVerdict
  <2>4. verifier' \in [Verifiers -> VerifierRec]
    BY <1>v, <2>2, <2>3, BackupRecords
  <2> DEFINE told == IF verifier[v].seen THEN "success" ELSE "failed"
  <2>5. told \in {"success", "failed"}
    OBVIOUS
  <2>6. result' = [result EXCEPT ![b] = result[b] \cup {told}] \/ result' = result
    BY <1>9, <2>p DEF RecordVerdict
  <2> HIDE DEF told
  <2>7. result' \in [BackupSessions -> SUBSET {"success", "failed"}]
    BY <2>5, <2>6 DEF BackupTypeOK
  <2>8. UNCHANGED <<backup, artifact, file, maker, sweeper, erred, faults>>
    BY <1>9 DEF RecordVerdict
  <2>9. QED
    BY <2>4, <2>7, <2>8 DEF BackupTypeOK, VerifierRec
<1>10. ASSUME NEW w \in Sweepers, ListBackups(w) \/ EndSweep(w) PROVE BackupTypeOK'
  <2>1. artifact \in SUBSET BackupSessions
    BY DEF BackupTypeOK
  <2>2. \E rec \in SweeperRec : sweeper' = [sweeper EXCEPT ![w] = rec]
    <3>1. CASE ListBackups(w)
      <4>1. PICK S \in SUBSET BackupSessions :
              sweeper' = [sweeper EXCEPT ![w] =
                [sweeper[w] EXCEPT !.at = "listed", !.todo = S, !.found = artifact]]
        BY <3>1, <1>v DEF ListBackups
      <4>2. QED
        BY <2>1, <4>1, BackupParts, BackupRecords
    <3>2. CASE EndSweep(w)
      BY <3>2, BackupRecords DEF EndSweep
    <3>3. QED
      BY <1>10, <3>1, <3>2
  <2>3. sweeper' \in [Sweepers -> SweeperRec]
    BY <2>2, <1>v
  <2>4. UNCHANGED <<backup, artifact, file, maker, result, verifier, erred, faults>>
    BY <1>10 DEF ListBackups, EndSweep
  <2>5. QED
    BY <2>3, <2>4 DEF BackupTypeOK, SweeperRec
<1>11. ASSUME NEW w \in Sweepers, NEW b \in BackupSessions,
              DeleteFile(w, b) \/ LeaveFile(w, b)
       PROVE  BackupTypeOK'
  <2>1. sweeper' = [sweeper EXCEPT ![w] = [sweeper[w] EXCEPT !.at = "unfiled", !.on = b]]
    BY <1>11, <1>v DEF DeleteFile, LeaveFile
  <2>2. sweeper' \in [Sweepers -> SweeperRec]
    BY <2>1, <1>v, BackupParts, BackupRecords
  <2>3. CASE DeleteFile(w, b)
    BY <2>2, <2>3 DEF DeleteFile, BackupTypeOK, SweeperRec
  <2>4. CASE LeaveFile(w, b)
    <3>1. faults' \in 0..BackupFaults
      BY <2>4, <1>f DEF LeaveFile
    <3>2. QED
      BY <2>2, <2>4, <3>1 DEF LeaveFile, BackupTypeOK, SweeperRec
  <2>5. QED
    BY <1>11, <2>3, <2>4
<1>12. ASSUME NEW w \in Sweepers, NEW b \in BackupSessions,
              DeleteBackup(w, b) \/ SkipBackup(w, b)
       PROVE  BackupTypeOK'
  <2>1. sweeper' = [sweeper EXCEPT ![w] =
          [sweeper[w] EXCEPT !.at = "listed", !.todo = sweeper[w].todo \ {b}]]
    BY <1>12, <1>v DEF DeleteBackup, SkipBackup
  <2>2. sweeper[w].todo \ {b} \in SUBSET BackupSessions
    BY BackupParts
  <2>3. sweeper' \in [Sweepers -> SweeperRec]
    BY <2>1, <2>2, <1>v, BackupParts, BackupRecords
  <2>4. CASE DeleteBackup(w, b)
    <3>1. backup' = [backup EXCEPT ![b] = [backup[b] EXCEPT !.status = "deleted"]]
      BY <2>4 DEF DeleteBackup, BackupTypeOK
    <3>2. [backup[b] EXCEPT !.status = "deleted"] \in Backup
      BY BackupParts, BackupRecords
    <3>3. backup' \in [BackupSessions -> Backup]
      BY <3>1, <3>2 DEF BackupTypeOK
    <3>4. artifact' \subseteq BackupSessions
          /\ result' \in [BackupSessions -> SUBSET {"success", "failed"}]
      BY <2>4 DEF DeleteBackup, BackupTypeOK
    <3>5. QED
      BY <2>3, <2>4, <3>3, <3>4 DEF DeleteBackup, BackupTypeOK, SweeperRec
  <2>5. CASE SkipBackup(w, b)
    <3>1. faults' \in 0..BackupFaults
      BY <2>5, <1>f DEF SkipBackup
    <3>2. QED
      BY <2>3, <2>5, <3>1 DEF SkipBackup, BackupTypeOK, SweeperRec
  <2>6. QED
    BY <1>12, <2>4, <2>5
<1>13. ASSUME NEW w \in Sweepers, LoseSweeper(w) PROVE BackupTypeOK'
  <2>1. faults' \in 0..BackupFaults
    BY <1>13, <1>f DEF LoseSweeper
  <2>2. sweeper' \in [Sweepers -> SweeperRec]
    BY <1>13, <1>v, BackupRecords DEF LoseSweeper
  <2>3. QED
    BY <1>13, <2>1, <2>2 DEF LoseSweeper, BackupTypeOK, SweeperRec
<1>14. CASE UNCHANGED backupVars
  BY <1>14 DEF backupVars, BackupTypeOK
<1>15. QED
  <2>1. BackupSessions # {}
    BY BackupAssumption
  <2>2. QED
    BY <1>1, <1>2, <1>3, <1>4, <1>5, <1>6, <1>7, <1>8, <1>9, <1>10, <1>11, <1>12, <1>13,
       <1>14, <2>1 DEF BackupNext, AdvanceSweep

\* A step that touches the rows and the file of one backup, and undoes nothing
\* of it that the processes rely on.
LEMMA BackupFrame ==
  ASSUME BackupInv, BackupTypeOK', NEW b \in BackupSessions, BackupSound(b)',
         \A c \in BackupSessions : c # b =>
           /\ backup'[c] = backup[c] /\ maker'[c] = maker[c] /\ file'[c] = file[c]
           /\ result'[c] = result[c] /\ (c \in artifact' <=> c \in artifact),
         Over(b) => Over(b)', Filed(b) => Filed(b)', UNCHANGED erred,
         Filed(b) /\ Kept(b)' => Kept(b) /\ (Missed(b) => Missed(b)')
  PROVE  /\ \A c \in BackupSessions : BackupSound(c)'
         /\ \A w \in Sweepers :
              /\ sweeper'[w].todo \subseteq sweeper[w].todo
              /\ sweeper'[w].at = "unfiled" =>
                   \/ sweeper[w].at = "unfiled" /\ sweeper'[w].on = sweeper[w].on
                   \/ sweeper'[w].on \in sweeper[w].todo
              => SweeperSound(w)'
         /\ \A v \in Verifiers : verifier'[v] = verifier[v] => VerifierSound(v)'
<1>1. ASSUME NEW c \in BackupSessions PROVE BackupSound(c)'
  <2>1. CASE c = b
    BY <2>1
  <2>2. CASE c # b
    <3>1. BackupSound(c)
      BY DEF BackupInv
    <3>2. QED
      BY <2>2, <3>1 DEF BackupSound, Over, Filed, Kept, Missed
  <2>3. QED
    BY <2>1, <2>2
<1>2. ASSUME NEW c \in BackupSessions
      PROVE  /\ Over(c) => Over(c)'
             /\ Filed(c) => Filed(c)'
             /\ Filed(c) /\ Kept(c)' => Kept(c) /\ (Missed(c) => Missed(c)')
  <2>1. CASE c = b
    BY <2>1
  <2>2. CASE c # b
    BY <2>2 DEF Over, Filed, Kept, Missed
  <2>3. QED
    BY <2>1, <2>2
<1>3. ASSUME NEW w \in Sweepers,
             sweeper'[w].todo \subseteq sweeper[w].todo,
             sweeper'[w].at = "unfiled" =>
               \/ sweeper[w].at = "unfiled" /\ sweeper'[w].on = sweeper[w].on
               \/ sweeper'[w].on \in sweeper[w].todo
      PROVE  SweeperSound(w)'
  <2>p. BackupTypeOK /\ SweeperSound(w)
    BY DEF BackupInv
  <2>1. ASSUME NEW c \in BackupSessions, Over(c), ~Kept(c) PROVE Over(c)' /\ ~Kept(c)'
    BY <1>2, <2>1 DEF Filed
  <2>2. ASSUME NEW c \in sweeper'[w].todo PROVE Over(c)' /\ ~Kept(c)'
    <3>1. c \in sweeper[w].todo /\ c \in BackupSessions
      BY <1>3, <2>2, <2>p, BackupParts
    <3>2. QED
      BY <2>1, <2>p, <3>1 DEF SweeperSound
  <2>3. PICK c \in BackupSessions : c = sweeper'[w].on
    <3>1. sweeper' \in [Sweepers -> SweeperRec]
      BY DEF BackupTypeOK, SweeperRec
    <3>2. QED
      BY <3>1 DEF SweeperRec
  <2>4. ASSUME sweeper'[w].at = "unfiled" PROVE Over(c)' /\ ~Kept(c)'
    <3>1. Over(c) /\ ~Kept(c)
      BY <1>3, <2>p, <2>3, <2>4 DEF SweeperSound
    <3>2. QED
      BY <2>1, <3>1
  <2>5. QED
    BY <2>2, <2>3, <2>4 DEF SweeperSound
<1>4. ASSUME NEW v \in Verifiers, verifier'[v] = verifier[v] PROVE VerifierSound(v)'
  <2>1. PICK c \in BackupSessions : c = verifier[v].on
    BY BackupParts DEF BackupInv
  <2>2. verifier[v].at = "read" /\ ~verifier[v].seen =>
          Filed(c) /\ (Kept(c) => Missed(c))
    BY <2>1 DEF BackupInv, VerifierSound
  <2>3. verifier[v].at = "read" /\ ~verifier[v].seen =>
          Filed(c)' /\ (Kept(c)' => Missed(c)')
    BY <1>2, <2>2
  <2>4. QED
    BY <1>4, <2>1, <2>3 DEF VerifierSound
<1>5. QED
  BY <1>1, <1>3, <1>4

\* The same when the processes stay as they are.
LEMMA BackupOwn ==
  ASSUME BackupInv, BackupTypeOK', NEW b \in BackupSessions, BackupSound(b)',
         \A c \in BackupSessions : c # b =>
           /\ backup'[c] = backup[c] /\ maker'[c] = maker[c] /\ file'[c] = file[c]
           /\ result'[c] = result[c] /\ (c \in artifact' <=> c \in artifact),
         Over(b) => Over(b)', Filed(b) => Filed(b)', UNCHANGED erred,
         Filed(b) /\ Kept(b)' => Kept(b) /\ (Missed(b) => Missed(b)'),
         UNCHANGED <<verifier, sweeper>>
  PROVE  BackupInv'
<1>1. /\ \A c \in BackupSessions : BackupSound(c)'
      /\ \A w \in Sweepers : SweeperSound(w)'
      /\ \A v \in Verifiers : VerifierSound(v)'
  BY BackupFrame
<1>2. QED
  BY <1>1 DEF BackupInv

LEMMA BackupInvStep == BackupInv /\ [BackupNext]_backupVars => BackupInv'
<1> SUFFICES ASSUME BackupInv, [BackupNext]_backupVars PROVE BackupInv'
  OBVIOUS
<1>0. BackupTypeOK /\ BackupTypeOK'
  BY BackupTypeStep DEF BackupInv
<1>b. \A b \in BackupSessions : BackupSound(b)
  BY DEF BackupInv
\* A statement of create_backup: its backup is kept, being new.
<1>m. ASSUME NEW b \in BackupSessions, NEW from, NEW to, NEW status,
             Reach(b, from, to, status),
             from \in {"created", "started", "stored", "completed", "filed"},
             UNCHANGED <<result, verifier, sweeper, erred>>
      PROVE  /\ maker[b] = from /\ maker'[b] = to /\ backup'[b].status = status
             /\ backup[b].age = 7 /\ backup'[b].age = 7
             /\ Kept(b) /\ Kept(b)' /\ ~Over(b) /\ (Filed(b) <=> from = "filed")
             /\ \A c \in BackupSessions : c # b =>
                  /\ backup'[c] = backup[c] /\ maker'[c] = maker[c]
                  /\ result'[c] = result[c]
  <2>1. maker[b] = from /\ ~Over(b) /\ (Filed(b) <=> from = "filed") /\ backup[b].age = 7
    BY <1>m, <1>b DEF Reach, Over, Filed, BackupSound
  <2>2. /\ maker'[b] = to /\ backup'[b].status = status /\ backup'[b].age = backup[b].age
        /\ \A c \in BackupSessions : c # b => backup'[c] = backup[c] /\ maker'[c] = maker[c]
    BY <1>0, <1>m, BackupParts DEF Reach, BackupTypeOK, Backup
  <2>3. QED
    BY <1>m, <2>1, <2>2 DEF Kept
<1>1. ASSUME NEW b \in BackupSessions, NEW d \in {"sunday", "first", "other"},
             StartBackup(b, d)
      PROVE  BackupInv'
  <2>1. /\ maker[b] = "idle" /\ maker'[b] = "created"
        /\ backup'[b].status = "PENDING" /\ backup'[b].age = backup[b].age
        /\ UNCHANGED <<artifact, file, result, verifier, sweeper, erred>>
        /\ \A c \in BackupSessions : c # b => backup'[c] = backup[c] /\ maker'[c] = maker[c]
    BY <1>0, <1>1, BackupParts DEF StartBackup, BackupTypeOK, Backup
  <2>2. ~Over(b) /\ ~Filed(b) /\ ~Over(b)' /\ ~Filed(b)'
    BY <2>1 DEF Over, Filed
  <2>3. BackupSound(b)'
    BY <1>b, <2>1, <2>2 DEF BackupSound, Missed
  <2>4. QED
    BY <1>0, <2>1, <2>2, <2>3, BackupOwn
<1>2. ASSUME NEW b \in BackupSessions, ProcessBackup(b) PROVE BackupInv'
  <2>1. /\ Reach(b, "created", "started", "PROCESSING")
        /\ UNCHANGED <<artifact, file, result, verifier, sweeper, erred>>
    BY <1>2 DEF ProcessBackup
  <2>2. ~Over(b)' /\ ~Filed(b)'
    BY <1>m, <2>1 DEF Over, Filed
  <2>3. BackupSound(b)'
    BY <1>b, <1>m, <2>1, <2>2 DEF BackupSound, Missed
  <2>4. /\ ~Over(b) /\ ~Filed(b) /\ (Missed(b) => Missed(b)') /\ Kept(b)
        /\ \A c \in BackupSessions : c # b =>
             /\ backup'[c] = backup[c] /\ maker'[c] = maker[c]
             /\ result'[c] = result[c]
    BY <1>m, <2>1 DEF Missed
  <2>5. QED
    BY <1>0, <2>1, <2>3, <2>4, BackupOwn
<1>3. ASSUME NEW b \in BackupSessions, StoreBackup(b) PROVE BackupInv'
  <2>1. /\ Reach(b, "started", "stored", "PROCESSING")
        /\ UNCHANGED <<artifact, result, verifier, sweeper, erred>>
        /\ file'[b] = "stored" /\ \A c \in BackupSessions : c # b => file'[c] = file[c]
    BY <1>0, <1>3 DEF StoreBackup, BackupTypeOK
  <2>2. ~Over(b)' /\ ~Filed(b)'
    BY <1>m, <2>1 DEF Over, Filed
  <2>3. BackupSound(b)'
    BY <1>b, <1>m, <2>1, <2>2 DEF BackupSound, Missed
  <2>4. /\ ~Over(b) /\ ~Filed(b)
        /\ \A c \in BackupSessions : c # b =>
             /\ backup'[c] = backup[c] /\ maker'[c] = maker[c]
             /\ result'[c] = result[c]
    BY <1>m, <2>1
  <2>5. QED
    BY <1>0, <2>1, <2>3, <2>4, BackupOwn
<1>4. ASSUME NEW b \in BackupSessions, CompleteBackup(b) PROVE BackupInv'
  <2>1. /\ Reach(b, "stored", "completed", "COMPLETED")
        /\ UNCHANGED <<artifact, file, result, verifier, sweeper, erred>>
    BY <1>4 DEF CompleteBackup
  <2>2. ~Over(b)' /\ ~Filed(b)'
    BY <1>m, <2>1 DEF Over, Filed
  <2>3. BackupSound(b)'
    BY <1>b, <1>m, <2>1, <2>2 DEF BackupSound, Missed
  <2>4. /\ ~Over(b) /\ ~Filed(b) /\ (Missed(b) => Missed(b)') /\ Kept(b)
        /\ \A c \in BackupSessions : c # b =>
             /\ backup'[c] = backup[c] /\ maker'[c] = maker[c]
             /\ result'[c] = result[c]
    BY <1>m, <2>1 DEF Missed
  <2>5. QED
    BY <1>0, <2>1, <2>3, <2>4, BackupOwn
<1>5. ASSUME NEW b \in BackupSessions, FileBackup(b) PROVE BackupInv'
  <2>1. /\ Reach(b, "completed", "filed", "COMPLETED")
        /\ UNCHANGED <<file, result, verifier, sweeper, erred>> /\ artifact' = artifact \cup {b}
    BY <1>5 DEF FileBackup
  <2>2. ~Over(b)' /\ Filed(b)'
    BY <1>m, <2>1 DEF Over, Filed
  <2>3. BackupSound(b)'
    BY <1>b, <1>m, <2>1, <2>2 DEF BackupSound, Missed
  <2>4. /\ ~Over(b) /\ (Missed(b) => Missed(b)') /\ Kept(b)
        /\ \A c \in BackupSessions : c # b =>
             /\ backup'[c] = backup[c] /\ maker'[c] = maker[c]
             /\ result'[c] = result[c] /\ (c \in artifact' <=> c \in artifact)
    BY <1>m, <2>1 DEF Missed
  <2>5. QED
    BY <1>0, <2>1, <2>2, <2>3, <2>4, BackupOwn
<1>6. ASSUME NEW b \in BackupSessions, EndBackup(b) PROVE BackupInv'
  <2>1. /\ Reach(b, "filed", "done", "COMPLETED")
        /\ UNCHANGED <<artifact, file, result, verifier, sweeper, erred>>
    BY <1>6 DEF EndBackup
  <2>2. Over(b)' /\ Filed(b)'
    BY <1>m, <2>1 DEF Over, Filed
  <2>3. BackupSound(b)'
    BY <1>b, <1>m, <2>1, <2>2 DEF BackupSound, Missed
  <2>4. /\ (Missed(b) => Missed(b)') /\ Kept(b)
        /\ \A c \in BackupSessions : c # b =>
             /\ backup'[c] = backup[c] /\ maker'[c] = maker[c]
             /\ result'[c] = result[c] /\ (c \in artifact' <=> c \in artifact)
    BY <1>m, <2>1 DEF Missed
  <2>5. QED
    BY <1>0, <2>1, <2>2, <2>3, <2>4, BackupOwn
<1>7. ASSUME NEW b \in BackupSessions, FailBackup(b) PROVE BackupInv'
  <2>1. /\ maker[b] \in {"created", "started", "stored", "completed", "filed"}
        /\ Reach(b, maker[b], "done", "FAILED")
        /\ UNCHANGED <<artifact, file, result, verifier, sweeper, erred>>
    BY <1>7 DEF FailBackup, OnError
  <2>2. Over(b)' /\ Filed(b)'
    BY <1>m, <2>1 DEF Over, Filed
  <2>3. BackupSound(b)'
    BY <1>b, <1>m, <2>1, <2>2 DEF BackupSound, Missed
  <2>4. /\ (Missed(b) => Missed(b)') /\ Kept(b)
        /\ \A c \in BackupSessions : c # b =>
             /\ backup'[c] = backup[c] /\ maker'[c] = maker[c]
             /\ result'[c] = result[c] /\ (c \in artifact' <=> c \in artifact)
    BY <1>m, <2>1 DEF Missed
  <2>5. QED
    BY <1>0, <2>1, <2>2, <2>3, <2>4, BackupOwn
<1>8. ASSUME NEW b \in BackupSessions, LoseMaker(b) PROVE BackupInv'
  <2>1. /\ ~Over(b) /\ maker'[b] = "died"
        /\ UNCHANGED <<backup, artifact, file, result, verifier, sweeper, erred>>
        /\ \A c \in BackupSessions : c # b => maker'[c] = maker[c]
    BY <1>0, <1>8 DEF LoseMaker, BackupTypeOK, Over
  <2>2. Over(b)' /\ Filed(b)' /\ (Kept(b)' <=> Kept(b))
    BY <2>1 DEF Over, Filed, Kept
  <2>3. BackupSound(b)'
    BY <1>b, <2>1, <2>2 DEF BackupSound, Missed
  <2>4. Missed(b) => Missed(b)'
    BY <2>1 DEF Missed
  <2>5. QED
    BY <1>0, <2>1, <2>2, <2>3, <2>4, BackupOwn
<1>9. ASSUME NEW b \in BackupSessions, AgeBackup(b) PROVE BackupInv'
  <2>1. /\ Over(b) /\ backup'[b].age = Older(backup[b].age)
        /\ backup'[b].status = backup[b].status /\ backup'[b].day = backup[b].day
        /\ UNCHANGED <<artifact, file, maker, result, verifier, sweeper, erred>>
        /\ \A c \in BackupSessions : c # b => backup'[c] = backup[c]
    BY <1>0, <1>9, BackupParts DEF AgeBackup, BackupTypeOK, Over, Backup
  <2>2. Over(b)' /\ Filed(b)' /\ Filed(b)
    BY <2>1 DEF Over, Filed
  <2>3. Kept(b)' => Kept(b)
    <3>1. backup[b].age \in {7, 28, 365, 366}
      BY <1>0, BackupParts DEF Ages
    <3>2. QED
      BY <2>1, <3>1 DEF Kept, Older
  <2>4. BackupSound(b)'
    BY <1>b, <2>1, <2>2, <2>3 DEF BackupSound, Missed
  <2>5. Missed(b) => Missed(b)'
    BY <2>1 DEF Missed
  <2>6. QED
    BY <1>0, <2>1, <2>2, <2>3, <2>4, <2>5, BackupOwn
<1>10. ASSUME NEW b \in BackupSessions, LoseFile(b) PROVE BackupInv'
  <2>1. /\ file'[b] = "lost"
        /\ UNCHANGED <<backup, artifact, maker, result, verifier, sweeper, erred>>
        /\ \A c \in BackupSessions : c # b => file'[c] = file[c]
    BY <1>0, <1>10 DEF LoseFile, BackupTypeOK
  <2>2. (Over(b)' <=> Over(b)) /\ (Filed(b)' <=> Filed(b)) /\ (Kept(b)' <=> Kept(b))
    BY <2>1 DEF Over, Filed, Kept
  <2>3. BackupSound(b)'
    BY <1>b, <2>1, <2>2 DEF BackupSound, Missed
  <2>4. Missed(b) => Missed(b)'
    BY <2>1 DEF Missed
  <2>5. QED
    BY <1>0, <2>1, <2>2, <2>3, <2>4, BackupOwn
\* The verifier: a reading that fails found a file lost or a backup not kept.
<1>s. ASSUME UNCHANGED <<backup, artifact, file, maker>>, erred \subseteq erred'
      PROVE  \A c \in BackupSessions :
               /\ (Over(c)' <=> Over(c)) /\ (Filed(c)' <=> Filed(c)) /\ (Kept(c)' <=> Kept(c))
               /\ Missed(c) => Missed(c)'
               /\ result'[c] = result[c] => BackupSound(c)'
  <2>1. \A c \in BackupSessions :
          /\ (Over(c)' <=> Over(c)) /\ (Filed(c)' <=> Filed(c)) /\ (Kept(c)' <=> Kept(c))
          /\ Missed(c) => Missed(c)'
    BY <1>s DEF Over, Filed, Kept, Missed
  <2>2. QED
    BY <1>b, <1>s, <2>1 DEF BackupSound
<1>t. ASSUME UNCHANGED <<backup, artifact, file, maker, sweeper>>
      PROVE  \A w \in Sweepers : SweeperSound(w)'
  BY <1>t DEF BackupInv, SweeperSound, Over, Kept
<1>u. ASSUME UNCHANGED <<backup, artifact, file, maker>>, erred \subseteq erred',
             NEW v \in Verifiers, verifier'[v] = verifier[v]
      PROVE  VerifierSound(v)'
  BY <1>u DEF BackupInv, VerifierSound, Over, Filed, Kept, Missed
<1>11. ASSUME NEW v \in Verifiers, NEW b \in BackupSessions,
              ListArtifacts(v) \/ EndVerify(v) \/ ReadBackup(v, b) \/ MisreadBackup(v, b)
       PROVE  BackupInv'
  <2>1. /\ UNCHANGED <<backup, artifact, file, maker, result, sweeper>>
        /\ erred \subseteq erred'
        /\ \A x \in Verifiers : x # v => verifier'[x] = verifier[x]
    BY <1>0, <1>11 DEF ListArtifacts, EndVerify, ReadBackup, MisreadBackup, BackupTypeOK
  <2>2. verifier'[v].at = "read" =>
          /\ verifier'[v].on = b /\ b \in artifact
          /\ verifier'[v].seen = (file[b] = "stored") \/ Missed(b)'
    <3>0. verifier \in [Verifiers -> VerifierRec] /\ verifier[v] \in VerifierRec
      BY <1>0 DEF BackupTypeOK, VerifierRec
    <3>1. CASE ListArtifacts(v)
      <4>1. verifier'[v].at = "listed"
        BY <3>0, <3>1 DEF ListArtifacts, VerifierRec
      <4>2. QED
        BY <4>1
    <3>2. CASE EndVerify(v)
      <4>1. verifier'[v].at = "idle"
        BY <3>0, <3>2 DEF EndVerify, IdleVerifier
      <4>2. QED
        BY <4>1
    <3>3. CASE ReadBackup(v, b) /\ b \in artifact
      BY <3>0, <3>3 DEF ReadBackup, VerifierRec
    <3>4. CASE ReadBackup(v, b) /\ b \notin artifact
      <4>1. verifier[v].at = "listed"
            /\ verifier' = [verifier EXCEPT ![v].todo = verifier[v].todo \ {b}]
        BY <3>4 DEF ReadBackup
      <4>2. verifier'[v].at = "listed"
        BY <3>0, <4>1 DEF VerifierRec
      <4>3. QED
        BY <4>2
    <3>5. CASE MisreadBackup(v, b)
      BY <3>0, <3>5 DEF MisreadBackup, VerifierRec, Missed
    <3>6. QED
      BY <1>11, <3>1, <3>2, <3>3, <3>4, <3>5
  <2>3. /\ b \in artifact => Filed(b)
        /\ b \in artifact /\ file[b] # "stored" /\ Kept(b) => Missed(b)
    BY <1>0, <1>b DEF BackupSound, BackupTypeOK, Missed
  <2>f. (Filed(b)' <=> Filed(b)) /\ (Kept(b)' <=> Kept(b)) /\ (Missed(b) => Missed(b)')
    BY <1>s, <2>1
  <2>4. VerifierSound(v)'
    <3>1. ASSUME verifier'[v].at = "read", ~verifier'[v].seen
          PROVE  verifier'[v].on = b /\ Filed(b)' /\ (Kept(b)' => Missed(b)')
      BY <2>2, <2>3, <2>f, <3>1
    <3>2. QED
      BY <3>1 DEF VerifierSound
  <2>5. \A x \in Verifiers : VerifierSound(x)'
    BY <1>u, <2>1, <2>4
  <2>6. QED
    BY <1>0, <1>s, <1>t, <2>1, <2>5 DEF BackupInv
<1>12. ASSUME NEW v \in Verifiers, RecordVerdict(v) PROVE BackupInv'
  <2>p. PICK b \in BackupSessions : b = verifier[v].on
    BY <1>0, BackupParts
  <2>1. /\ UNCHANGED <<backup, artifact, file, maker, sweeper, erred>> /\ verifier[v].at = "read"
        /\ \A x \in Verifiers : x # v => verifier'[x] = verifier[x]
        /\ \A c \in BackupSessions : c # b => result'[c] = result[c]
    BY <1>0, <1>12, <2>p DEF RecordVerdict, BackupTypeOK
  <2>2. verifier'[v].at # "read"
    <3>0. verifier \in [Verifiers -> VerifierRec] /\ verifier[v] \in VerifierRec
      BY <1>0 DEF BackupTypeOK, VerifierRec
    <3>1. \/ verifier' = [verifier EXCEPT ![v] =
               [verifier[v] EXCEPT !.at = "listed", !.todo = verifier[v].todo \ {b}]]
          \/ verifier' = [verifier EXCEPT ![v] = IdleVerifier]
      BY <1>12, <2>p, <3>0 DEF RecordVerdict
    <3>2. [verifier[v] EXCEPT !.at = "listed", !.todo = verifier[v].todo \ {b}].at = "listed"
      BY <3>0 DEF VerifierRec
    <3>3. IdleVerifier.at = "idle"
      BY DEF IdleVerifier
    <3>4. QED
      BY <3>0, <3>1, <3>2, <3>3
  <2>3. "failed" \in result'[b] => Filed(b) /\ (Kept(b) => Missed(b))
    <3>1. "failed" \in result[b] => Filed(b) /\ (Kept(b) => Missed(b))
      BY <1>b DEF BackupSound
    <3>2. ~verifier[v].seen => Filed(b) /\ (Kept(b) => Missed(b))
      BY <2>p, <2>1 DEF BackupInv, VerifierSound
    <3>3. "failed" \in result'[b] => "failed" \in result[b] \/ ~verifier[v].seen
      BY <1>0, <1>12, <2>p DEF RecordVerdict, BackupTypeOK
    <3>4. QED
      BY <3>1, <3>2, <3>3
  <2>4. BackupSound(b)'
    <3>1. (Over(b)' <=> Over(b)) /\ (Filed(b)' <=> Filed(b)) /\ (Kept(b)' <=> Kept(b))
      BY <1>s, <2>1
    <3>2. QED
      BY <1>b, <1>s, <2>1, <2>3, <3>1 DEF BackupSound
  <2>5. \A c \in BackupSessions : BackupSound(c)'
    BY <1>s, <2>1, <2>4
  <2>6. VerifierSound(v)'
    BY <2>2 DEF VerifierSound
  <2>7. \A x \in Verifiers : VerifierSound(x)'
    BY <1>u, <2>1, <2>6
  <2>8. QED
    BY <1>0, <1>t, <2>1, <2>5, <2>7 DEF BackupInv
\* The retention: what it lists is not kept, and so its creation is over.
<1>x. ASSUME NEW w \in Sweepers, SweeperSound(w)',
             \A x \in Sweepers : x # w => sweeper'[x] = sweeper[x],
             UNCHANGED <<backup, artifact, file, maker, result, verifier>>,
             erred \subseteq erred'
      PROVE  BackupInv'
  <2>1. \A c \in BackupSessions : BackupSound(c)'
    BY <1>s, <1>x
  <2>2. \A v \in Verifiers : VerifierSound(v)'
    BY <1>u, <1>x
  <2>3. ASSUME NEW x \in Sweepers, x # w PROVE SweeperSound(x)'
    BY <1>x, <2>3 DEF BackupInv, SweeperSound, Over, Kept
  <2>4. \A x \in Sweepers : SweeperSound(x)'
    BY <1>x, <2>3
  <2>5. QED
    BY <1>0, <2>1, <2>2, <2>4 DEF BackupInv
<1>y. sweeper \in [Sweepers -> SweeperRec]
  BY <1>0 DEF BackupTypeOK, SweeperRec
<1>13. ASSUME NEW w \in Sweepers, ListBackups(w) PROVE BackupInv'
  <2> DEFINE S == {b \in BackupSessions : backup[b].status = "COMPLETED" /\ ~Retained(b)}
  <2>1. /\ UNCHANGED <<backup, artifact, file, maker, result, verifier, erred>>
        /\ \A x \in Sweepers : x # w => sweeper'[x] = sweeper[x]
        /\ sweeper'[w].at = "listed" /\ sweeper'[w].todo = S
    BY <1>13, <1>y DEF ListBackups, SweeperRec
  <2>2. ASSUME NEW c \in S PROVE Over(c)' /\ ~Kept(c)'
    <3>1. c \in BackupSessions /\ ~Kept(c)
      BY <1>0, KeptIsRetained
    <3>2. backup[c].age # 7
      BY <3>1 DEF Kept
    <3>3. Over(c)
      BY <1>b, <3>1, <3>2 DEF BackupSound
    <3>4. QED
      BY <1>s, <2>1, <3>1, <3>3
  <2> HIDE DEF S
  <2>3. SweeperSound(w)'
    BY <2>1, <2>2 DEF SweeperSound
  <2>4. QED
    BY <1>x, <2>1, <2>3
<1>14. ASSUME NEW w \in Sweepers, EndSweep(w) \/ LoseSweeper(w) PROVE BackupInv'
  <2>1. /\ UNCHANGED <<backup, artifact, file, maker, result, verifier, erred>>
        /\ \A x \in Sweepers : x # w => sweeper'[x] = sweeper[x]
        /\ sweeper'[w].at = "idle" /\ sweeper'[w].todo = {}
    BY <1>14, <1>y DEF EndSweep, LoseSweeper, IdleSweeper
  <2>2. SweeperSound(w)'
    BY <2>1 DEF SweeperSound
  <2>3. QED
    BY <1>x, <2>1, <2>2
<1>z. ASSUME NEW w \in Sweepers, NEW b \in BackupSessions,
             DeleteFile(w, b) \/ LeaveFile(w, b) \/ DeleteBackup(w, b) \/ SkipBackup(w, b)
      PROVE  /\ Over(b) /\ ~Kept(b) /\ Filed(b)
             /\ sweeper'[w].todo \subseteq sweeper[w].todo
             /\ sweeper'[w].at = "unfiled" => sweeper'[w].on \in sweeper[w].todo
             /\ \A x \in Sweepers : x # w => sweeper'[x] = sweeper[x]
  <2>1. b \in sweeper[w].todo \/ (sweeper[w].at = "unfiled" /\ sweeper[w].on = b)
    BY <1>z DEF DeleteFile, LeaveFile, DeleteBackup, SkipBackup
  <2>2. Over(b) /\ ~Kept(b) /\ Filed(b)
    BY <2>1 DEF BackupInv, SweeperSound, Filed
  <2>3. CASE DeleteFile(w, b) \/ LeaveFile(w, b)
    BY <2>2, <2>3, <1>y DEF DeleteFile, LeaveFile, SweeperRec
  <2>4. CASE DeleteBackup(w, b) \/ SkipBackup(w, b)
    <3>1. sweeper' = [sweeper EXCEPT ![w] =
            [sweeper[w] EXCEPT !.at = "listed", !.todo = sweeper[w].todo \ {b}]]
      BY <2>4, <1>y DEF DeleteBackup, SkipBackup
    <3>2. sweeper'[w].at = "listed" /\ sweeper'[w].todo = sweeper[w].todo \ {b}
      BY <3>1, <1>y DEF SweeperRec
    <3>3. QED
      BY <2>2, <3>1, <3>2, <1>y
  <2>5. QED
    BY <1>z, <2>3, <2>4
<1>15. ASSUME NEW w \in Sweepers, NEW b \in BackupSessions,
              SkipBackup(w, b) \/ LeaveFile(w, b)
       PROVE  BackupInv'
  <2>1. /\ UNCHANGED <<backup, artifact, file, maker, result, verifier>>
        /\ erred \subseteq erred'
    BY <1>15 DEF SkipBackup, LeaveFile
  <2>2. SweeperSound(w)'
    <3>1. /\ sweeper'[w].todo \subseteq sweeper[w].todo
          /\ sweeper'[w].at = "unfiled" => sweeper'[w].on \in sweeper[w].todo
      BY <1>15, <1>z
    <3>2. QED
      BY <2>1, <3>1 DEF BackupInv, SweeperSound, Over, Kept
  <2>3. QED
    BY <1>x, <1>15, <1>z, <2>1, <2>2
<1>16. ASSUME NEW w \in Sweepers, NEW b \in BackupSessions,
              DeleteFile(w, b) \/ DeleteBackup(w, b)
       PROVE  BackupInv'
  <2>1. Over(b) /\ ~Kept(b) /\ Filed(b)
    BY <1>16, <1>z
  <2>2. /\ UNCHANGED <<maker, verifier, erred>>
        /\ backup'[b].age = backup[b].age /\ backup'[b].day = backup[b].day
        /\ backup'[b].status \in {backup[b].status, "deleted"}
        /\ b \in artifact' => b \in artifact
        /\ "failed" \in result'[b] => "failed" \in result[b]
        /\ \A c \in BackupSessions : c # b =>
             /\ backup'[c] = backup[c] /\ maker'[c] = maker[c] /\ file'[c] = file[c]
             /\ result'[c] = result[c] /\ (c \in artifact' <=> c \in artifact)
    <3>1. CASE DeleteFile(w, b)
      BY <1>0, <3>1 DEF DeleteFile, BackupTypeOK
    <3>2. CASE DeleteBackup(w, b)
      <4>1. backup' = [backup EXCEPT ![b] = [backup[b] EXCEPT !.status = "deleted"]]
        BY <1>0, <3>2 DEF DeleteBackup, BackupTypeOK
      <4>2. /\ backup'[b].age = backup[b].age /\ backup'[b].day = backup[b].day
            /\ backup'[b].status = "deleted"
            /\ \A c \in BackupSessions : c # b => backup'[c] = backup[c]
        BY <1>0, <4>1, BackupParts DEF BackupTypeOK, Backup
      <4>3. /\ result'[b] = {} /\ b \notin artifact'
            /\ \A c \in BackupSessions : c # b =>
                 result'[c] = result[c] /\ (c \in artifact' <=> c \in artifact)
        BY <1>0, <3>2 DEF DeleteBackup, BackupTypeOK
      <4>4. UNCHANGED <<file, maker, verifier, erred>>
        BY <3>2 DEF DeleteBackup
      <4>5. QED
        BY <4>2, <4>3, <4>4
    <3>3. QED
      BY <1>16, <3>1, <3>2
  <2>3. ~Kept(b)' /\ Over(b)' /\ Filed(b)'
    BY <2>1, <2>2 DEF Kept, Over, Filed
  <2>4. maker[b] \in {"done", "died"}
    BY <2>1 DEF Over
  <2>5. BackupSound(b)'
    BY <2>2, <2>3, <2>4 DEF BackupSound
  <2>6. /\ \A c \in BackupSessions : BackupSound(c)'
        /\ \A v \in Verifiers : VerifierSound(v)'
        /\ \A x \in Sweepers :
             /\ sweeper'[x].todo \subseteq sweeper[x].todo
             /\ sweeper'[x].at = "unfiled" =>
                  \/ sweeper[x].at = "unfiled" /\ sweeper'[x].on = sweeper[x].on
                  \/ sweeper'[x].on \in sweeper[x].todo
             => SweeperSound(x)'
    BY <1>0, <2>2, <2>3, <2>5, BackupFrame
  <2>7. ASSUME NEW x \in Sweepers PROVE SweeperSound(x)'
    <3>1. CASE x = w
      BY <1>16, <1>z, <2>6, <3>1
    <3>2. CASE x # w
      <4>1. sweeper'[x] = sweeper[x]
        BY <1>16, <1>z, <3>2
      <4>2. QED
        BY <2>6, <4>1
    <3>3. QED
      BY <3>1, <3>2
  <2>8. QED
    BY <1>0, <2>6, <2>7 DEF BackupInv
<1>17. CASE UNCHANGED backupVars
  <2>1. UNCHANGED <<backup, artifact, file, maker, result, verifier, sweeper, erred>>
    BY <1>17 DEF backupVars
  <2>2. QED
    BY <1>0, <1>s, <1>t, <1>u, <2>1 DEF BackupInv
<1>18. QED
  BY BackupAssumption, <1>1, <1>2, <1>3, <1>4, <1>5, <1>6, <1>7, <1>8, <1>9, <1>10, <1>11,
     <1>12, <1>13, <1>14, <1>15, <1>16, <1>17
  DEF BackupNext, AdvanceSweep

\* Types of Backups.
THEOREM BackupTypeCorrect == BackupSpec => []BackupTypeOK
<1>1. BackupInit => BackupTypeOK
  BY BackupInitInv DEF BackupInv
<1>2. QED
  BY <1>1, BackupTypeStep, PTL DEF BackupSpec

\* run_retention_cleanup never takes the artifact or the file of a completed
\* backup that the policy of docs/OPERATIONS.md keeps.
THEOREM KeptBackupsReadableAlways == BackupSpec => []KeptBackupsReadable
<1>1. BackupInv => KeptBackupsReadable
  <2> SUFFICES ASSUME BackupInv, NEW b \in BackupSessions,
                      backup[b].status = "COMPLETED", Kept(b),
                      maker[b] \notin {"completed", "died"}
               PROVE  b \in artifact /\ file[b] # "none"
    BY DEF KeptBackupsReadable
  <2>1. BackupSound(b)
    BY DEF BackupInv
  <2>2. maker[b] \in {"filed", "done"}
    BY <2>1 DEF BackupSound, Filed, Over
  <2>3. b \in artifact
    BY <2>1, <2>2 DEF BackupSound
  <2>4. QED
    BY <2>1, <2>3 DEF BackupSound
<1>2. QED
  BY <1>1, BackupInitInv, BackupInvStep, PTL DEF BackupSpec

\* verify_all_backups records a failure only of a file the storage lost or hid, or
\* of a backup the policy gave up, whatever it overlaps.
THEOREM NoFalseAlarmAlways == BackupSpec => []NoFalseAlarm
<1>1. BackupInv => NoFalseAlarm
  BY DEF BackupInv, BackupSound, NoFalseAlarm, Missed
<1>2. QED
  BY <1>1, BackupInitInv, BackupInvStep, PTL DEF BackupSpec

(***************************************************************************)
(* Backups: a row does not go before its file.                             *)
(***************************************************************************)

\* The retention deletes no row before its file: a deleted backup leaves a file in
\* the storage only where the storage did not delete it and said nothing, or where
\* the request that made it died between the status COMPLETED and the artifact
\* (the run then finds no artifact).  Nothing knows of such a file any more.
DeletedLeavesNoFile ==
  \A b \in BackupSessions :
    backup[b].status = "deleted" =>
      maker[b] = "died" \/ file[b] = "none" \/ <<b, "left">> \in erred

Fileless(b) ==
  Over(b) /\ (maker[b] = "died" \/ file[b] = "none" \/ <<b, "left">> \in erred)

GoneInv ==
  /\ \A b \in BackupSessions :
       /\ backup[b].status = "COMPLETED" /\ maker[b] = "done" => b \in artifact
       /\ backup[b].status = "deleted" => Fileless(b)
  /\ \A w \in Sweepers :
       /\ \A b \in sweeper[w].todo \ sweeper[w].found : Fileless(b)
       /\ sweeper[w].at = "unfiled" => Fileless(sweeper[w].on)

\* The steps of a request, of time and of the storage.
MakerStep(b) ==
  \/ \E d \in {"sunday", "first", "other"} : StartBackup(b, d)
  \/ ProcessBackup(b) \/ StoreBackup(b) \/ CompleteBackup(b) \/ FileBackup(b)
  \/ EndBackup(b) \/ FailBackup(b) \/ LoseMaker(b) \/ AgeBackup(b) \/ LoseFile(b)

LEMMA MakerParts ==
  ASSUME BackupInv, NEW b \in BackupSessions, MakerStep(b)
  PROVE  /\ UNCHANGED <<sweeper, erred>> /\ artifact \subseteq artifact'
         /\ \A c \in BackupSessions \ {b} :
              backup'[c] = backup[c] /\ maker'[c] = maker[c] /\ file'[c] = file[c]
         /\ Fileless(b) => Fileless(b)'
         /\ backup'[b].status = "deleted" => backup[b].status = "deleted"
         /\ backup'[b].status = "COMPLETED" /\ maker'[b] = "done" =>
              \/ backup[b].status = "COMPLETED" /\ maker[b] = "done"
              \/ maker[b] = "filed"
<1>0. BackupTypeOK
  BY DEF BackupInv
<1>1. ASSUME NEW from, NEW to, NEW status, Reach(b, from, to, status)
      PROVE  /\ maker[b] = from /\ maker'[b] = to /\ backup'[b].status = status
             /\ \A c \in BackupSessions \ {b} : backup'[c] = backup[c] /\ maker'[c] = maker[c]
  BY <1>0, <1>1, BackupParts DEF Reach, BackupTypeOK, Backup
<1>2. CASE \E d \in {"sunday", "first", "other"} : StartBackup(b, d)
  BY <1>0, <1>2, BackupParts DEF StartBackup, BackupTypeOK, Backup, Fileless, Over
<1>3. CASE ProcessBackup(b)
  <2>1. maker[b] = "created" /\ maker'[b] = "started" /\ backup'[b].status = "PROCESSING"
    BY <1>1, <1>3 DEF ProcessBackup
  <2>2. QED
    BY <1>1, <1>3, <2>1 DEF ProcessBackup, Fileless, Over
<1>4. CASE StoreBackup(b)
  <2>1. maker[b] = "started" /\ maker'[b] = "stored" /\ backup'[b].status = "PROCESSING"
    BY <1>1, <1>4 DEF StoreBackup
  <2>2. \A c \in BackupSessions \ {b} : file'[c] = file[c]
    BY <1>0, <1>4 DEF StoreBackup, BackupTypeOK
  <2>3. QED
    BY <1>1, <1>4, <2>1, <2>2 DEF StoreBackup, Fileless, Over
<1>5. CASE CompleteBackup(b)
  <2>1. maker[b] = "stored" /\ maker'[b] = "completed" /\ backup'[b].status = "COMPLETED"
    BY <1>1, <1>5 DEF CompleteBackup
  <2>2. QED
    BY <1>1, <1>5, <2>1 DEF CompleteBackup, Fileless, Over
<1>6. CASE FileBackup(b)
  <2>1. maker[b] = "completed" /\ maker'[b] = "filed" /\ backup'[b].status = "COMPLETED"
    BY <1>1, <1>6 DEF FileBackup
  <2>2. QED
    BY <1>1, <1>6, <2>1 DEF FileBackup, Fileless, Over
<1>7. CASE EndBackup(b)
  <2>1. maker[b] = "filed" /\ maker'[b] = "done" /\ backup'[b].status = "COMPLETED"
    BY <1>1, <1>7 DEF EndBackup
  <2>2. QED
    BY <1>1, <1>7, <2>1 DEF EndBackup, Fileless, Over
<1>8. CASE FailBackup(b)
  <2>1. maker[b] \notin {"done", "died"} /\ backup'[b].status = "FAILED"
    BY <1>1, <1>8 DEF FailBackup, OnError
  <2>2. \A c \in BackupSessions \ {b} : backup'[c] = backup[c] /\ maker'[c] = maker[c]
    BY <1>1, <1>8 DEF FailBackup
  <2>3. QED
    BY <1>8, <2>1, <2>2 DEF FailBackup, Fileless, Over
<1>9. CASE LoseMaker(b)
  BY <1>0, <1>9 DEF LoseMaker, BackupTypeOK, Fileless, Over
<1>10. CASE AgeBackup(b)
  <2>1. backup' = [backup EXCEPT ![b] = [backup[b] EXCEPT !.age = Older(backup[b].age)]]
    BY <1>0, <1>10 DEF AgeBackup, BackupTypeOK
  <2>2. /\ backup'[b].status = backup[b].status
        /\ \A c \in BackupSessions \ {b} : backup'[c] = backup[c]
    BY <1>0, <2>1, BackupParts DEF BackupTypeOK, Backup
  <2>3. QED
    BY <1>10, <2>2 DEF AgeBackup, Fileless, Over
<1>11. CASE LoseFile(b)
  BY <1>0, <1>11 DEF LoseFile, BackupTypeOK, Fileless, Over
<1>12. QED
  BY <1>2, <1>3, <1>4, <1>5, <1>6, <1>7, <1>8, <1>9, <1>10, <1>11 DEF MakerStep

\* What a retention run does, with b or (b is no matter) with its list.
LEMMA SweepParts ==
  ASSUME BackupInv, GoneInv, NEW w \in Sweepers, NEW b \in BackupSessions,
         \/ ListBackups(w) \/ EndSweep(w) \/ LoseSweeper(w)
         \/ DeleteFile(w, b) \/ LeaveFile(w, b) \/ DeleteBackup(w, b) \/ SkipBackup(w, b)
  PROVE  /\ UNCHANGED maker /\ erred \subseteq erred'
         /\ \A x \in Sweepers \ {w} : sweeper'[x] = sweeper[x]
         /\ \A c \in BackupSessions :
              /\ file'[c] \in {file[c], "none"}
              /\ \/ backup'[c] = backup[c] /\ (c \in artifact' <=> c \in artifact)
                 \/ backup'[c].status = "deleted" /\ Fileless(c)
         /\ \A c \in sweeper'[w].todo \ sweeper'[w].found : Fileless(c)
         /\ sweeper'[w].at = "unfiled" =>
              LET c == sweeper'[w].on
              IN Over(c) /\ (file'[c] = "none" \/ <<c, "left">> \in erred')
<1>0. BackupTypeOK
  BY DEF BackupInv
<1>1. /\ sweeper[w] \in SweeperRec /\ sweeper \in [Sweepers -> SweeperRec]
      /\ sweeper[w].todo \subseteq BackupSessions
  BY <1>0, BackupParts DEF BackupTypeOK, SweeperRec
<1>2. CASE ListBackups(w)
  <2> DEFINE S == {c \in BackupSessions : backup[c].status = "COMPLETED" /\ ~Retained(c)}
  <2>1. sweeper' = [sweeper EXCEPT ![w] =
          [sweeper[w] EXCEPT !.at = "listed", !.todo = S, !.found = artifact]]
        /\ UNCHANGED <<backup, artifact, file, maker, erred>>
    BY <1>1, <1>2 DEF ListBackups
  <2> HIDE DEF S
  <2>2. /\ sweeper'[w].at = "listed" /\ sweeper'[w].todo = S /\ sweeper'[w].found = artifact
        /\ \A x \in Sweepers \ {w} : sweeper'[x] = sweeper[x]
    BY <1>1, <2>1 DEF SweeperRec
  <2>3. ASSUME NEW c \in S \ artifact PROVE Fileless(c)
    <3>1. c \in BackupSessions /\ backup[c].status = "COMPLETED" /\ backup[c].age # 7
      BY DEF S, Retained
    <3>2. Over(c)
      BY <3>1 DEF BackupInv, BackupSound
    <3>3. maker[c] # "done"
      BY <2>3, <3>1 DEF GoneInv
    <3>4. QED
      BY <3>2, <3>3 DEF Fileless, Over
  <2>4. QED
    BY <2>1, <2>2, <2>3
<1>3. CASE EndSweep(w) \/ LoseSweeper(w)
  <2>1. /\ UNCHANGED <<backup, artifact, file, maker, erred>>
        /\ sweeper' = [sweeper EXCEPT ![w] = IdleSweeper]
    BY <1>3 DEF EndSweep, LoseSweeper
  <2>2. sweeper'[w].at = "idle" /\ sweeper'[w].todo = {}
        /\ \A x \in Sweepers \ {w} : sweeper'[x] = sweeper[x]
    BY <1>1, <2>1 DEF IdleSweeper
  <2>3. QED
    BY <2>1, <2>2
<1>4. CASE DeleteFile(w, b) \/ LeaveFile(w, b)
  <2>1. /\ sweeper' = [sweeper EXCEPT ![w] = [sweeper[w] EXCEPT !.at = "unfiled", !.on = b]]
        /\ \/ file' = [file EXCEPT ![b] = "none"] /\ UNCHANGED erred
           \/ UNCHANGED file /\ erred' = erred \cup {<<b, "left">>}
        /\ UNCHANGED <<backup, artifact, maker>>
        /\ b \in sweeper[w].todo
    BY <1>1, <1>4 DEF DeleteFile, LeaveFile
  <2>2. /\ sweeper'[w].on = b /\ sweeper'[w].todo = sweeper[w].todo
        /\ sweeper'[w].found = sweeper[w].found
        /\ \A x \in Sweepers \ {w} : sweeper'[x] = sweeper[x]
    BY <1>1, <2>1 DEF SweeperRec
  <2>3. Over(b)
    BY <2>1 DEF BackupInv, SweeperSound
  <2>4. /\ file'[b] = "none" \/ <<b, "left">> \in erred'
        /\ erred \subseteq erred'
        /\ \A c \in BackupSessions : file'[c] \in {file[c], "none"}
    BY <1>0, <2>1 DEF BackupTypeOK
  <2>5. QED
    BY <2>1, <2>2, <2>3, <2>4 DEF GoneInv
<1>5. CASE DeleteBackup(w, b) \/ SkipBackup(w, b)
  <2>1. /\ sweeper' = [sweeper EXCEPT ![w] =
            [sweeper[w] EXCEPT !.at = "listed", !.todo = sweeper[w].todo \ {b}]]
        /\ UNCHANGED <<file, maker, erred>>
    BY <1>1, <1>5 DEF DeleteBackup, SkipBackup
  <2>2. /\ sweeper'[w].at = "listed" /\ sweeper'[w].todo = sweeper[w].todo \ {b}
        /\ sweeper'[w].found = sweeper[w].found
        /\ \A x \in Sweepers \ {w} : sweeper'[x] = sweeper[x]
    BY <1>1, <2>1 DEF SweeperRec
  <2>3. ASSUME NEW c \in BackupSessions
        PROVE  \/ backup'[c] = backup[c] /\ (c \in artifact' <=> c \in artifact)
               \/ backup'[c].status = "deleted" /\ Fileless(c)
    <3>1. CASE SkipBackup(w, b)
      BY <3>1 DEF SkipBackup
    <3>2. CASE DeleteBackup(w, b)
      <4>1. Fileless(b)
        BY <3>2 DEF DeleteBackup, GoneInv
      <4>2. backup' = [backup EXCEPT ![b] = [backup[b] EXCEPT !.status = "deleted"]]
            /\ artifact' = artifact \ {b}
        BY <1>0, <3>2 DEF DeleteBackup, BackupTypeOK
      <4>3. /\ backup'[b].status = "deleted"
            /\ \A o \in BackupSessions \ {b} : backup'[o] = backup[o]
        BY <1>0, <4>2, BackupParts DEF BackupTypeOK, Backup
      <4>4. QED
        BY <4>1, <4>2, <4>3
    <3>3. QED
      BY <1>5, <3>1, <3>2
  <2>4. QED
    BY <2>1, <2>2, <2>3 DEF GoneInv
<1>6. QED
  BY <1>2, <1>3, <1>4, <1>5

LEMMA GoneInvStep == BackupInv /\ GoneInv /\ [BackupNext]_backupVars => GoneInv'
<1> SUFFICES ASSUME BackupInv, GoneInv, [BackupNext]_backupVars PROVE GoneInv'
  OBVIOUS
<1>0. /\ BackupTypeOK
      /\ \A w \in Sweepers : sweeper[w].todo \subseteq BackupSessions
                             /\ sweeper[w].on \in BackupSessions
  BY BackupParts DEF BackupInv
<1>1. ASSUME NEW b \in BackupSessions, MakerStep(b) PROVE GoneInv'
  <2>1. \A c \in BackupSessions : Fileless(c) => Fileless(c)'
    BY <1>1, MakerParts DEF Fileless, Over
  <2>2. ASSUME NEW c \in BackupSessions
        PROVE  /\ backup'[c].status = "COMPLETED" /\ maker'[c] = "done" => c \in artifact'
               /\ backup'[c].status = "deleted" => Fileless(c)'
    <3>1. maker[b] = "filed" => b \in artifact
      BY DEF BackupInv, BackupSound
    <3>2. QED
      BY <1>1, <2>1, <3>1, MakerParts DEF GoneInv
  <2>3. UNCHANGED <<sweeper, erred>>
    BY <1>1, MakerParts
  <2>4. QED
    BY <1>0, <2>1, <2>2, <2>3 DEF GoneInv
<1>2. ASSUME NEW w \in Sweepers, NEW b \in BackupSessions,
             \/ ListBackups(w) \/ EndSweep(w) \/ LoseSweeper(w)
             \/ DeleteFile(w, b) \/ LeaveFile(w, b)
             \/ DeleteBackup(w, b) \/ SkipBackup(w, b)
      PROVE  GoneInv'
  <2>1. \A c \in BackupSessions : Fileless(c) => Fileless(c)'
    BY <1>2, SweepParts DEF Fileless, Over
  <2>2. ASSUME NEW c \in BackupSessions
        PROVE  /\ backup'[c].status = "COMPLETED" /\ maker'[c] = "done" => c \in artifact'
               /\ backup'[c].status = "deleted" => Fileless(c)'
    BY <1>2, <2>1, SweepParts DEF GoneInv
  <2>3. BackupTypeOK'
    BY BackupTypeStep DEF BackupInv
  <2>4. \A x \in Sweepers : /\ sweeper'[x].todo \subseteq BackupSessions
                            /\ sweeper'[x].on \in BackupSessions
    BY <2>3 DEF BackupTypeOK
  <2>5. ASSUME NEW x \in Sweepers
        PROVE  /\ \A c \in sweeper'[x].todo \ sweeper'[x].found : Fileless(c)'
               /\ sweeper'[x].at = "unfiled" => Fileless(sweeper[x].on)'
    <3>1. CASE x = w
      BY <1>2, <2>1, <2>4, <3>1, SweepParts DEF Fileless, Over
    <3>2. CASE x # w
      <4>1. sweeper'[x] = sweeper[x]
        BY <1>2, <3>2, SweepParts
      <4>2. QED
        BY <1>0, <2>1, <4>1 DEF GoneInv
    <3>3. QED
      BY <3>1, <3>2
  <2>6. QED
    BY <2>2, <2>5 DEF GoneInv
<1>3. ASSUME UNCHANGED <<backup, artifact, file, maker, sweeper>>, erred \subseteq erred'
      PROVE  GoneInv'
  BY <1>3 DEF GoneInv, Fileless, Over
<1>4. ASSUME NEW v \in Verifiers,
             \/ ListArtifacts(v) \/ EndVerify(v) \/ RecordVerdict(v)
             \/ \E b \in BackupSessions : ReadBackup(v, b) \/ MisreadBackup(v, b)
      PROVE  GoneInv'
  BY <1>3, <1>4 DEF ListArtifacts, EndVerify, RecordVerdict, ReadBackup, MisreadBackup
<1>5. CASE UNCHANGED backupVars
  BY <1>3, <1>5 DEF backupVars
<1>6. ASSUME NEW w \in Sweepers, AdvanceSweep(w) \/ LoseSweeper(w) PROVE GoneInv'
  <2>1. \E b \in BackupSessions : TRUE
    BY BackupAssumption
  <2>2. QED
    BY <1>2, <1>6, <2>1 DEF AdvanceSweep
<1>7. QED
  BY <1>1, <1>2, <1>4, <1>5, <1>6 DEF BackupNext, MakerStep

\* The retention asks for the deletion of a file before it deletes the row that
\* knows of it, in every run and after every death: no row goes and leaves its
\* file behind, but where the storage swallowed the failure, or the creation died
\* before it had an artifact.
THEOREM DeletedLeavesNoFileAlways == BackupSpec => []DeletedLeavesNoFile
<1>1. BackupInit => GoneInv
  BY DEF BackupInit, GoneInv, IdleSweeper
<1>2. GoneInv => DeletedLeavesNoFile
  BY DEF GoneInv, DeletedLeavesNoFile, Fileless
<1>3. QED
  BY <1>1, <1>2, BackupInitInv, BackupInvStep, GoneInvStep, PTL DEF BackupSpec

(***************************************************************************)
(* The modules together: as in PipelinesProofs, with their fairness.       *)
(***************************************************************************)

LEMMA PlatformStep ==
  [Next]_vars =>
    /\ [PrintNext]_printVars /\ [FlagNext]_flagVars
    /\ [BackupNext]_backupVars /\ [NoticeNext]_noticeVars
BY DEF Next, vars

\* The run's composition does not bend the modules it is made of: each of them
\* sees a behaviour of its own, with the fairness its own promises need.
LEMMA PlatformComposes ==
  Spec => PrintSpec /\ FlagSpec /\ BackupSpec /\ NoticeSpec
<1>1. Init => PrintInit /\ FlagInit /\ BackupInit /\ NoticeInit
  BY DEF Init
<1>2. QED
  BY <1>1, PlatformStep, PTL
  DEF Spec, Fairness, PrintSpec, FlagSpec, BackupSpec, NoticeSpec

\* Types of print requests, flags, backups and notifications together.
THEOREM PlatformTypeCorrect == Spec => []TypeOK
<1>1. PrintTypeOK /\ FlagTypeOK /\ BackupTypeOK /\ NoticeTypeOK => TypeOK
  BY DEF TypeOK
<1>2. QED
  BY <1>1, PlatformComposes, PrintTypeCorrect, FlagTypeCorrect, BackupTypeCorrect,
     NoticeTypeCorrect, PTL
=============================================================================
