-------------------------- MODULE ExportRunProofs --------------------------
(***************************************************************************)
(* Proofs about ExportRun, for any cards, sessions, options, retries and   *)
(* edits: what an export marked is in its document, with the data the card *)
(* has after it was marked.                                                *)
(*                                                                         *)
(* The invariant follows one session through its attempt: what it selects, *)
(* what it has filed when it begins to mark, and what it holds while it    *)
(* marks.  Steps of other sessions and requests disturb it only through    *)
(* the cards, and never make a card the session's own.                     *)
(***************************************************************************)
EXTENDS ExportRun, TLAPS

(***************************************************************************)
(* What a step does to the attempt of its session.                         *)
(***************************************************************************)

\* All sessions but s keep their attempt, their row and their files.
OthersKeep(s) ==
  \A t \in ExportSessions \ {s} :
    /\ attempt'[t] = attempt[t] /\ session'[t] = session[t]
    /\ newest'[t] = newest[t] /\ filed'[t] = filed[t]

LEMMA AttemptParts ==
  ASSUME ExportTypeOK, NEW s \in ExportSessions
  PROVE  /\ attempt[s] \in Attempt
         /\ attempt[s].copies \in Copies /\ attempt[s].retries \in 0..ExportRetries
         /\ attempt[s].next \in ExportCards \cup {None}
BY DEF ExportTypeOK, Attempt

LEMMA AttemptTypes ==
  /\ NoCopies \in Copies
  /\ \A q \in Attempt, copies \in Copies, next \in ExportCards \cup {None},
        at \in {"none", "queued", "begun", "resolved", "marking", "moving", "stored",
                "over"} :
       [q EXCEPT !.at = at, !.copies = copies, !.next = next] \in Attempt
  /\ \A at \in {"none", "queued", "begun", "resolved", "marking", "moving", "stored",
                "over"},
        n \in 0..ExportRetries : NoAttempt(at, n) \in Attempt
<1>1. NoCopies \in Copies
  BY DEF NoCopies, Copies
<1>2. \A q \in Attempt, copies \in Copies, next \in ExportCards \cup {None},
         at \in {"none", "queued", "begun", "resolved", "marking", "moving", "stored",
                 "over"} :
        [q EXCEPT !.at = at, !.copies = copies, !.next = next] \in Attempt
  BY DEF Attempt
<1>3. QED
  BY <1>1, <1>2 DEF NoAttempt, Attempt

\* The steps that only change how far the attempt is.
Stage(s, at) ==
  attempt' = [attempt EXCEPT ![s] = [@ EXCEPT !.at = at]]

LEMMA StageParts ==
  ASSUME ExportTypeOK, NEW s \in ExportSessions,
         NEW at \in {"none", "queued", "begun", "resolved", "marking", "moving",
                     "stored", "over"},
         Stage(s, at)
  PROVE  /\ attempt' \in [ExportSessions -> Attempt]
         /\ attempt'[s].at = at /\ attempt'[s].copies = attempt[s].copies
         /\ attempt'[s].next = attempt[s].next
<1>1. [attempt[s] EXCEPT !.at = at] \in Attempt
  BY AttemptParts DEF Attempt
<1>2. attempt'[s] = [attempt[s] EXCEPT !.at = at]
  BY DEF Stage, ExportTypeOK
<1>3. QED
  BY <1>1, <1>2, AttemptParts DEF Stage, ExportTypeOK, Attempt

LEMMA StartParts ==
  ASSUME ExportTypeOK, NEW s \in ExportSessions, NEW options \in ExportScopes,
         StartExport(s, options)
  PROVE  /\ attempt' \in [ExportSessions -> Attempt]
         /\ attempt'[s].at = "queued" /\ attempt'[s].copies = NoCopies
         /\ session'[s] = [status |-> "PENDING", options |-> options]
         /\ session[s].status = None /\ OthersKeep(s)
<1>1. NoAttempt("queued", 0) \in Attempt
  <2>1. 0 \in 0..ExportRetries
    BY ExportAssumption
  <2>2. QED
    BY <2>1, AttemptTypes
<1>2. attempt'[s] = NoAttempt("queued", 0)
  BY DEF StartExport, ExportTypeOK
<1>3. attempt'[s].at = "queued" /\ attempt'[s].copies = NoCopies
  BY <1>2 DEF NoAttempt
<1>4. attempt' \in [ExportSessions -> Attempt]
  BY <1>1 DEF StartExport, ExportTypeOK
<1>5. QED
  BY <1>3, <1>4 DEF StartExport, ExportTypeOK, OthersKeep

LEMMA ResolveParts ==
  ASSUME ExportTypeOK, NEW s \in ExportSessions, ResolveCards(s)
  PROVE  /\ attempt' \in [ExportSessions -> Attempt]
         /\ attempt'[s].at = "resolved"
         /\ attempt'[s].copies = [c \in ExportCards |->
              IF Selects(session[s].options, c) THEN exportCard[c] ELSE NotIn]
         /\ OthersKeep(s)
<1> DEFINE copies == [c \in ExportCards |->
                        IF Selects(session[s].options, c) THEN exportCard[c] ELSE NotIn]
<1>1. copies \in Copies
  BY DEF ExportTypeOK, Copies
<1> HIDE DEF copies
<1>2. [attempt[s] EXCEPT !.at = "resolved", !.copies = copies] \in Attempt
  BY <1>1, AttemptParts DEF Attempt
<1>3. attempt' = [attempt EXCEPT ![s] = [@ EXCEPT !.at = "resolved", !.copies = copies]]
  BY DEF ResolveCards, copies
<1>4. attempt'[s] = [attempt[s] EXCEPT !.at = "resolved", !.copies = copies]
  BY <1>3 DEF ExportTypeOK
<1>5. attempt'[s].at = "resolved" /\ attempt'[s].copies = copies
  BY <1>4, AttemptParts DEF Attempt
<1>6. attempt' \in [ExportSessions -> Attempt] /\ OthersKeep(s)
  BY <1>2, <1>3 DEF ResolveCards, ExportTypeOK, OthersKeep
<1>7. QED
  BY <1>5, <1>6 DEF copies

LEMMA RefreshParts ==
  ASSUME ExportTypeOK, NEW s \in ExportSessions, NEW c \in ExportCards, RefreshCard(s, c)
  PROVE  /\ attempt' \in [ExportSessions -> Attempt]
         /\ attempt'[s].at \in {"marking", "moving"}
         /\ \A d \in ExportCards : d # c => attempt'[s].copies[d] = attempt[s].copies[d]
         /\ \/ attempt'[s].at = "marking" /\ attempt'[s].copies[c] = NotIn
            \/ /\ attempt'[s].at = "moving" /\ attempt'[s].next = c
               /\ attempt'[s].copies[c] # NotIn
               /\ attempt'[s].copies[c].data = attempt[s].copies[c].data
         /\ OthersKeep(s)
<1> DEFINE copy == Refreshed(attempt[s].copies[c], exportCard[c])
<1>1. attempt[s] \in Attempt /\ attempt[s].copies \in Copies /\ attempt[s].at = "marking"
  BY AttemptParts DEF RefreshCard, ExportAt
<1>2. /\ copy \in CardRow /\ copy.data = attempt[s].copies[c].data
      /\ copy.status = "APPROVED" => copy # NotIn
  <2>1. attempt[s].copies[c] \in CardRow /\ exportCard[c].status \in Status
    BY <1>1 DEF RefreshCard, In, Copies, ExportTypeOK, CardRow
  <2>2. copy = [attempt[s].copies[c] EXCEPT !.status = exportCard[c].status]
    BY DEF Refreshed
  <2>3. copy \in CardRow /\ copy.data = attempt[s].copies[c].data
    BY <2>1, <2>2 DEF CardRow
  <2>4. copy.status = "APPROVED" => copy # NotIn
    BY DEF NotIn, None
  <2>5. QED
    BY <2>3, <2>4
<1> HIDE DEF copy
<1>3. CASE copy.status = "APPROVED"
  <2> DEFINE copies == [attempt[s].copies EXCEPT ![c] = copy]
  <2>1. copies \in Copies
    BY <1>1, <1>2 DEF Copies
  <2>2. copies[c] = copy /\ \A d \in ExportCards : d # c => copies[d] = attempt[s].copies[d]
    BY <1>1 DEF Copies
  <2>3. attempt' = [attempt EXCEPT ![s] =
                      [@ EXCEPT !.at = "moving", !.next = c, !.copies = copies]]
    BY <1>3 DEF RefreshCard, copy
  <2> HIDE DEF copies
  <2>4. attempt'[s] = [attempt[s] EXCEPT !.at = "moving", !.next = c, !.copies = copies]
    BY <2>3 DEF ExportTypeOK
  <2>5. attempt'[s] \in Attempt /\ attempt'[s].at = "moving" /\ attempt'[s].next = c
        /\ attempt'[s].copies = copies
    BY <1>1, <2>1, <2>4 DEF Attempt
  <2>6. attempt' \in [ExportSessions -> Attempt] /\ OthersKeep(s)
    BY <2>3, <2>4, <2>5 DEF RefreshCard, ExportTypeOK, OthersKeep
  <2>7. QED
    BY <1>2, <1>3, <2>2, <2>5, <2>6
<1>4. CASE copy.status # "APPROVED"
  <2> DEFINE copies == [attempt[s].copies EXCEPT ![c] = NotIn]
  <2>1. copies \in Copies
    BY <1>1 DEF Copies
  <2>2. copies[c] = NotIn /\ \A d \in ExportCards : d # c => copies[d] = attempt[s].copies[d]
    BY <1>1 DEF Copies
  <2>3. attempt' = [attempt EXCEPT ![s] = [@ EXCEPT !.copies = copies]]
    BY <1>4 DEF RefreshCard, copy
  <2> HIDE DEF copies
  <2>4. attempt'[s] = [attempt[s] EXCEPT !.copies = copies]
    BY <2>3 DEF ExportTypeOK
  <2>5. attempt'[s] \in Attempt /\ attempt'[s].at = "marking" /\ attempt'[s].copies = copies
    BY <1>1, <2>1, <2>4 DEF Attempt
  <2>6. attempt' \in [ExportSessions -> Attempt] /\ OthersKeep(s)
    BY <2>3, <2>4, <2>5 DEF RefreshCard, ExportTypeOK, OthersKeep
  <2>7. QED
    BY <2>2, <2>5, <2>6
<1>5. QED
  BY <1>3, <1>4

\* The three ways an attempt ends, and what a new one begins with.
EndsExport(s) == EndExport(s) \/ RaiseExport(s) \/ StopExport(s)

LEMMA EndParts ==
  ASSUME ExportTypeOK, NEW s \in ExportSessions, EndsExport(s)
  PROVE  /\ attempt' \in [ExportSessions -> Attempt]
         /\ attempt'[s].at \in {"queued", "over"} /\ attempt'[s].copies = NoCopies
         /\ attempt[s].at # "none"
         /\ session'[s] = session[s] \/ session'[s] = [session[s] EXCEPT !.status = "FAILED"]
         /\ UNCHANGED <<exportCard, mover, held, filed, newest>> /\ OthersKeep(s)
<1>1. PICK at \in {"queued", "over"}, n \in 0..ExportRetries :
        attempt' = [attempt EXCEPT ![s] = NoAttempt(at, n)]
  <2>1. CASE EndExport(s) \/ StopExport(s)
    <3>1. 0 \in 0..ExportRetries
      BY ExportAssumption
    <3>2. QED
      BY <2>1, <3>1 DEF EndExport, StopExport
  <2>2. CASE RaiseExport(s)
    <3>1. attempt[s].retries \in 0..ExportRetries
      BY AttemptParts
    <3>2. CASE MayTry(attempt[s].retries)
      <4>1. attempt[s].retries + 1 \in 0..ExportRetries
        BY <3>1, <3>2, ExportAssumption DEF MayTry
      <4>2. attempt' = [attempt EXCEPT ![s] = NoAttempt("queued", attempt[s].retries + 1)]
        BY <2>2, <3>2 DEF RaiseExport
      <4>3. QED
        BY <4>1, <4>2
    <3>3. CASE ~MayTry(attempt[s].retries)
      <4>1. 0 \in 0..ExportRetries
        BY ExportAssumption
      <4>2. attempt' = [attempt EXCEPT ![s] = NoAttempt("over", 0)]
        BY <2>2, <3>3 DEF RaiseExport
      <4>3. QED
        BY <4>1, <4>2
    <3>4. QED
      BY <3>2, <3>3
  <2>3. QED
    BY <2>1, <2>2 DEF EndsExport
<1>2. NoAttempt(at, n) \in Attempt /\ NoAttempt(at, n).at = at
      /\ NoAttempt(at, n).copies = NoCopies
  <2>1. NoAttempt(at, n) \in Attempt
    BY AttemptTypes
  <2>2. QED
    BY <2>1 DEF NoAttempt
<1>3. attempt' \in [ExportSessions -> Attempt] /\ attempt'[s] = NoAttempt(at, n)
      /\ \A t \in ExportSessions \ {s} : attempt'[t] = attempt[t]
  BY <1>1, <1>2 DEF ExportTypeOK
<1>4. /\ UNCHANGED <<exportCard, mover, held, filed, newest>>
      /\ UNCHANGED session \/ WithStatus(s, "FAILED")
      /\ attempt[s].at # "none"
  BY DEF EndsExport, EndExport, RaiseExport, StopExport, ExportAt
<1>5. /\ session'[s] = session[s] \/ session'[s] = [session[s] EXCEPT !.status = "FAILED"]
      /\ \A t \in ExportSessions \ {s} : session'[t] = session[t]
  BY <1>4 DEF WithStatus, ExportTypeOK
<1>6. QED
  BY <1>2, <1>3, <1>4, <1>5 DEF OthersKeep

LEMMA MarkParts ==
  ASSUME ExportTypeOK, NEW s \in ExportSessions, MarkDownloaded(s)
  PROVE  /\ attempt' \in [ExportSessions -> Attempt]
         /\ attempt[s].at = "moving" /\ attempt'[s].at = "marking"
         /\ \A d \in ExportCards :
              attempt'[s].copies[d] \in {attempt[s].copies[d], NotIn}
         /\ OthersKeep(s)
<1> DEFINE c == attempt[s].next
           copies == [attempt[s].copies EXCEPT ![c] = NotIn]
<1>1. attempt[s] \in Attempt /\ attempt[s].copies \in Copies
  BY AttemptParts
<1>2. copies \in Copies /\ \A d \in ExportCards : copies[d] \in {attempt[s].copies[d], NotIn}
  BY <1>1 DEF Copies
<1>3. attempt' = [attempt EXCEPT ![s] =
                    [@ EXCEPT !.at = "marking", !.next = None, !.copies = copies]]
  BY DEF MarkDownloaded
<1> HIDE DEF copies, c
<1>4. attempt'[s] = [attempt[s] EXCEPT !.at = "marking", !.next = None, !.copies = copies]
  BY <1>3 DEF ExportTypeOK
<1>5. attempt'[s] \in Attempt /\ attempt'[s].at = "marking" /\ attempt'[s].copies = copies
  BY <1>1, <1>2, <1>4 DEF Attempt
<1>6. attempt' \in [ExportSessions -> Attempt] /\ OthersKeep(s)
  BY <1>3, <1>4, <1>5 DEF MarkDownloaded, ExportTypeOK, OthersKeep
<1>7. QED
  BY <1>2, <1>5, <1>6 DEF MarkDownloaded, ExportAt

LEMMA StoreParts ==
  ASSUME ExportTypeOK, NEW s \in ExportSessions, StoreArtifact(s)
  PROVE  /\ attempt' \in [ExportSessions -> Attempt]
         /\ newest' \in [ExportSessions -> Copies]
         /\ filed' \in [ExportSessions -> SUBSET ExportCards]
         /\ attempt[s].at = "resolved" /\ attempt'[s].at = "marking"
         /\ attempt'[s].copies = attempt[s].copies
         /\ IsDocument(s) => newest'[s] = attempt[s].copies
         /\ filed'[s] = filed[s] \cup In(newest'[s])
         /\ UNCHANGED <<exportCard, mover, held, session>> /\ OthersKeep(s)
<1>1. Stage(s, "marking")
  BY DEF StoreArtifact, Stage
<1>2. PICK file \in Files(session[s].options.type, attempt[s].copies) :
        /\ newest' = [newest EXCEPT ![s] = file]
        /\ filed' = [filed EXCEPT ![s] = @ \cup In(file)]
  BY DEF StoreArtifact
<1>3. /\ file \in Copies /\ In(file) \subseteq ExportCards
      /\ IsDocument(s) => file = attempt[s].copies
  <2>1. attempt[s].copies \in Copies
    BY AttemptParts
  <2>2. CASE session[s].options.type = "zip"
    <3>1. PICK S \in SUBSET In(attempt[s].copies) : file = Only(attempt[s].copies, S)
      BY <1>2, <2>2 DEF Files
    <3>2. file \in Copies
      BY <2>1, <3>1 DEF Only, Copies
    <3>3. QED
      BY <2>2, <3>2 DEF In, IsDocument
  <2>3. CASE session[s].options.type # "zip"
    BY <1>2, <2>1, <2>3 DEF Files, In
  <2>4. QED
    BY <2>2, <2>3
<1>4. /\ newest' \in [ExportSessions -> Copies] /\ newest'[s] = file
      /\ \A t \in ExportSessions \ {s} : newest'[t] = newest[t]
  BY <1>2, <1>3 DEF ExportTypeOK
<1>5. /\ filed' \in [ExportSessions -> SUBSET ExportCards]
      /\ filed'[s] = filed[s] \cup In(file)
      /\ \A t \in ExportSessions \ {s} : filed'[t] = filed[t]
  BY <1>2, <1>3 DEF ExportTypeOK
<1>6. \A t \in ExportSessions \ {s} : attempt'[t] = attempt[t]
  BY <1>1 DEF Stage, ExportTypeOK
<1>7. /\ attempt[s].at = "resolved"
      /\ UNCHANGED <<exportCard, mover, held, session>>
  BY DEF StoreArtifact, ExportAt
<1>8. QED
  BY <1>1, <1>3, <1>4, <1>5, <1>6, <1>7, StageParts DEF OthersKeep

\* The steps that change the status of the session.
LEMMA StatusParts ==
  ASSUME ExportTypeOK, NEW s \in ExportSessions, BeginExport(s) \/ FinishExport(s)
  PROVE  /\ attempt' \in [ExportSessions -> Attempt]
         /\ attempt'[s].copies = attempt[s].copies
         /\ \/ /\ BeginExport(s) /\ attempt'[s].at = "begun"
               /\ session'[s] = [session[s] EXCEPT !.status = "PROCESSING"]
            \/ /\ FinishExport(s) /\ attempt'[s].at = "stored"
               /\ session'[s] = [session[s] EXCEPT !.status = "COMPLETED"]
         /\ attempt[s].at \in {"queued", "marking"}
         /\ UNCHANGED <<exportCard, mover, held, filed, newest>> /\ OthersKeep(s)
<1>1. CASE BeginExport(s)
  <2>1. Stage(s, "begun")
    BY <1>1 DEF BeginExport, Stage
  <2>2. \A t \in ExportSessions \ {s} : attempt'[t] = attempt[t]
    BY <2>1 DEF Stage, ExportTypeOK
  <2>3. /\ session'[s] = [session[s] EXCEPT !.status = "PROCESSING"]
        /\ \A t \in ExportSessions \ {s} : session'[t] = session[t]
    BY <1>1 DEF BeginExport, WithStatus, ExportTypeOK
  <2>4. QED
    BY <1>1, <2>1, <2>2, <2>3, StageParts DEF BeginExport, ExportAt, OthersKeep
<1>2. CASE FinishExport(s)
  <2>1. Stage(s, "stored")
    BY <1>2 DEF FinishExport, Stage
  <2>2. \A t \in ExportSessions \ {s} : attempt'[t] = attempt[t]
    BY <2>1 DEF Stage, ExportTypeOK
  <2>3. /\ session'[s] = [session[s] EXCEPT !.status = "COMPLETED"]
        /\ \A t \in ExportSessions \ {s} : session'[t] = session[t]
    BY <1>2 DEF FinishExport, WithStatus, ExportTypeOK
  <2>4. QED
    BY <1>2, <2>1, <2>2, <2>3, StageParts DEF FinishExport, ExportAt, OthersKeep
<1>3. QED
  BY <1>1, <1>2

(***************************************************************************)
(* Types.                                                                  *)
(***************************************************************************)

\* The steps of the attempt of a session.
AttemptStep(s) ==
  \/ \E options \in ExportScopes : StartExport(s, options)
  \/ BeginExport(s) \/ FinishExport(s) \/ ResolveCards(s) \/ StoreArtifact(s)
  \/ \E c \in ExportCards : RefreshCard(s, c)
  \/ MarkDownloaded(s) \/ EndsExport(s)

\* The steps of other requests.
RequestStep ==
  \/ \E c \in ExportCards : EditExported(c)
  \/ \E r \in ExportRequests :
       SaveExported(r) \/ \E c \in ExportCards : ReadExported(r, c)

LEMMA ExportSteps ==
  ExportNext => \/ RequestStep
                \/ \E s \in ExportSessions : AttemptStep(s)
BY DEF ExportNext, RequestStep, AttemptStep, EndsExport

LEMMA ExportInitType == ExportInit => ExportTypeOK
<1> SUFFICES ASSUME ExportInit PROVE ExportTypeOK
  OBVIOUS
<1>1. 0 \in Document /\ 0 \in 0..ExportRetries
  BY ExportAssumption DEF Document
<1>2. [status |-> "APPROVED", data |-> 0] \in CardRow
  BY <1>1 DEF CardRow, Status, Live
<1>3. [status |-> None, options |-> NoScope] \in
        [status : SessionStatus \cup {None}, options : ExportScope]
  BY DEF NoScope, ExportScope, ExportType
<1>4. NoAttempt("none", 0) \in Attempt /\ NoCopies \in Copies
  BY <1>1, AttemptTypes
<1>5. QED
  BY <1>2, <1>3, <1>4 DEF ExportInit, ExportTypeOK, NoHeld, Held

\* What another request does to the cards.
LEMMA RequestParts ==
  ASSUME ExportTypeOK, RequestStep
  PROVE  /\ ExportTypeOK'
         /\ UNCHANGED <<session, filed, newest, attempt>>
         /\ \A d \in ExportCards : mover'[d] # None =>
              mover'[d] = mover[d] /\ exportCard'[d].status = exportCard[d].status
<1>1. ASSUME NEW c \in ExportCards, EditExported(c)
      PROVE  /\ ExportTypeOK'
             /\ UNCHANGED <<mover, session, filed, newest, attempt>>
             /\ \A d \in ExportCards : exportCard'[d].status = exportCard[d].status
  <2>1. exportCard[c] \in CardRow /\ exportCard \in [ExportCards -> CardRow]
    BY DEF ExportTypeOK
  <2>2. exportCard[c].data + 1 \in Document
    BY <1>1, <2>1, ExportAssumption DEF EditExported, CardRow, Document
  <2>3. exportCard' = [exportCard EXCEPT ![c] = [@ EXCEPT !.data = exportCard[c].data + 1]]
    BY <1>1 DEF EditExported
  <2>4. /\ [exportCard[c] EXCEPT !.data = exportCard[c].data + 1] \in CardRow
        /\ [exportCard[c] EXCEPT !.data = exportCard[c].data + 1].status = exportCard[c].status
    BY <2>1, <2>2 DEF CardRow
  <2>5. /\ exportCard' \in [ExportCards -> CardRow]
        /\ \A d \in ExportCards : exportCard'[d].status = exportCard[d].status
    BY <2>1, <2>3, <2>4
  <2>6. UNCHANGED <<mover, held, session, filed, newest, attempt>>
    BY <1>1 DEF EditExported
  <2>7. QED
    BY <2>5, <2>6 DEF ExportTypeOK
<1>2. ASSUME NEW r \in ExportRequests, NEW c \in ExportCards, ReadExported(r, c)
      PROVE  ExportTypeOK' /\ UNCHANGED <<exportCard, mover, session, filed, newest, attempt>>
  <2>1. [card |-> c, row |-> exportCard[c]] \in Held
    BY DEF ExportTypeOK, Held
  <2>2. QED
    BY <1>2, <2>1 DEF ReadExported, ExportTypeOK
<1>3. ASSUME NEW r \in ExportRequests, SaveExported(r)
      PROVE  /\ ExportTypeOK'
             /\ UNCHANGED <<session, filed, newest, attempt>>
             /\ \A d \in ExportCards : mover'[d] # None =>
                  mover'[d] = mover[d] /\ exportCard'[d].status = exportCard[d].status
  <2> DEFINE c == held[r].card
  <2>1. PICK new \in CardRow :
          /\ exportCard' = [exportCard EXCEPT ![c] = new]
          /\ mover' = IF new.status = exportCard[c].status THEN mover
                      ELSE [mover EXCEPT ![c] = None]
    BY <1>3 DEF SaveExported
  <2>2. held' = [held EXCEPT ![r] = NoHeld] /\ NoHeld \in Held
        /\ UNCHANGED <<session, filed, newest, attempt>>
    BY <1>3 DEF SaveExported, NoHeld, Held
  <2> HIDE DEF c
  <2>3. /\ exportCard' \in [ExportCards -> CardRow]
        /\ mover' \in [ExportCards -> ExportSessions \cup {None}]
        /\ \A d \in ExportCards : mover'[d] # None =>
             mover'[d] = mover[d] /\ exportCard'[d].status = exportCard[d].status
    BY <2>1 DEF ExportTypeOK
  <2>4. QED
    BY <2>2, <2>3 DEF ExportTypeOK
<1>4. QED
  BY <1>1, <1>2, <1>3 DEF RequestStep

LEMMA AttemptStepType ==
  ASSUME ExportTypeOK, NEW s \in ExportSessions, AttemptStep(s)
  PROVE  ExportTypeOK'
<1>0. session[s] \in [status : SessionStatus \cup {None}, options : ExportScope]
  BY DEF ExportTypeOK
<1>1. ASSUME NEW options \in ExportScopes, StartExport(s, options) PROVE ExportTypeOK'
  <2>1. [status |-> "PENDING", options |-> options] \in
          [status : SessionStatus \cup {None}, options : ExportScope]
    BY ExportAssumption DEF SessionStatus
  <2>2. session' \in [ExportSessions ->
                        [status : SessionStatus \cup {None}, options : ExportScope]]
    BY <1>1, <2>1 DEF StartExport, ExportTypeOK
  <2>3. QED
    BY <1>1, <2>2, StartParts DEF StartExport, ExportTypeOK
<1>2. ASSUME NEW status \in SessionStatus, WithStatus(s, status)
      PROVE  session' \in [ExportSessions ->
                            [status : SessionStatus \cup {None}, options : ExportScope]]
  <2>1. session' = [session EXCEPT ![s] = [@ EXCEPT !.status = status]]
    BY <1>2 DEF WithStatus
  <2>2. [session[s] EXCEPT !.status = status] \in
          [status : SessionStatus \cup {None}, options : ExportScope]
    BY <1>0
  <2>3. QED
    BY <2>1, <2>2 DEF ExportTypeOK
<1>3. CASE BeginExport(s) \/ FinishExport(s)
  <2>1. \E status \in SessionStatus : WithStatus(s, status)
    BY <1>3 DEF BeginExport, FinishExport, SessionStatus
  <2>2. QED
    BY <1>2, <1>3, <2>1, StatusParts DEF ExportTypeOK
<1>4. CASE ResolveCards(s)
  BY <1>4, ResolveParts DEF ResolveCards, ExportTypeOK
<1>5. CASE StoreArtifact(s)
  BY <1>5, StoreParts DEF ExportTypeOK
<1>6. ASSUME NEW c \in ExportCards, RefreshCard(s, c) PROVE ExportTypeOK'
  BY <1>6, RefreshParts DEF RefreshCard, ExportTypeOK
<1>7. CASE MarkDownloaded(s)
  <2> DEFINE c == attempt[s].next
             row == [attempt[s].copies[c] EXCEPT !.status = "DOWNLOADED"]
  <2>1. c \in ExportCards => row \in CardRow
    <3>1. ASSUME c \in ExportCards PROVE row \in CardRow
      <4>1. attempt[s].copies[c] \in CardRow \cup {NotIn}
        BY <3>1, AttemptParts DEF Copies
      <4>2. attempt[s].copies[c] \in [status : Status \cup {None}, data : Document]
        BY <4>1, ExportAssumption DEF CardRow, NotIn, Document
      <4>3. "DOWNLOADED" \in Status
        BY DEF Status, Live
      <4>4. QED
        BY <4>2, <4>3 DEF CardRow
    <3>2. QED
      BY <3>1
  <2>2. exportCard' \in [ExportCards -> CardRow]
        /\ mover' \in [ExportCards -> ExportSessions \cup {None}]
    <3>1. CASE UNCHANGED <<exportCard, mover>>
      BY <3>1 DEF ExportTypeOK
    <3>2. CASE /\ exportCard' = [exportCard EXCEPT ![c] = row]
               /\ mover' = [mover EXCEPT ![c] = s]
      <4> HIDE DEF row, c
      <4>1. QED
        BY <2>1, <3>2 DEF ExportTypeOK
    <3>3. QED
      BY <1>7, <3>1, <3>2 DEF MarkDownloaded
  <2>3. QED
    BY <1>7, <2>2, MarkParts DEF MarkDownloaded, ExportTypeOK
<1>8. CASE EndsExport(s)
  <2>1. UNCHANGED session \/ WithStatus(s, "FAILED")
    BY <1>8 DEF EndsExport, EndExport, RaiseExport, StopExport
  <2>2. session' \in [ExportSessions ->
                        [status : SessionStatus \cup {None}, options : ExportScope]]
    BY <1>2, <2>1 DEF ExportTypeOK, SessionStatus
  <2>3. QED
    BY <1>8, <2>2, EndParts DEF ExportTypeOK
<1>9. QED
  BY <1>1, <1>3, <1>4, <1>5, <1>6, <1>7, <1>8 DEF AttemptStep

LEMMA ExportTypeStep == ExportTypeOK /\ [ExportNext]_exportVars => ExportTypeOK'
<1> SUFFICES ASSUME ExportTypeOK, [ExportNext]_exportVars PROVE ExportTypeOK'
  OBVIOUS
<1>1. CASE UNCHANGED exportVars
  BY <1>1 DEF exportVars, ExportTypeOK
<1>2. CASE ExportNext
  BY <1>2, ExportSteps, RequestParts, AttemptStepType
<1>3. QED
  BY <1>1, <1>2

\* The rows, the files and the attempts keep their types.
THEOREM ExportTypeCorrect == ExportSpec => []ExportTypeOK
BY ExportInitType, ExportTypeStep, PTL DEF ExportSpec

(***************************************************************************)
(* The invariant of one session.                                           *)
(***************************************************************************)

\* A session that has not been started has no attempt and has marked nothing.
NotYet(s) ==
  session[s].status = None =>
    attempt[s].at = "none" /\ \A c \in ExportCards : mover[c] # s

\* An export with selected cards holds and marks no others.
IsChosen(options, c) == options.ids # {} => c \in options.ids
Chosen(s) ==
  \A c \in ExportCards :
    mover[c] = s \/ attempt[s].copies[c] # NotIn => IsChosen(session[s].options, c)

\* While it marks, what it holds is in the newest document, with the same data.
HeldFiled(s) ==
  IsDocument(s) /\ attempt[s].at \in {"marking", "moving"} =>
    \A c \in ExportCards : attempt[s].copies[c] # NotIn =>
      newest[s][c] # NotIn /\ attempt[s].copies[c].data = newest[s][c].data
NextHeld(s) ==
  attempt[s].at = "moving" =>
    attempt[s].next \in ExportCards /\ attempt[s].copies[attempt[s].next] # NotIn

NewestFiled(s) == In(newest[s]) \subseteq filed[s]

\* A card whose status it gave still has it.
StillMarked(s) ==
  \A c \in ExportCards : mover[c] = s => exportCard[c].status = "DOWNLOADED"

\* Such a card, marked in this attempt or an earlier one, is selected again and
\* filed again.
StillShown(s) ==
  \A c \in ExportCards :
    mover[c] = s /\ ~ByStatus(session[s].options) /\ IsDocument(s)
    => /\ attempt[s].at = "resolved" => attempt[s].copies[c] # NotIn
       /\ \/ attempt[s].at \in {"marking", "moving", "stored"}
          \/ session[s].status = "COMPLETED"
          => newest[s][c] # NotIn

CompletedOver(s) ==
  session[s].status = "COMPLETED" => attempt[s].at \in {"stored", "queued", "over"}

Sound(s) ==
  /\ NotYet(s) /\ Chosen(s) /\ HeldFiled(s) /\ NextHeld(s)
  /\ NewestFiled(s) /\ StillMarked(s) /\ StillShown(s) /\ CompletedOver(s)

ExportInv ==
  ExportTypeOK /\ MarkedWasFiled /\ \A s \in ExportSessions : Sound(s)

LEMMA ExportInvInit == ExportInit => ExportInv
<1> SUFFICES ASSUME ExportInit PROVE ExportInv
  OBVIOUS
<1>1. ExportTypeOK /\ MarkedWasFiled
  BY ExportInitType DEF ExportInit, MarkedWasFiled
<1>2. ASSUME NEW s \in ExportSessions PROVE Sound(s)
  <2>1. attempt[s].at = "none" /\ attempt[s].copies = NoCopies
    BY DEF ExportInit, NoAttempt
  <2>2. session[s].status = None /\ \A c \in ExportCards : mover[c] # s
    BY ExportAssumption DEF ExportInit
  <2>3. Chosen(s)
    BY <2>1, <2>2 DEF Chosen, NoCopies
  <2>4. NewestFiled(s)
    BY DEF ExportInit, NewestFiled, In, NoCopies
  <2>5. QED
    BY <2>1, <2>2, <2>3, <2>4
       DEF Sound, NotYet, HeldFiled, NextHeld, StillMarked, StillShown, CompletedOver, None
<1>3. QED
  BY <1>1, <1>2 DEF ExportInv

\* What others do to the cards leaves a session sound: no card becomes its own.
LEMMA KeepsSound ==
  ASSUME NEW t \in ExportSessions, Sound(t),
         attempt'[t] = attempt[t], session'[t] = session[t],
         newest'[t] = newest[t], filed'[t] = filed[t],
         \A c \in ExportCards : mover'[c] = t =>
           /\ mover[c] = t
           /\ exportCard'[c].status = exportCard[c].status
  PROVE  Sound(t)'
<1>1. NotYet(t)' /\ Chosen(t)'
  BY DEF Sound, NotYet, Chosen
<1>2. HeldFiled(t)' /\ NextHeld(t)'
  BY DEF Sound, HeldFiled, NextHeld, IsDocument
<1>3. NewestFiled(t)' /\ CompletedOver(t)'
  BY DEF Sound, NewestFiled, CompletedOver, In
<1>4. StillMarked(t)' /\ StillShown(t)'
  BY DEF Sound, StillMarked, StillShown, IsDocument
<1>5. QED
  BY <1>1, <1>2, <1>3, <1>4 DEF Sound

\* The sound session of a step that leaves the cards and the files alone, and
\* whose attempt is new or over.
LEMMA FreshSound ==
  ASSUME ExportTypeOK, NEW s \in ExportSessions, Sound(s),
         attempt'[s].at \in {"queued", "over"}, attempt'[s].copies = NoCopies,
         session'[s].status # None,
         session'[s].status = "COMPLETED" => session[s].status = "COMPLETED",
         session'[s].options = session[s].options \/ \A c \in ExportCards : mover[c] # s,
         UNCHANGED <<exportCard, mover, held, filed, newest>>
  PROVE  Sound(s)'
<1>1. NotYet(s)' /\ HeldFiled(s)' /\ NextHeld(s)' /\ CompletedOver(s)'
  BY DEF NotYet, HeldFiled, NextHeld, CompletedOver, IsDocument
<1>2. \A c \in ExportCards : attempt'[s].copies[c] = NotIn
  BY DEF NoCopies
<1>3. Chosen(s)'
  BY <1>2 DEF Sound, Chosen, IsChosen
<1>4. NewestFiled(s)'
  BY DEF Sound, NewestFiled, In
<1>5. StillMarked(s)' /\ StillShown(s)'
  BY DEF Sound, StillMarked, StillShown, IsDocument
<1>6. QED
  BY <1>1, <1>3, <1>4, <1>5 DEF Sound

(***************************************************************************)
(* The steps of a session.                                                 *)
(***************************************************************************)

LEMMA StartSound ==
  ASSUME ExportTypeOK, NEW s \in ExportSessions, Sound(s),
         NEW options \in ExportScopes, StartExport(s, options)
  PROVE  Sound(s)'
<1>1. /\ session'[s].status = "PENDING" /\ attempt'[s].at = "queued"
      /\ attempt'[s].copies = NoCopies /\ session[s].status = None
  <2>1. session'[s] = [status |-> "PENDING", options |-> options]
    BY StartParts
  <2>2. session'[s].status = "PENDING"
    BY <2>1
  <2>3. QED
    BY <2>2, StartParts
<1>2. \A c \in ExportCards : mover[c] # s
  BY <1>1 DEF Sound, NotYet
<1>3. UNCHANGED <<exportCard, mover, held, filed, newest>>
  BY DEF StartExport
<1>4. QED
  BY <1>1, <1>2, <1>3, FreshSound DEF None

LEMMA EndSound ==
  ASSUME ExportTypeOK, NEW s \in ExportSessions, Sound(s), EndsExport(s)
  PROVE  Sound(s)'
<1>1. session[s] \in [status : SessionStatus \cup {None}, options : ExportScope]
  BY DEF ExportTypeOK
<1>2. session[s].status # None
  BY EndParts DEF Sound, NotYet
<1>3. /\ session'[s].status \in {session[s].status, "FAILED"}
      /\ session'[s].options = session[s].options
  BY <1>1, EndParts
<1>4. QED
  BY <1>2, <1>3, EndParts, FreshSound DEF None

LEMMA StatusSound ==
  ASSUME ExportTypeOK, NEW s \in ExportSessions, Sound(s), BeginExport(s) \/ FinishExport(s)
  PROVE  Sound(s)'
<1>1. session[s] \in [status : SessionStatus \cup {None}, options : ExportScope]
  BY DEF ExportTypeOK
<1>2. CASE BeginExport(s)
  <2>0. ~FinishExport(s) \/ attempt'[s].at = "begun"
    BY <1>2 DEF BeginExport, FinishExport, ExportAt
  <2>1. Stage(s, "begun") /\ attempt[s].at = "queued"
    BY <1>2 DEF BeginExport, Stage, ExportAt
  <2>2. attempt'[s].at = "begun" /\ attempt'[s].copies = attempt[s].copies
    BY <2>1, StageParts
  <2>3. session'[s] = [session[s] EXCEPT !.status = "PROCESSING"]
    BY <1>2 DEF BeginExport, WithStatus, ExportTypeOK
  <2>4. session'[s].status = "PROCESSING" /\ session'[s].options = session[s].options
    BY <1>1, <2>3
  <2>5. UNCHANGED <<exportCard, mover, held, filed, newest>>
    BY <1>2 DEF BeginExport
  <2>6. NotYet(s)' /\ HeldFiled(s)' /\ NextHeld(s)' /\ CompletedOver(s)' /\ StillMarked(s)' /\ StillShown(s)'
    BY <2>2, <2>4, <2>5
       DEF Sound, NotYet, HeldFiled, NextHeld, CompletedOver, StillMarked, StillShown,
           None, IsDocument
  <2>7. Chosen(s)' /\ NewestFiled(s)'
    BY <2>2, <2>4, <2>5 DEF Sound, Chosen, NewestFiled, In
  <2>8. QED
    BY <2>6, <2>7 DEF Sound
<1>3. CASE FinishExport(s)
  <2>1. Stage(s, "stored") /\ attempt[s].at = "marking"
    BY <1>3 DEF FinishExport, Stage, ExportAt
  <2>2. attempt'[s].at = "stored" /\ attempt'[s].copies = attempt[s].copies
    BY <2>1, StageParts
  <2>3. session'[s] = [session[s] EXCEPT !.status = "COMPLETED"]
    BY <1>3 DEF FinishExport, WithStatus, ExportTypeOK
  <2>4. session'[s].status = "COMPLETED" /\ session'[s].options = session[s].options
    BY <1>1, <2>3
  <2>5. UNCHANGED <<exportCard, mover, held, filed, newest>>
    BY <1>3 DEF FinishExport
  <2>6. NotYet(s)' /\ HeldFiled(s)' /\ NextHeld(s)' /\ CompletedOver(s)'
    BY <2>2, <2>4 DEF NotYet, HeldFiled, NextHeld, CompletedOver, None, IsDocument
  <2>7. Chosen(s)' /\ NewestFiled(s)'
    BY <2>2, <2>4, <2>5 DEF Sound, Chosen, NewestFiled, In
  <2>8. StillMarked(s)' /\ StillShown(s)'
    BY <2>1, <2>2, <2>4, <2>5 DEF Sound, StillMarked, StillShown, IsDocument
  <2>9. QED
    BY <2>6, <2>7, <2>8 DEF Sound
<1>4. QED
  BY <1>2, <1>3

LEMMA ResolveSound ==
  ASSUME ExportTypeOK, NEW s \in ExportSessions, Sound(s), ResolveCards(s)
  PROVE  Sound(s)'
<1>1. /\ attempt'[s].at = "resolved" /\ attempt[s].at = "begun"
      /\ UNCHANGED <<exportCard, mover, held, session, filed, newest>>
  BY ResolveParts DEF ResolveCards, ExportAt
<1>2. \A c \in ExportCards :
        attempt'[s].copies[c] = IF Selects(session[s].options, c) THEN exportCard[c] ELSE NotIn
  BY ResolveParts
<1>3. NotYet(s)' /\ HeldFiled(s)' /\ NextHeld(s)'
  BY <1>1 DEF Sound, NotYet, HeldFiled, NextHeld, IsDocument
<1>4. session[s].status # "COMPLETED" /\ CompletedOver(s)' /\ NewestFiled(s)'
  BY <1>1 DEF Sound, CompletedOver, NewestFiled, In
<1>5. Chosen(s)'
  BY <1>1, <1>2 DEF Sound, Chosen, IsChosen, Selects
<1>6. StillMarked(s)'
  BY <1>1 DEF Sound, StillMarked
<1>7. StillShown(s)'
  <2> SUFFICES ASSUME NEW c \in ExportCards, mover[c] = s, ~ByStatus(session[s].options)
               PROVE  attempt'[s].copies[c] # NotIn
    BY <1>1, <1>4 DEF StillShown, IsDocument
  <2>1. IsChosen(session[s].options, c) /\ exportCard[c].status = "DOWNLOADED"
    BY DEF Sound, Chosen, StillMarked
  <2>2. Selects(session[s].options, c)
    BY <2>1 DEF Selects, IsChosen, ByStatus
  <2>3. exportCard[c] # NotIn
    BY <2>1 DEF NotIn, None
  <2>4. QED
    BY <1>2, <2>2, <2>3
<1>8. QED
  BY <1>3, <1>4, <1>5, <1>6, <1>7 DEF Sound

LEMMA StoreSound ==
  ASSUME ExportTypeOK, NEW s \in ExportSessions, Sound(s), StoreArtifact(s)
  PROVE  Sound(s)'
<1>1. /\ attempt'[s].at = "marking" /\ attempt'[s].copies = attempt[s].copies
      /\ attempt[s].at = "resolved"
      /\ IsDocument(s) => newest'[s] = attempt[s].copies
      /\ filed'[s] = filed[s] \cup In(newest'[s])
      /\ UNCHANGED <<exportCard, mover, session>>
  BY StoreParts
<1>2. NotYet(s)' /\ NextHeld(s)' /\ Chosen(s)'
  BY <1>1 DEF Sound, NotYet, NextHeld, Chosen
<1>3. HeldFiled(s)' /\ NewestFiled(s)'
  BY <1>1 DEF HeldFiled, NewestFiled, In, IsDocument
<1>4. CompletedOver(s)' /\ session[s].status # "COMPLETED"
  BY <1>1 DEF Sound, CompletedOver
<1>5. StillMarked(s)' /\ StillShown(s)'
  BY <1>1, <1>4 DEF Sound, StillMarked, StillShown, IsDocument
<1>6. QED
  BY <1>2, <1>3, <1>4, <1>5 DEF Sound

LEMMA RefreshSound ==
  ASSUME ExportTypeOK, NEW s \in ExportSessions, Sound(s),
         NEW c \in ExportCards, RefreshCard(s, c)
  PROVE  Sound(s)'
<1>1. /\ attempt[s].at = "marking" /\ attempt[s].copies[c] # NotIn
      /\ UNCHANGED <<exportCard, mover, held, session, filed, newest>>
  BY DEF RefreshCard, ExportAt, In
<1>2. attempt'[s].at \in {"marking", "moving"}
  BY RefreshParts
<1>3. \A d \in ExportCards : attempt'[s].copies[d] # NotIn =>
        attempt[s].copies[d] # NotIn /\ attempt'[s].copies[d].data = attempt[s].copies[d].data
  BY <1>1, RefreshParts
<1>4. NotYet(s)' /\ Chosen(s)'
  BY <1>1, <1>3 DEF Sound, NotYet, Chosen
<1>5. HeldFiled(s)'
  BY <1>1, <1>2, <1>3 DEF Sound, HeldFiled, IsDocument
<1>6. NextHeld(s)'
  BY RefreshParts DEF NextHeld
<1>7. CompletedOver(s)' /\ NewestFiled(s)'
  BY <1>1 DEF Sound, CompletedOver, NewestFiled, In
<1>8. StillMarked(s)' /\ StillShown(s)'
  BY <1>1, <1>2 DEF Sound, StillMarked, StillShown, IsDocument
<1>9. QED
  BY <1>4, <1>5, <1>6, <1>7, <1>8 DEF Sound

\* What marking a card does to the cards: none, or the next one, which becomes
\* the session's own with the data its file shows.
LEMMA MarkedCard ==
  ASSUME ExportTypeOK, NEW s \in ExportSessions, Sound(s), MarkDownloaded(s)
  PROVE  LET c == attempt[s].next
         IN /\ c \in ExportCards /\ IsChosen(session[s].options, c)
            /\ IsDocument(s) => newest[s][c] # NotIn
            /\ \A d \in ExportCards : d # c =>
                 exportCard'[d] = exportCard[d] /\ mover'[d] = mover[d]
            /\ \/ exportCard'[c] = exportCard[c] /\ mover'[c] = mover[c]
               \/ exportCard'[c].status = "DOWNLOADED" /\ mover'[c] = s
            /\ mover' = mover \/ (IsDocument(s) => exportCard'[c].data = newest[s][c].data)
<1> DEFINE c == attempt[s].next
           row == [attempt[s].copies[c] EXCEPT !.status = "DOWNLOADED"]
<1>1. attempt[s].at = "moving"
  BY DEF MarkDownloaded, ExportAt
<1>2. /\ c \in ExportCards /\ attempt[s].copies[c] # NotIn
      /\ IsChosen(session[s].options, c)
      /\ IsDocument(s) => /\ newest[s][c] # NotIn
                          /\ attempt[s].copies[c].data = newest[s][c].data
  BY <1>1 DEF Sound, NextHeld, HeldFiled, Chosen
<1>3. row.status = "DOWNLOADED" /\ (IsDocument(s) => row.data = newest[s][c].data)
  <2>1. attempt[s].copies[c] \in CardRow
    BY <1>2, AttemptParts DEF Copies
  <2>2. QED
    BY <1>2, <2>1 DEF CardRow
<1>4. \/ UNCHANGED <<exportCard, mover>>
      \/ exportCard' = [exportCard EXCEPT ![c] = row] /\ mover' = [mover EXCEPT ![c] = s]
  BY DEF MarkDownloaded
<1> HIDE DEF c, row
<1>5. QED
  BY <1>2, <1>3, <1>4 DEF ExportTypeOK, c

LEMMA MarkSound ==
  ASSUME ExportTypeOK, NEW s \in ExportSessions, Sound(s), MarkDownloaded(s)
  PROVE  Sound(s)'
<1> DEFINE c == attempt[s].next
<1>1. /\ attempt[s].at = "moving" /\ attempt'[s].at = "marking"
      /\ \A d \in ExportCards : attempt'[s].copies[d] \in {attempt[s].copies[d], NotIn}
      /\ UNCHANGED <<session, filed, newest>>
  BY MarkParts DEF MarkDownloaded
<1>2. /\ IsDocument(s) => newest[s][c] # NotIn
      /\ IsChosen(session[s].options, c)
      /\ \A d \in ExportCards : d # c =>
           exportCard'[d] = exportCard[d] /\ mover'[d] = mover[d]
      /\ \/ exportCard'[c] = exportCard[c] /\ mover'[c] = mover[c]
         \/ exportCard'[c].status = "DOWNLOADED" /\ mover'[c] = s
  BY MarkedCard
<1> HIDE DEF c
<1>3. NotYet(s)' /\ NextHeld(s)'
  BY <1>1 DEF Sound, NotYet, NextHeld
<1>4. Chosen(s)'
  BY <1>1, <1>2 DEF Sound, Chosen
<1>5. HeldFiled(s)'
  BY <1>1 DEF Sound, HeldFiled, IsDocument
<1>6. CompletedOver(s)' /\ NewestFiled(s)'
  BY <1>1 DEF Sound, CompletedOver, NewestFiled, In
<1>7. StillMarked(s)' /\ StillShown(s)'
  BY <1>1, <1>2 DEF Sound, StillMarked, StillShown, IsDocument
<1>8. QED
  BY <1>3, <1>4, <1>5, <1>6, <1>7 DEF Sound

LEMMA AttemptSound ==
  ASSUME ExportTypeOK, NEW s \in ExportSessions, Sound(s), AttemptStep(s)
  PROVE  Sound(s)'
BY StartSound, StatusSound, ResolveSound, StoreSound, RefreshSound, MarkSound, EndSound
   DEF AttemptStep

\* The other sessions, and the cards, while a session takes a step.
LEMMA AttemptFrame ==
  ASSUME ExportTypeOK, NEW s \in ExportSessions, Sound(s), AttemptStep(s)
  PROVE  /\ OthersKeep(s) /\ filed[s] \subseteq filed'[s]
         /\ session'[s].options = session[s].options \/ \A c \in ExportCards : mover[c] # s
         /\ \/ UNCHANGED <<exportCard, mover>>
            \/ /\ MarkDownloaded(s) /\ UNCHANGED filed
               /\ attempt[s].next \in ExportCards
               /\ IsDocument(s) => attempt[s].next \in filed[s]
               /\ \A d \in ExportCards :
                    \/ mover'[d] = mover[d] /\ exportCard'[d] = exportCard[d]
                    \/ d = attempt[s].next /\ mover'[d] = s
<1>0. session[s] \in [status : SessionStatus \cup {None}, options : ExportScope]
  BY DEF ExportTypeOK
<1>1. CASE \E options \in ExportScopes : StartExport(s, options)
  BY <1>1, StartParts DEF StartExport, Sound, NotYet
<1>2. CASE BeginExport(s) \/ FinishExport(s)
  BY <1>0, <1>2, StatusParts
<1>3. CASE ResolveCards(s)
  BY <1>3, ResolveParts DEF ResolveCards
<1>4. CASE StoreArtifact(s)
  BY <1>4, StoreParts
<1>5. CASE \E c \in ExportCards : RefreshCard(s, c)
  BY <1>5, RefreshParts DEF RefreshCard
<1>6. CASE MarkDownloaded(s)
  <2>1. OthersKeep(s) /\ UNCHANGED filed
    BY <1>6, MarkParts DEF MarkDownloaded
  <2>2. IsDocument(s) => attempt[s].next \in In(newest[s])
    BY <1>6, MarkedCard DEF In
  <2>3. IsDocument(s) => attempt[s].next \in filed[s]
    BY <2>2 DEF Sound, NewestFiled
  <2>4. QED
    BY <1>6, <2>1, <2>3, MarkedCard DEF MarkDownloaded
<1>7. CASE EndsExport(s)
  BY <1>0, <1>7, EndParts
<1>8. QED
  BY <1>1, <1>2, <1>3, <1>4, <1>5, <1>6, <1>7 DEF AttemptStep

LEMMA ExportInvStep == ExportInv /\ [ExportNext]_exportVars => ExportInv'
<1> SUFFICES ASSUME ExportInv, [ExportNext]_exportVars PROVE ExportInv'
  OBVIOUS
<1>0. ExportTypeOK /\ ExportTypeOK' /\ \A s \in ExportSessions : Sound(s)
  BY ExportTypeStep DEF ExportInv
<1>1. CASE RequestStep
  <2>1. \A t \in ExportSessions : t # None
    BY ExportAssumption
  <2>2. \A s \in ExportSessions : Sound(s)'
    BY <1>0, <1>1, <2>1, RequestParts, KeepsSound
  <2>3. MarkedWasFiled'
    BY <1>0, <1>1, RequestParts DEF ExportInv, MarkedWasFiled, IsDocument
  <2>4. QED
    BY <1>0, <2>2, <2>3 DEF ExportInv
<1>2. ASSUME NEW s \in ExportSessions, AttemptStep(s) PROVE ExportInv'
  <2>1. Sound(s)'
    BY <1>0, <1>2, AttemptSound
  <2>2. ASSUME NEW t \in ExportSessions, t # s PROVE Sound(t)'
    <3>1. /\ attempt'[t] = attempt[t] /\ session'[t] = session[t]
          /\ newest'[t] = newest[t] /\ filed'[t] = filed[t]
      BY <1>0, <1>2, <2>2, AttemptFrame DEF OthersKeep
    <3>2. \A c \in ExportCards : mover'[c] = t =>
            mover[c] = t /\ exportCard'[c] = exportCard[c]
      BY <1>0, <1>2, <2>2, AttemptFrame
    <3>3. QED
      BY <1>0, <3>1, <3>2, KeepsSound
  <2>3. \A t \in ExportSessions : filed[t] \subseteq filed'[t]
    BY <1>0, <1>2, AttemptFrame DEF OthersKeep
  <2>4. MarkedWasFiled'
    <3> SUFFICES ASSUME NEW c \in ExportCards, mover'[c] # None,
                        session'[mover'[c]].options.type = "document"
                 PROVE  c \in filed'[mover'[c]]
      BY DEF MarkedWasFiled, IsDocument
    <3>1. CASE mover'[c] = mover[c]
      <4>0. mover[c] \in ExportSessions
        BY <1>0, <3>1 DEF ExportTypeOK
      <4>1. IsDocument(mover[c])
        BY <1>0, <1>2, <3>1, <4>0, AttemptFrame DEF OthersKeep, IsDocument
      <4>2. c \in filed[mover[c]]
        BY <3>1, <4>1 DEF ExportInv, MarkedWasFiled
      <4>3. QED
        BY <2>3, <3>1, <4>0, <4>2
    <3>2. CASE c = attempt[s].next /\ mover'[c] = s /\ MarkDownloaded(s)
      <4>1. IsDocument(s)
        BY <3>2 DEF IsDocument, MarkDownloaded
      <4>2. attempt[s].next \in filed[s]
        BY <1>0, <3>2, <4>1, MarkedCard DEF Sound, NewestFiled, In
      <4>3. QED
        BY <2>3, <3>2, <4>2
    <3>3. QED
      BY <1>0, <1>2, <3>1, <3>2, AttemptFrame
  <2>5. QED
    BY <1>0, <2>1, <2>2, <2>4 DEF ExportInv
<1>3. CASE UNCHANGED exportVars
  <2>1. \A s \in ExportSessions : Sound(s)'
    BY <1>0, <1>3, KeepsSound DEF exportVars
  <2>2. MarkedWasFiled'
    BY <1>3 DEF exportVars, ExportInv, MarkedWasFiled, IsDocument
  <2>3. QED
    BY <1>0, <2>1, <2>2 DEF ExportInv
<1>4. QED
  BY <1>1, <1>2, <1>3, ExportSteps

LEMMA ExportInvAlways == ExportSpec => []ExportInv
BY ExportInvInit, ExportInvStep, PTL DEF ExportSpec

(***************************************************************************)
(* The properties.                                                         *)
(***************************************************************************)

\* Whatever fails or dies, and whatever copies others save, a card that has its
\* status from an export to a document is in one of its files.
THEOREM MarkedWasFiledAlways == ExportSpec => []MarkedWasFiled
<1>1. ExportInv => MarkedWasFiled
  BY DEF ExportInv
<1>2. QED
  BY <1>1, ExportInvAlways, PTL

\* The file of a completed export of all or of selected cards to a document has
\* every card that has its status from it, in whichever attempt.
THEOREM CompletedFileHasMarkedAlways == ExportSpec => []CompletedFileHasMarked
<1>1. ExportInv => CompletedFileHasMarked
  <2> SUFFICES ASSUME ExportInv, NEW c \in ExportCards, mover[c] # None,
                      IsDocument(mover[c]), session[mover[c]].status = "COMPLETED",
                      ~ByStatus(session[mover[c]].options)
               PROVE  newest[mover[c]][c] # NotIn
    BY DEF CompletedFileHasMarked
  <2>1. mover[c] \in ExportSessions
    BY DEF ExportInv, ExportTypeOK
  <2>2. StillShown(mover[c])
    BY <2>1 DEF ExportInv, Sound
  <2>3. QED
    BY <2>2 DEF StillMarked, StillShown, IsDocument
<1>2. QED
  BY <1>1, ExportInvAlways, PTL

\* The step that marks a card leaves in it the text the document shows.
THEOREM MarkedAsFiledAlways == ExportSpec => MarkedAsFiled
<1>1. ASSUME ExportInv, [ExportNext]_exportVars, NEW s \in ExportSessions,
             attempt[s].at = "moving", attempt'[s].at = "marking", mover' # mover,
             IsDocument(s)
      PROVE  exportCard'[attempt[s].next].data = newest[s][attempt[s].next].data
  <2>0. ExportTypeOK /\ \A t \in ExportSessions : Sound(t)
    BY <1>1 DEF ExportInv
  <2>1. ~RequestStep
    BY <1>1, <2>0, RequestParts
  <2>2. PICK t \in ExportSessions : AttemptStep(t)
    BY <1>1, <2>1, ExportSteps DEF exportVars
  <2>3. t = s
    BY <1>1, <2>0, <2>2, AttemptFrame DEF OthersKeep
  <2>4. MarkDownloaded(s)
    BY <1>1, <2>0, <2>2, <2>3, AttemptFrame
  <2>5. QED
    BY <1>1, <2>0, <2>4, MarkedCard
<1>2. ExportInv /\ [ExportNext]_exportVars =>
        [\A s \in ExportSessions :
           LET c == attempt[s].next
           IN /\ attempt[s].at = "moving" /\ attempt'[s].at = "marking"
              /\ mover' # mover /\ IsDocument(s)
              => exportCard'[c].data = newest[s][c].data]_exportVars
  BY <1>1
<1>3. QED
  BY <1>2, ExportInvAlways, PTL DEF ExportSpec, MarkedAsFiled
=============================================================================
