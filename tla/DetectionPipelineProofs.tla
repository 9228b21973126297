---------------------- MODULE DetectionPipelineProofs -----------------------
(***************************************************************************)
(* Proofs about DetectionPipeline, for any signals, services, processes,   *)
(* model answers and failures.                                             *)
(***************************************************************************)
EXTENDS DetectionPipeline, TLAPS, FiniteSetTheorems, SequenceTheorems

USE SignalAssumption, ProposalAssumption, PipelineBoundAssumption, ConfidenceAssumption

-----------------------------------------------------------------------------
(* What the policies let through. *)

\* DetectingAgent._validate_evidence keeps what was retrieved, and asks for action
\* only on some of it.
LEMMA VerdictSound ==
  ASSUME NEW type \in Verdicts, NEW claimed, NEW retrieved \in SUBSET Signals,
         NEW v, v = ValidateVerdict([type |-> type, support |-> claimed], retrieved)
  PROVE  /\ v \in VerdictSet
         /\ v.support \subseteq retrieved
         /\ v.type # "NO_ACTION" => v.support # {}
<1> DEFINE verified == claimed \cap retrieved
<1>1. verified \subseteq retrieved /\ verified \in SUBSET Signals OBVIOUS
<1>2. verified = {} => Cardinality(verified) < MinSupport
  BY FS_EmptySet DEF MinSupport
<1>3. \/ v = NoVerdict
      \/ /\ v = [type |-> type, support |-> verified]
         /\ ~(type # "NO_ACTION" /\ Cardinality(verified) < MinSupport)
  BY DEF ValidateVerdict
<1>4. QED BY <1>1, <1>2, <1>3 DEF VerdictSet, NoVerdict, Verdicts

\* A proposal cites only what the detection rests on.
LEMMA ProposalSound ==
  ASSUME NEW p \in Proposals, NEW retrieved \in SUBSET Signals,
         NEW q, q = ValidateProposal(p, retrieved)
  PROVE  q \in Plans /\ q.support \subseteq retrieved
<1>1. p \in [strategy : Strategies, risk : Risks, confidence : 0..100,
            target : BOOLEAN, support : Claims]
  OBVIOUS
<1>2. q = [p EXCEPT !.support = p.support \cap retrieved]
  BY DEF ValidateProposal
<1>3. QED BY <1>1, <1>2 DEF Plans

\* _apply_safety_policy changes the strategy at most to ESCALATE, never the evidence.
LEMMA AuthorizeSound ==
  ASSUME NEW p \in Plans, NEW q, q = Authorize(p)
  PROVE  /\ q \in Plans /\ q.support = p.support
         /\ q.strategy = "CODE_FIX" => q.support \cap Defect # {}
<1> DEFINE e == [p EXCEPT !.strategy = "ESCALATE"]
<1>1. \/ q = [e EXCEPT !.confidence = 0]
      \/ q = e
      \/ q = p /\ ~NoDefect(p)
  BY DEF Authorize
<1>2. "ESCALATE" \in Strategies /\ 0 \in 0..100 BY DEF Strategies
<1>3. e \in Plans /\ e.support = p.support /\ e.strategy = "ESCALATE" BY <1>2 DEF Plans
<1>4. [e EXCEPT !.confidence = 0] \in Plans /\ [e EXCEPT !.confidence = 0].support = p.support
      /\ [e EXCEPT !.confidence = 0].strategy = "ESCALATE"
  BY <1>2, <1>3 DEF Plans
<1>5. QED BY <1>1, <1>3, <1>4 DEF NoDefect

-----------------------------------------------------------------------------
(* Types. *)

LEMMA TypeInit == Init => TypeOK
<1> SUFFICES ASSUME Init PROVE TypeOK OBVIOUS
<1>1. Escalation \in Plans BY DEF Escalation, Plans, Strategies, Risks
<1>2. NoVerdict \in VerdictSet BY DEF NoVerdict, VerdictSet, Verdicts
<1>3. QED BY <1>1, <1>2 DEF Init, TypeOK

\* A handler that ends leaves well-typed locals.
LEMMA DoneTypes ==
  ASSUME TypeOK, NEW s \in Signals, Done(s)
  PROVE  /\ pc' \in [Signals -> {"new", "waiting", "count", "gather", "interpret", "find", "save",
               "review", "create", "diagnose", "unowned", "findplan", "saveplan", "done"}]
         /\ evidence' \in [Signals -> SUBSET Signals]
         /\ verdict' \in [Signals -> VerdictSet]
         /\ subject' \in [Signals -> 0..Len(detections)]
         /\ plan' \in [Signals -> Plans]
<1>1. Escalation \in Plans BY DEF Escalation, Plans, Strategies, Risks
<1>2. NoVerdict \in VerdictSet BY DEF NoVerdict, VerdictSet, Verdicts
<1>3. QED BY <1>1, <1>2 DEF Done, Goto, TypeOK

\* What is persisted, one by one.
LEMMA Elements ==
  ASSUME TypeOK
  PROVE  /\ DOMAIN detections = 1..Len(detections) /\ Len(detections) \in Nat
         /\ DOMAIN reviews = 1..Len(reviews) /\ Len(reviews) \in Nat
         /\ DOMAIN resolutions = 1..Len(resolutions) /\ Len(resolutions) \in Nat
         /\ \A d \in DOMAIN detections :
              /\ detections[d] \in [verdict : VerdictSet, by : Signals]
              /\ detections[d].verdict \in VerdictSet
              /\ detections[d].verdict.support \in SUBSET Signals
              /\ detections[d].by \in Signals
         /\ \A r \in DOMAIN reviews :
              /\ reviews[r].detection \in DOMAIN detections
              /\ reviews[r].by \in Signals
         /\ \A r \in DOMAIN resolutions :
              /\ resolutions[r].detection \in DOMAIN detections
              /\ resolutions[r].plan \in Plans
              /\ resolutions[r].by \in Signals
<1>1. /\ detections \in Seq([verdict : VerdictSet, by : Signals])
      /\ reviews \in Seq([detection : DOMAIN detections, by : Signals])
      /\ resolutions \in Seq([detection : DOMAIN detections, plan : Plans, by : Signals])
  BY DEF TypeOK
<1>2. /\ DOMAIN detections = 1..Len(detections) /\ Len(detections) \in Nat
      /\ DOMAIN reviews = 1..Len(reviews) /\ Len(reviews) \in Nat
      /\ DOMAIN resolutions = 1..Len(resolutions) /\ Len(resolutions) \in Nat
  BY <1>1, LenProperties
<1>3. ASSUME NEW d \in DOMAIN detections
      PROVE  /\ detections[d] \in [verdict : VerdictSet, by : Signals]
             /\ detections[d].verdict \in VerdictSet
             /\ detections[d].verdict.support \in SUBSET Signals
             /\ detections[d].by \in Signals
  <2>1. detections[d] \in [verdict : VerdictSet, by : Signals]
    BY <1>1, <1>2, ElementOfSeq
  <2>2. QED BY <2>1 DEF VerdictSet
<1>4. ASSUME NEW r \in DOMAIN reviews
      PROVE  reviews[r].detection \in DOMAIN detections /\ reviews[r].by \in Signals
  <2>1. reviews[r] \in [detection : DOMAIN detections, by : Signals]
    BY <1>1, <1>2, ElementOfSeq
  <2>2. QED BY <2>1
<1>5. ASSUME NEW r \in DOMAIN resolutions
      PROVE  /\ resolutions[r].detection \in DOMAIN detections
             /\ resolutions[r].plan \in Plans /\ resolutions[r].by \in Signals
  <2>1. resolutions[r] \in [detection : DOMAIN detections, plan : Plans, by : Signals]
    BY <1>1, <1>2, ElementOfSeq
  <2>2. QED BY <2>1
<1>6. QED BY <1>2, <1>3, <1>4, <1>5

\* Appending to the detections leaves what refers to them well typed.
LEMMA AppendTypes ==
  ASSUME TypeOK, NEW d \in [verdict : VerdictSet, by : Signals],
         detections' = Append(detections, d), UNCHANGED <<reviews, resolutions>>
  PROVE  /\ detections' \in Seq([verdict : VerdictSet, by : Signals])
         /\ Len(detections') = Len(detections) + 1
         /\ DOMAIN detections \subseteq DOMAIN detections'
         /\ reviews' \in Seq([detection : DOMAIN detections', by : Signals])
         /\ resolutions' \in Seq([detection : DOMAIN detections', plan : Plans, by : Signals])
<1>1. /\ detections \in Seq([verdict : VerdictSet, by : Signals])
      /\ reviews \in Seq([detection : DOMAIN detections, by : Signals])
      /\ resolutions \in Seq([detection : DOMAIN detections, plan : Plans, by : Signals])
  BY DEF TypeOK
<1> DEFINE grown == Append(detections, d)
<1>2. /\ grown \in Seq([verdict : VerdictSet, by : Signals])
      /\ Len(grown) = Len(detections) + 1
  BY <1>1, AppendProperties
<1> HIDE DEF grown
<1>3. DOMAIN detections \subseteq DOMAIN grown
  <2>1. Len(detections) \in Nat /\ DOMAIN detections = 1..Len(detections)
        /\ DOMAIN grown = 1..Len(grown)
    BY <1>1, <1>2, LenProperties
  <2>2. QED BY <1>2, <2>1
<1>4. [detection : DOMAIN detections, by : Signals] \subseteq [detection : DOMAIN grown, by : Signals]
      /\ [detection : DOMAIN detections, plan : Plans, by : Signals]
           \subseteq [detection : DOMAIN grown, plan : Plans, by : Signals]
  BY <1>3
<1>5. reviews \in Seq([detection : DOMAIN grown, by : Signals])
      /\ resolutions \in Seq([detection : DOMAIN grown, plan : Plans, by : Signals])
  BY <1>1, <1>4, SeqMonotonic
<1>6. detections' = grown /\ reviews' = reviews /\ resolutions' = resolutions BY DEF grown
<1>7. QED BY <1>2, <1>3, <1>5, <1>6

\* What a route asks for.
LEMMA RouteSound ==
  ASSUME NEW v
  PROVE  /\ RouteOf(v) \in {"review", "diagnose", "unowned", "done"}
         /\ RouteOf(v) = "review" => v.type = "FEATURE_OPPORTUNITY"
         /\ RouteOf(v) = "diagnose" => v.type = "INCIDENT" /\ v.support \cap Owned # {}
  BY DEF RouteOf

\* A handler that acts has a detection to act on.
Acting == {"review", "create", "diagnose", "findplan", "saveplan"}
HasSubject(s) == pc[s] \in Acting => subject[s] # 0

\* Every step keeps the types; a review or a resolution needs the subject.
LEMMA TypeStep ==
  TypeOK /\ (\A s \in Signals : HasSubject(s)) /\ [Next]_vars => TypeOK'
<1> SUFFICES ASSUME TypeOK, \A s \in Signals : HasSubject(s), [Next]_vars PROVE TypeOK' OBVIOUS
<1>a. ASSUME NEW s \in Signals, pc[s] \in Acting PROVE subject[s] \in DOMAIN detections
  BY <1>a DEF HasSubject, TypeOK
<1>1. CASE UNCHANGED vars
  BY <1>1 DEF vars, locals, store, TypeOK
<1>2. ASSUME NEW s \in Signals, Persist(s) \/ Enter(s) PROVE TypeOK'
  BY <1>2 DEF Persist, Enter, Goto, locals, store, TypeOK
<1>3. ASSUME NEW s \in Signals, Done(s),
             UNCHANGED <<known, detections>>,
             dropped' \in SUBSET Signals, faults' \in 0..MaxFaults,
             reviews' \in Seq([detection : DOMAIN detections, by : Signals]),
             resolutions' \in Seq([detection : DOMAIN detections, plan : Plans, by : Signals])
      PROVE TypeOK'
  <2>1. detections' = detections /\ known' = known BY <1>3
  <2>2. QED BY <1>3, <2>1, DoneTypes DEF TypeOK
<1>4. ASSUME NEW s \in Signals, NEW label, Goto(s, label),
             label \in {"gather", "save", "create", "saveplan"},
             UNCHANGED <<known, locals, store, dropped, faults>>
      PROVE TypeOK'
  BY <1>4 DEF Goto, locals, store, TypeOK
<1>5. ASSUME NEW s \in Signals, Count(s) \/ FindReview(s) \/ FindPlan(s) PROVE TypeOK'
  <2>1. CASE Done(s)
    BY <1>5, <1>3, <2>1 DEF Count, FindReview, FindPlan, store, TypeOK
  <2>2. CASE ~Done(s)
    BY <1>5, <1>4, <2>2 DEF Count, FindReview, FindPlan
  <2>3. QED BY <2>1, <2>2
<1>6. ASSUME NEW s \in Signals, Unowned(s) \/ Fail(s) PROVE TypeOK'
  <2>1. /\ Done(s) /\ UNCHANGED <<known, store>>
        /\ dropped' \in SUBSET Signals /\ faults' \in 0..MaxFaults
    BY <1>6 DEF Unowned, Fail, TypeOK
  <2>2. QED BY <1>3, <2>1 DEF store, TypeOK
<1>7. ASSUME NEW s \in Signals, Gather(s) PROVE TypeOK'
  <2>1. Related(s) \in SUBSET Signals BY DEF Related, TypeOK
  <2>2. QED BY <1>7, <2>1 DEF Gather, Goto, store, TypeOK
<1>8. ASSUME NEW s \in Signals, Interpret(s) PROVE TypeOK'
  <2>1. PICK type \in Verdicts, claimed \in Claims :
          verdict' = [verdict EXCEPT ![s] =
            ValidateVerdict([type |-> type, support |-> claimed], evidence[s])]
    BY <1>8 DEF Interpret
  <2>2. evidence[s] \in SUBSET Signals BY DEF TypeOK
  <2>3. ValidateVerdict([type |-> type, support |-> claimed], evidence[s]) \in VerdictSet
    BY <2>2, VerdictSound
  <2>4. verdict' \in [Signals -> VerdictSet] BY <2>1, <2>3 DEF TypeOK
  <2>5. QED BY <1>8, <2>4 DEF Interpret, Goto, store, TypeOK
<1>9. ASSUME NEW s \in Signals, Find(s) PROVE TypeOK'
  <2>1. CASE Goto(s, "save") /\ UNCHANGED locals
    BY <1>9, <1>4, <2>1 DEF Find
  <2>2. ASSUME NEW d \in SameVerdict(s), ActOn(s, d, verdict[s]) PROVE TypeOK'
    <3>1. d \in 0..Len(detections) BY DEF SameVerdict, TypeOK
    <3>2. RouteOf(verdict[s]) \in {"review", "diagnose", "unowned", "done"} BY RouteSound
    <3>3. NoVerdict \in VerdictSet BY DEF NoVerdict, VerdictSet, Verdicts
    <3>4. QED BY <1>9, <2>2, <3>1, <3>2, <3>3 DEF Find, ActOn, Goto, store, TypeOK
  <2>3. QED BY <1>9, <2>1, <2>2 DEF Find
<1>10. ASSUME NEW s \in Signals, Save(s) PROVE TypeOK'
  <2> DEFINE d == [verdict |-> verdict[s], by |-> s]
  <2>1. d \in [verdict : VerdictSet, by : Signals] BY DEF TypeOK
  <2>2. detections' = Append(detections, d) /\ UNCHANGED <<known, reviews, resolutions, dropped, faults>>
    BY <1>10 DEF Save
  <2> HIDE DEF d
  <2>3. /\ detections' \in Seq([verdict : VerdictSet, by : Signals])
        /\ Len(detections') = Len(detections) + 1
        /\ reviews' \in Seq([detection : DOMAIN detections', by : Signals])
        /\ resolutions' \in Seq([detection : DOMAIN detections', plan : Plans, by : Signals])
    BY <2>1, <2>2, AppendTypes
  <2>4. RouteOf(verdict[s]) \in {"review", "diagnose", "unowned", "done"} BY RouteSound
  <2>5. NoVerdict \in VerdictSet BY DEF NoVerdict, VerdictSet, Verdicts
  <2>6. ActOn(s, Len(detections) + 1, verdict[s]) BY <1>10 DEF Save
  <2>7. subject' \in [Signals -> 0..Len(detections')]
    BY <2>3, <2>6 DEF ActOn, TypeOK
  <2>8. QED BY <2>2, <2>3, <2>4, <2>5, <2>6, <2>7 DEF ActOn, Goto, TypeOK
<1>11. ASSUME NEW s \in Signals, CreateReview(s) PROVE TypeOK'
  <2>1. [detection |-> subject[s], by |-> s] \in [detection : DOMAIN detections, by : Signals]
    BY <1>11, <1>a DEF CreateReview, Acting
  <2>2. reviews' \in Seq([detection : DOMAIN detections, by : Signals])
    BY <1>11, <2>1, AppendProperties DEF CreateReview, TypeOK
  <2>3. QED BY <1>3, <1>11, <2>2 DEF CreateReview, TypeOK
<1>12. ASSUME NEW s \in Signals, SavePlan(s) PROVE TypeOK'
  <2>1. [detection |-> subject[s], plan |-> plan[s], by |-> s]
          \in [detection : DOMAIN detections, plan : Plans, by : Signals]
    BY <1>12, <1>a DEF SavePlan, Acting, TypeOK
  <2>2. resolutions' \in Seq([detection : DOMAIN detections, plan : Plans, by : Signals])
    BY <1>12, <2>1, AppendProperties DEF SavePlan, TypeOK
  <2>3. QED BY <1>3, <1>12, <2>2 DEF SavePlan, TypeOK
<1>13. ASSUME NEW s \in Signals, Diagnose(s) PROVE TypeOK'
  <2>1. PICK p \in Proposals : plan' = [plan EXCEPT ![s] =
          Authorize(ValidateProposal(p, detections[subject[s]].verdict.support))]
    BY <1>13 DEF Diagnose
  <2>2. detections[subject[s]].verdict.support \in SUBSET Signals
    <3>1. subject[s] \in DOMAIN detections BY <1>13, <1>a DEF Diagnose, Acting
    <3>2. QED BY <3>1, Elements
  <2>3. Authorize(ValidateProposal(p, detections[subject[s]].verdict.support)) \in Plans
    BY <2>2, ProposalSound, AuthorizeSound
  <2>4. plan' \in [Signals -> Plans] BY <2>1, <2>3 DEF TypeOK
  <2>5. QED BY <1>13, <2>4 DEF Diagnose, Goto, store, TypeOK
<1>14. ASSUME NEW p \in {Host[s] : s \in Signals}, Crash(p) PROVE TypeOK'
  <2> DEFINE killed == {s \in Signals : Host[s] = p /\ pc[s] \notin {"new", "done"}}
  <2>1. Escalation \in Plans BY DEF Escalation, Plans, Strategies, Risks
  <2>2. NoVerdict \in VerdictSet BY DEF NoVerdict, VerdictSet, Verdicts
  <2>3. dropped' = dropped \cup killed /\ killed \subseteq Signals BY <1>14 DEF Crash
  <2>4. faults' \in 0..MaxFaults BY <1>14 DEF Crash, TypeOK
  <2>5. QED BY <1>14, <2>1, <2>2, <2>3, <2>4 DEF Crash, store, TypeOK
<1>15. QED
  BY <1>1, <1>2, <1>5, <1>6, <1>7, <1>8, <1>9, <1>10, <1>11, <1>12, <1>13, <1>14
  DEF Next, Handle

-----------------------------------------------------------------------------
(* What a step leaves alone. *)

\* The handler of t is not touched, or has ended.
Untouched(t) ==
  /\ pc'[t] = pc[t] /\ evidence'[t] = evidence[t] /\ verdict'[t] = verdict[t]
  /\ subject'[t] = subject[t] /\ plan'[t] = plan[t]
Over(t) == pc'[t] = "done" /\ evidence'[t] = {} /\ verdict'[t] = NoVerdict

\* What was stored stays.
Kept(before, after) ==
  DOMAIN before \subseteq DOMAIN after /\ \A i \in DOMAIN before : after[i] = before[i]

LEMMA DoneFrame ==
  ASSUME TypeOK, NEW s \in Signals, Done(s)
  PROVE  Over(s) /\ \A t \in Signals \ {s} : Untouched(t)
  BY DEF Done, Goto, Over, Untouched, TypeOK

\* A step is one of one handler, and leaves the others alone, or it only ends some.
LEMMA StepFrame ==
  ASSUME TypeOK, [Next]_vars
  PROVE  \/ (\A t \in Signals : Untouched(t) \/ Over(t)) /\ UNCHANGED <<known, store>>
         \/ \E s \in Signals :
              /\ Persist(s) \/ Handle(s)
              /\ \A t \in Signals \ {s} : Untouched(t)
<1>1. CASE UNCHANGED vars
  BY <1>1 DEF vars, locals, Untouched
<1>2. ASSUME NEW s \in Signals, Persist(s) \/ Enter(s)
      PROVE \A t \in Signals \ {s} : Untouched(t)
  BY <1>2 DEF Persist, Enter, Goto, locals, Untouched, TypeOK
<1>3. ASSUME NEW s \in Signals, Count(s) \/ FindReview(s) \/ FindPlan(s)
      PROVE \A t \in Signals \ {s} : Untouched(t)
  <2>1. CASE Done(s) BY <2>1, DoneFrame
  <2>2. CASE ~Done(s)
    BY <1>3, <2>2 DEF Count, FindReview, FindPlan, Goto, locals, Untouched, TypeOK
  <2>3. QED BY <2>1, <2>2
<1>4. ASSUME NEW s \in Signals, CreateReview(s) \/ SavePlan(s) \/ Unowned(s)
      PROVE \A t \in Signals \ {s} : Untouched(t)
  BY <1>4, DoneFrame DEF CreateReview, SavePlan, Unowned
<1>5. ASSUME NEW s \in Signals, Gather(s) \/ Interpret(s) \/ Diagnose(s)
      PROVE \A t \in Signals \ {s} : Untouched(t)
  BY <1>5 DEF Gather, Interpret, Diagnose, Goto, Untouched, TypeOK
<1>6. ASSUME NEW s \in Signals, Find(s) \/ Save(s)
      PROVE \A t \in Signals \ {s} : Untouched(t)
  BY <1>6 DEF Find, Save, ActOn, Goto, locals, Untouched, TypeOK
<1>7. ASSUME NEW s \in Signals, Fail(s)
      PROVE (\A t \in Signals : Untouched(t) \/ Over(t)) /\ UNCHANGED <<known, store>>
  <2>1. Done(s) /\ UNCHANGED <<known, store>> BY <1>7 DEF Fail
  <2>2. QED BY <2>1, DoneFrame
<1>8. ASSUME NEW p, Crash(p)
      PROVE (\A t \in Signals : Untouched(t) \/ Over(t)) /\ UNCHANGED <<known, store>>
  BY <1>8 DEF Crash, Untouched, Over
<1>9. QED
  BY <1>1, <1>2, <1>3, <1>4, <1>5, <1>6, <1>7, <1>8 DEF Next, Handle

\* Only three steps store something, and a signal once known stays known.
LEMMA StoreStep ==
  ASSUME TypeOK, [Next]_vars
  PROVE  /\ known \subseteq known'
         /\ \/ UNCHANGED store
            \/ \E s \in Signals : Save(s) \/ CreateReview(s) \/ SavePlan(s)
<1>1. CASE UNCHANGED vars BY <1>1 DEF vars
<1>2. ASSUME NEW s \in Signals, Persist(s) \/ Fail(s)
      PROVE known \subseteq known' /\ UNCHANGED store
  BY <1>2 DEF Persist, Fail
<1>3. ASSUME NEW p, Crash(p) PROVE known \subseteq known' /\ UNCHANGED store
  BY <1>3 DEF Crash
<1>4. ASSUME NEW s \in Signals, Enter(s) \/ Count(s) \/ Gather(s) \/ Interpret(s) \/ Find(s)
                 \/ FindReview(s) \/ Diagnose(s) \/ FindPlan(s) \/ Unowned(s)
      PROVE known \subseteq known' /\ UNCHANGED store
  BY <1>4 DEF Enter, Count, Gather, Interpret, Find, FindReview, Diagnose, FindPlan, Unowned
<1>5. ASSUME NEW s \in Signals, Save(s) \/ CreateReview(s) \/ SavePlan(s)
      PROVE known \subseteq known'
  BY <1>5 DEF Save, CreateReview, SavePlan
<1>6. QED BY <1>1, <1>2, <1>3, <1>4, <1>5, Zenon DEF Next, Handle

LEMMA AppendKeeps ==
  ASSUME NEW S, NEW q \in Seq(S), NEW x
  PROVE  /\ Kept(q, Append(q, x))
         /\ DOMAIN Append(q, x) = DOMAIN q \cup {Len(q) + 1}
         /\ Append(q, x)[Len(q) + 1] = x
         /\ Len(q) + 1 \notin DOMAIN q
  BY LenProperties DEF Kept

\* Nothing stored is ever changed or taken away.
LEMMA StoreKept ==
  ASSUME TypeOK, [Next]_vars
  PROVE  Kept(detections, detections') /\ Kept(reviews, reviews') /\ Kept(resolutions, resolutions')
<1>1. CASE UNCHANGED store BY <1>1 DEF store, Kept
<1>2. ASSUME NEW s \in Signals, Save(s) \/ CreateReview(s) \/ SavePlan(s)
      PROVE Kept(detections, detections') /\ Kept(reviews, reviews') /\ Kept(resolutions, resolutions')
  <2>1. /\ detections \in Seq([verdict : VerdictSet, by : Signals])
        /\ reviews \in Seq([detection : DOMAIN detections, by : Signals])
        /\ resolutions \in Seq([detection : DOMAIN detections, plan : Plans, by : Signals])
    BY DEF TypeOK
  <2>2. /\ \A x : Kept(detections, Append(detections, x))
        /\ \A x : Kept(reviews, Append(reviews, x))
        /\ \A x : Kept(resolutions, Append(resolutions, x))
    BY <2>1, AppendKeeps
  <2>3. Kept(detections, detections) /\ Kept(reviews, reviews) /\ Kept(resolutions, resolutions)
    BY DEF Kept
  <2>4. CASE Save(s) BY <2>2, <2>3, <2>4 DEF Save
  <2>5. CASE CreateReview(s) BY <2>2, <2>3, <2>5 DEF CreateReview
  <2>6. CASE SavePlan(s) BY <2>2, <2>3, <2>6 DEF SavePlan
  <2>7. QED BY <1>2, <2>4, <2>5, <2>6
<1>3. QED BY <1>1, <1>2, StoreStep

-----------------------------------------------------------------------------
(* One handler per lock. *)

Alone ==
  \A s, t \in Signals : s # t /\ InScope(s) /\ InScope(t) => Key(s) # Key(t)

\* Whoever is in scope was there before, or has just entered.
LEMMA Entering ==
  ASSUME TypeOK, [Next]_vars, NEW t \in Signals, InScope(t)'
  PROVE  InScope(t) \/ Enter(t)
<1>1. CASE \A u \in Signals : Untouched(u) \/ Over(u)
  BY <1>1 DEF Untouched, Over, InScope
<1>2. ASSUME NEW s \in Signals, Persist(s) \/ Handle(s),
             \A u \in Signals \ {s} : Untouched(u)
      PROVE InScope(t) \/ Enter(t)
  <2>1. CASE s # t BY <1>2, <2>1 DEF Untouched, InScope
  <2>2. CASE s = t
    <3>1. ~Persist(t) BY DEF Persist, Goto, InScope, TypeOK
    <3>2. Handle(t) => InScope(t) \/ Enter(t)
      BY DEF Handle, InScope, Count, Gather, Interpret, Find, Save, FindReview, CreateReview,
             Diagnose, FindPlan, SavePlan, Unowned
    <3>3. QED BY <1>2, <2>2, <3>1, <3>2
  <2>3. QED BY <2>1, <2>2
<1>3. QED BY <1>1, <1>2, StepFrame

LEMMA AloneStep ==
  ASSUME TypeOK, Alone, [Next]_vars
  PROVE  Alone'
<1> SUFFICES ASSUME NEW s \in Signals, NEW t \in Signals, s # t, InScope(s)', InScope(t)'
             PROVE Key(s) # Key(t)
  BY DEF Alone, Key
<1>1. (InScope(s) \/ Enter(s)) /\ (InScope(t) \/ Enter(t)) BY Entering
<1>2. CASE InScope(s) /\ InScope(t) BY <1>2 DEF Alone
<1>3. CASE Enter(s)
  <2>1. ~Enter(t) BY <1>3 DEF Enter, Goto, InScope, TypeOK
  <2>2. QED BY <1>1, <1>3, <2>1 DEF Enter
<1>4. CASE Enter(t)
  <2>1. ~Enter(s) BY <1>4 DEF Enter, Goto, InScope, TypeOK
  <2>2. QED BY <1>1, <1>4, <2>1 DEF Enter
<1>5. QED BY <1>1, <1>2, <1>3, <1>4

-----------------------------------------------------------------------------
(* What a handler knows: its evidence exists and is in its scope, and the   *)
(* detection it acts on is of the kind its branch is for.                   *)

Visible(support, s) ==
  support \subseteq known /\ \A t \in support : Service[s] \in {NoService, Service[t]}
Sound(v, s) ==
  Visible(v.support, s) /\ (v.type # "NO_ACTION" => v.support # {})
Incident(v) == v.type = "INCIDENT" /\ v.support \cap Owned # {}
SoundPlan(p, v) ==
  p.support \subseteq v.support /\ (p.strategy = "CODE_FIX" => p.support \cap Defect # {})

VerdictOf(s) == detections[subject[s]].verdict

Knows(s) ==
  /\ HasSubject(s)
  /\ Visible(evidence[s], s) /\ Sound(verdict[s], s)
  /\ pc[s] \in {"review", "create"} => VerdictOf(s).type = "FEATURE_OPPORTUNITY"
  /\ pc[s] \in {"diagnose", "findplan", "saveplan"} => Incident(VerdictOf(s))
  /\ pc[s] \in {"findplan", "saveplan"} => SoundPlan(plan[s], VerdictOf(s))

\* It keeps knowing it while others move: nothing it relies on is changed.
LEMMA KnowsFrame ==
  ASSUME TypeOK, NEW s \in Signals, Knows(s), Untouched(s),
         known \subseteq known', Kept(detections, detections')
  PROVE  Knows(s)'
<1>1. pc[s] \in Acting => VerdictOf(s)' = VerdictOf(s)
  BY DEF Knows, HasSubject, Untouched, Kept, VerdictOf, TypeOK
<1>2. Visible(evidence[s], s)' /\ Sound(verdict[s], s)'
  BY DEF Knows, Untouched, Visible, Sound
<1>3. QED BY <1>1, <1>2 DEF Knows, HasSubject, Untouched, Acting, Incident, SoundPlan

LEMMA KnowsOver ==
  ASSUME NEW s \in Signals, Over(s) PROVE Knows(s)'
  BY DEF Over, Knows, HasSubject, Acting, Visible, Sound, NoVerdict

\* Acting on a detection that says what the verdict says.
LEMMA KnowsActOn ==
  ASSUME TypeOK, NEW s \in Signals, Knows(s), NEW d \in Nat \ {0}, ActOn(s, d, verdict[s]),
         known' = known, detections'[d].verdict = verdict[s]
  PROVE  Knows(s)'
<1> DEFINE v == verdict[s]
<1>1. /\ pc'[s] = RouteOf(v) /\ verdict'[s] = NoVerdict /\ evidence'[s] = evidence[s]
      /\ RouteOf(v) # "done" => subject'[s] = d
  BY DEF ActOn, Goto, TypeOK
<1>2. /\ RouteOf(v) \in {"review", "diagnose", "unowned", "done"}
      /\ RouteOf(v) = "review" => v.type = "FEATURE_OPPORTUNITY"
      /\ RouteOf(v) = "diagnose" => v.type = "INCIDENT" /\ v.support \cap Owned # {}
  BY RouteSound
<1>3. HasSubject(s)' BY <1>1, <1>2 DEF HasSubject, Acting
<1>4. Visible(evidence[s], s)' BY <1>1 DEF Knows, Visible
<1>5. Sound(verdict[s], s)' BY <1>1 DEF Sound, Visible, NoVerdict
<1>6. QED BY <1>1, <1>2, <1>3, <1>4, <1>5 DEF Knows, VerdictOf, Incident

\* The handler that moves.
LEMMA KnowsStep ==
  ASSUME TypeOK, NEW s \in Signals, Knows(s), Persist(s) \/ Handle(s)
  PROVE  Knows(s)'
<1>1. CASE Persist(s)
  BY <1>1 DEF Persist, Goto, locals, store, Knows, HasSubject, Acting, Visible, Sound, TypeOK
<1>2. CASE Done(s) BY <1>2, DoneFrame, KnowsOver
<1>3. ASSUME NEW label, label \in {"count", "gather", "save", "create", "saveplan"}, Goto(s, label),
             UNCHANGED <<known, locals, store>>,
             label = "create" => pc[s] = "review", label = "saveplan" => pc[s] = "findplan"
      PROVE Knows(s)'
  <2>1. pc'[s] = label BY <1>3 DEF Goto, TypeOK
  <2>2. UNCHANGED <<known, evidence, verdict, subject, plan, detections>>
    BY <1>3 DEF locals, store
  <2>3. Visible(evidence[s], s)' /\ Sound(verdict[s], s)'
    BY <2>2 DEF Knows, Visible, Sound
  <2>4. VerdictOf(s)' = VerdictOf(s) /\ plan'[s] = plan[s] /\ subject'[s] = subject[s]
    BY <2>2 DEF VerdictOf
  <2>5. QED BY <1>3, <2>1, <2>3, <2>4 DEF Knows, HasSubject, Acting, Incident, SoundPlan
<1>4. CASE Enter(s) BY <1>3, <1>4 DEF Enter
<1>5. CASE Count(s) BY <1>2, <1>3, <1>5 DEF Count
<1>6. CASE Gather(s)
  <2>1. PICK retrieved \in {Related(s), {}} :
          /\ evidence' = [evidence EXCEPT ![s] = retrieved]
          /\ Goto(s, IF retrieved = {} THEN "find" ELSE "interpret")
    BY <1>6 DEF Gather
  <2>2. Visible(retrieved, s) BY DEF Related, Visible
  <2>3. evidence'[s] = retrieved /\ pc'[s] \in {"find", "interpret"}
    BY <2>1 DEF Goto, TypeOK
  <2>4. known' = known /\ verdict' = verdict BY <1>6 DEF Gather
  <2>5. Visible(evidence[s], s)' /\ Sound(verdict[s], s)'
    BY <2>2, <2>3, <2>4 DEF Knows, Visible, Sound
  <2>6. QED BY <2>3, <2>5 DEF Knows, HasSubject, Acting
<1>7. CASE Interpret(s)
  <2>1. PICK type \in Verdicts, claimed \in Claims :
          verdict' = [verdict EXCEPT ![s] =
            ValidateVerdict([type |-> type, support |-> claimed], evidence[s])]
    BY <1>7 DEF Interpret
  <2> DEFINE v == ValidateVerdict([type |-> type, support |-> claimed], evidence[s])
  <2>2. evidence[s] \in SUBSET Signals BY DEF TypeOK
  <2>3. v.support \subseteq evidence[s] /\ (v.type # "NO_ACTION" => v.support # {})
    BY <2>2, VerdictSound
  <2>4. verdict'[s] = v BY <2>1 DEF TypeOK
  <2> HIDE DEF v
  <2>5. evidence'[s] = {} /\ pc'[s] = "find" /\ known' = known
    BY <1>7 DEF Interpret, Goto, TypeOK
  <2>6. Visible(evidence[s], s)' /\ Sound(verdict[s], s)'
    BY <2>3, <2>4, <2>5 DEF Knows, Visible, Sound
  <2>7. QED BY <2>5, <2>6 DEF Knows, HasSubject, Acting
<1>8. CASE Find(s)
  <2>1. CASE Goto(s, "save") /\ UNCHANGED locals BY <1>3, <1>8, <2>1 DEF Find
  <2>2. ASSUME NEW d \in SameVerdict(s), ActOn(s, d, verdict[s]) PROVE Knows(s)'
    <3>1. d \in DOMAIN detections /\ FingerprintOf(d) = Fingerprint(verdict[s], s)
      BY DEF SameVerdict
    <3>2. detections[d].verdict = verdict[s] BY <3>1 DEF FingerprintOf, Fingerprint
    <3>3. detections' = detections /\ known' = known BY <1>8 DEF Find, store
    <3>4. d \in Nat \ {0} BY <3>1, Elements
    <3>5. QED BY <2>2, <3>2, <3>3, <3>4, KnowsActOn
  <2>3. QED BY <1>8, <2>1, <2>2 DEF Find
<1>9. CASE Save(s)
  <2>1. detections \in Seq([verdict : VerdictSet, by : Signals]) BY DEF TypeOK
  <2>2. detections'[Len(detections) + 1] = [verdict |-> verdict[s], by |-> s]
    BY <1>9, <2>1, AppendKeeps DEF Save
  <2>3. Len(detections) + 1 \in Nat \ {0} BY Elements
  <2>4. ActOn(s, Len(detections) + 1, verdict[s]) /\ known' = known BY <1>9 DEF Save
  <2>5. QED BY <2>2, <2>3, <2>4, KnowsActOn
<1>10. CASE FindReview(s) BY <1>2, <1>3, <1>10 DEF FindReview
<1>11. CASE CreateReview(s) \/ SavePlan(s) \/ Unowned(s)
  BY <1>2, <1>11 DEF CreateReview, SavePlan, Unowned
<1>12. CASE Diagnose(s)
  <2>1. PICK p \in Proposals : plan' = [plan EXCEPT ![s] =
          Authorize(ValidateProposal(p, detections[subject[s]].verdict.support))]
    BY <1>12 DEF Diagnose
  <2> DEFINE q == ValidateProposal(p, VerdictOf(s).support)
  <2>2. VerdictOf(s).support \in SUBSET Signals
    <3>1. subject[s] \in DOMAIN detections
      BY <1>12 DEF Knows, HasSubject, Acting, Diagnose, TypeOK
    <3>2. QED BY <3>1, Elements DEF VerdictOf
  <2>3. q \in Plans /\ q.support \subseteq VerdictOf(s).support BY <2>2, ProposalSound
  <2>4. Authorize(q).support = q.support
        /\ (Authorize(q).strategy = "CODE_FIX" => Authorize(q).support \cap Defect # {})
    BY <2>3, AuthorizeSound
  <2>5. plan'[s] = Authorize(q) BY <2>1 DEF VerdictOf, TypeOK
  <2> HIDE DEF q
  <2>6. /\ pc[s] = "diagnose" /\ pc'[s] = "findplan"
        /\ UNCHANGED <<known, evidence, verdict, subject, detections>>
    BY <1>12 DEF Diagnose, Goto, store, TypeOK
  <2>7. VerdictOf(s)' = VerdictOf(s) BY <2>6 DEF VerdictOf
  <2>8. SoundPlan(plan[s], VerdictOf(s))'
    BY <2>3, <2>4, <2>5, <2>7 DEF SoundPlan
  <2>9. Visible(evidence[s], s)' /\ Sound(verdict[s], s)'
    BY <2>6 DEF Knows, Visible, Sound
  <2>10. QED BY <2>6, <2>7, <2>8, <2>9 DEF Knows, HasSubject, Acting, Incident
<1>13. CASE FindPlan(s) BY <1>2, <1>3, <1>13 DEF FindPlan
<1>14. QED
  BY <1>1, <1>4, <1>5, <1>6, <1>7, <1>8, <1>9, <1>10, <1>11, <1>12, <1>13 DEF Handle

-----------------------------------------------------------------------------
(* At most one per lock: what a lookup did not find is still not there when *)
(* the handler saves, for only one under the same lock could have saved it. *)

Looked(s) ==
  /\ pc[s] = "save" => \A d \in DOMAIN detections :
       Key(detections[d].by) = Key(s) => FingerprintOf(d) # Fingerprint(verdict[s], s)
  /\ pc[s] = "create" => \A r \in DOMAIN reviews :
       Key(reviews[r].by) = Key(s) => reviews[r].detection # subject[s]
  /\ pc[s] = "saveplan" => \A r \in DOMAIN resolutions :
       Key(resolutions[r].by) = Key(s) => ~SamePlan(s, resolutions[r])

\* What is new in the store is by the handler that moves, which holds its lock.
LEMMA NewIsMine ==
  ASSUME TypeOK, NEW s \in Signals, Save(s) \/ CreateReview(s) \/ SavePlan(s)
  PROVE  /\ InScope(s)
         /\ \A d \in DOMAIN detections' : d \in DOMAIN detections \/ detections'[d].by = s
         /\ \A r \in DOMAIN reviews' : r \in DOMAIN reviews \/ reviews'[r].by = s
         /\ \A r \in DOMAIN resolutions' : r \in DOMAIN resolutions \/ resolutions'[r].by = s
<1>1. /\ detections \in Seq([verdict : VerdictSet, by : Signals])
      /\ reviews \in Seq([detection : DOMAIN detections, by : Signals])
      /\ resolutions \in Seq([detection : DOMAIN detections, plan : Plans, by : Signals])
  BY DEF TypeOK
<1>2. CASE Save(s)
  <2> DEFINE x == [verdict |-> verdict[s], by |-> s]
  <2>1. detections' = Append(detections, x) /\ UNCHANGED <<reviews, resolutions>> /\ pc[s] = "save"
    BY <1>2 DEF Save
  <2>2. x.by = s OBVIOUS
  <2> HIDE DEF x
  <2>3. QED BY <1>1, <2>1, <2>2, AppendKeeps DEF InScope
<1>3. CASE CreateReview(s)
  <2> DEFINE x == [detection |-> subject[s], by |-> s]
  <2>1. reviews' = Append(reviews, x) /\ UNCHANGED <<detections, resolutions>> /\ pc[s] = "create"
    BY <1>3 DEF CreateReview
  <2>2. x.by = s OBVIOUS
  <2> HIDE DEF x
  <2>3. QED BY <1>1, <2>1, <2>2, AppendKeeps DEF InScope
<1>4. CASE SavePlan(s)
  <2> DEFINE x == [detection |-> subject[s], plan |-> plan[s], by |-> s]
  <2>1. resolutions' = Append(resolutions, x) /\ UNCHANGED <<detections, reviews>> /\ pc[s] = "saveplan"
    BY <1>4 DEF SavePlan
  <2>2. x.by = s OBVIOUS
  <2> HIDE DEF x
  <2>3. QED BY <1>1, <2>1, <2>2, AppendKeeps DEF InScope
<1>5. QED BY <1>2, <1>3, <1>4

\* Storing something moves the handler that does it.
LEMMA SaverMoves ==
  ASSUME TypeOK, NEW s \in Signals, Save(s) \/ CreateReview(s) \/ SavePlan(s)
  PROVE  pc'[s] # pc[s]
<1>1. CASE Save(s)
  <2>1. pc'[s] = RouteOf(verdict[s]) /\ pc[s] = "save"
    BY <1>1 DEF Save, ActOn, Goto, TypeOK
  <2>2. QED BY <2>1, RouteSound
<1>2. CASE CreateReview(s) \/ SavePlan(s)
  BY <1>2 DEF CreateReview, SavePlan, Done, Goto, TypeOK
<1>3. QED BY <1>1, <1>2

\* A handler that stands still has still looked.
LEMMA LookedFrame ==
  ASSUME TypeOK, Alone, [Next]_vars, NEW t \in Signals, Looked(t), Untouched(t),
         \A s \in Signals : Save(s) \/ CreateReview(s) \/ SavePlan(s) => s # t
  PROVE  Looked(t)'
<1>1. Kept(detections, detections') /\ Kept(reviews, reviews') /\ Kept(resolutions, resolutions')
  BY StoreKept
<1>2. CASE UNCHANGED store
  BY <1>2 DEF store, Looked, Untouched, FingerprintOf, SamePlan, Key
<1>3. ASSUME NEW s \in Signals, Save(s) \/ CreateReview(s) \/ SavePlan(s), InScope(t)
      PROVE Looked(t)'
  <2>1. s # t BY <1>3
  <2>2. InScope(s) BY <1>3, NewIsMine
  <2>3. Key(s) # Key(t) BY <1>3, <2>1, <2>2 DEF Alone
  <2>4. /\ \A d \in DOMAIN detections' : d \in DOMAIN detections \/ detections'[d].by = s
        /\ \A r \in DOMAIN reviews' : r \in DOMAIN reviews \/ reviews'[r].by = s
        /\ \A r \in DOMAIN resolutions' : r \in DOMAIN resolutions \/ resolutions'[r].by = s
    BY <1>3, NewIsMine
  <2>5. pc[t] = "save" => \A d \in DOMAIN detections' :
          Key(detections'[d].by) = Key(t)
            => Fingerprint(detections'[d].verdict, detections'[d].by) # Fingerprint(verdict[t], t)
    BY <1>1, <2>3, <2>4 DEF Looked, Kept, FingerprintOf
  <2>6. pc[t] = "create" => \A r \in DOMAIN reviews' :
          Key(reviews'[r].by) = Key(t) => reviews'[r].detection # subject[t]
    BY <1>1, <2>3, <2>4 DEF Looked, Kept
  <2>7. pc[t] = "saveplan" => \A r \in DOMAIN resolutions' :
          Key(resolutions'[r].by) = Key(t) => ~SamePlan(t, resolutions'[r])
    BY <1>1, <2>3, <2>4 DEF Looked, Kept
  <2>8. QED BY <2>5, <2>6, <2>7 DEF Looked, Untouched, FingerprintOf, SamePlan, Key
<1>4. CASE ~InScope(t)
  BY <1>4 DEF InScope, Untouched, Looked
<1>5. QED BY <1>2, <1>3, <1>4, StoreStep

LEMMA LookedOver ==
  ASSUME NEW s \in Signals, Over(s) PROVE Looked(s)'
  BY DEF Over, Looked

\* The handler that moves looks before it goes on to save.
LEMMA LookedStep ==
  ASSUME TypeOK, NEW s \in Signals, Persist(s) \/ Handle(s)
  PROVE  Looked(s)'
<1>1. CASE Done(s) BY <1>1, DoneFrame, LookedOver
<1>2. ASSUME pc'[s] \notin {"save", "create", "saveplan"} PROVE Looked(s)' BY <1>2 DEF Looked
<1>3. CASE Persist(s) \/ Enter(s) \/ Gather(s) \/ Interpret(s) \/ Diagnose(s)
  BY <1>2, <1>3 DEF Persist, Enter, Gather, Interpret, Diagnose, Goto, TypeOK
<1>4. CASE Save(s)
  <2>1. pc'[s] = RouteOf(verdict[s]) BY <1>4 DEF Save, ActOn, Goto, TypeOK
  <2>2. QED BY <1>2, <2>1, RouteSound
<1>5. CASE Count(s) BY <1>1, <1>2, <1>5 DEF Count, Goto, TypeOK
<1>6. CASE Find(s)
  <2>1. CASE SameVerdict(s) = {} /\ Goto(s, "save") /\ UNCHANGED locals
    <3>1. pc'[s] = "save" /\ verdict' = verdict /\ detections' = detections
      BY <1>6, <2>1 DEF Find, Goto, locals, store, TypeOK
    <3>2. \A d \in DOMAIN detections : FingerprintOf(d) # Fingerprint(verdict[s], s)
      BY <2>1 DEF SameVerdict
    <3>3. QED BY <3>1, <3>2 DEF Looked, FingerprintOf
  <2>2. ASSUME NEW d \in SameVerdict(s), ActOn(s, d, verdict[s]) PROVE Looked(s)'
    <3>1. pc'[s] = RouteOf(verdict[s]) BY <2>2 DEF ActOn, Goto, TypeOK
    <3>2. QED BY <1>2, <3>1, RouteSound
  <2>3. QED BY <1>6, <2>1, <2>2 DEF Find
<1>7. CASE FindReview(s) /\ ~Done(s)
  <2>1. /\ pc'[s] = "create" /\ subject' = subject /\ reviews' = reviews
        /\ \A r \in DOMAIN reviews : reviews[r].detection # subject[s]
    BY <1>7 DEF FindReview, Goto, locals, store, TypeOK
  <2>2. QED BY <2>1 DEF Looked
<1>8. CASE FindPlan(s) /\ ~Done(s)
  <2>1. /\ pc'[s] = "saveplan" /\ subject' = subject /\ plan' = plan /\ resolutions' = resolutions
        /\ \A r \in DOMAIN resolutions : ~SamePlan(s, resolutions[r])
    BY <1>8 DEF FindPlan, Goto, locals, store, TypeOK
  <2>2. QED BY <2>1 DEF Looked, SamePlan
<1>9. CASE CreateReview(s) \/ SavePlan(s) \/ Unowned(s)
  BY <1>1, <1>9 DEF CreateReview, SavePlan, Unowned
<1>10. QED
  BY <1>1, <1>3, <1>4, <1>5, <1>6, <1>7, <1>8, <1>9 DEF Handle

\* A new entry differs from all older ones of its lock; the older ones stay.
LEMMA OnePerScopeStep ==
  ASSUME TypeOK, OnePerScope, \A s \in Signals : Looked(s), [Next]_vars
  PROVE  OnePerScope'
<1>1. /\ detections \in Seq([verdict : VerdictSet, by : Signals])
      /\ reviews \in Seq([detection : DOMAIN detections, by : Signals])
      /\ resolutions \in Seq([detection : DOMAIN detections, plan : Plans, by : Signals])
  BY DEF TypeOK
<1>2. CASE UNCHANGED store
  BY <1>2 DEF store, OnePerScope, SameLock, FingerprintOf, Key
<1>3. ASSUME NEW s \in Signals, Save(s) PROVE OnePerScope'
  <2> DEFINE x == [verdict |-> verdict[s], by |-> s]  n == Len(detections) + 1
  <2>1. detections' = Append(detections, x) /\ UNCHANGED <<reviews, resolutions>> /\ pc[s] = "save"
    BY <1>3 DEF Save
  <2>2. x.by = s /\ x.verdict = verdict[s] OBVIOUS
  <2> HIDE DEF x, n
  <2>3. /\ DOMAIN detections' = DOMAIN detections \cup {n} /\ detections'[n] = x
        /\ \A d \in DOMAIN detections : detections'[d] = detections[d]
    BY <1>1, <2>1, AppendKeeps DEF Kept, n
  <2>4. \A d \in DOMAIN detections :
          Key(detections[d].by) = Key(s) => FingerprintOf(d) # Fingerprint(verdict[s], s)
    BY <2>1 DEF Looked
  <2>5. \A i, j \in DOMAIN detections' :
          i # j /\ Key(detections'[i].by) = Key(detections'[j].by)
            => Fingerprint(detections'[i].verdict, detections'[i].by)
                 # Fingerprint(detections'[j].verdict, detections'[j].by)
    BY <2>2, <2>3, <2>4 DEF OnePerScope, SameLock, FingerprintOf
  <2>6. QED BY <2>1, <2>5 DEF OnePerScope, SameLock, FingerprintOf, Key
<1>4. ASSUME NEW s \in Signals, CreateReview(s) PROVE OnePerScope'
  <2> DEFINE x == [detection |-> subject[s], by |-> s]  n == Len(reviews) + 1
  <2>1. reviews' = Append(reviews, x) /\ UNCHANGED <<detections, resolutions>> /\ pc[s] = "create"
    BY <1>4 DEF CreateReview
  <2>2. x.by = s /\ x.detection = subject[s] OBVIOUS
  <2> HIDE DEF x, n
  <2>3. /\ DOMAIN reviews' = DOMAIN reviews \cup {n} /\ reviews'[n] = x
        /\ \A r \in DOMAIN reviews : reviews'[r] = reviews[r]
    BY <1>1, <2>1, AppendKeeps DEF Kept, n
  <2>4. \A r \in DOMAIN reviews : Key(reviews[r].by) = Key(s) => reviews[r].detection # subject[s]
    BY <2>1 DEF Looked
  <2>5. \A i, j \in DOMAIN reviews' :
          i # j /\ Key(reviews'[i].by) = Key(reviews'[j].by)
            => reviews'[i].detection # reviews'[j].detection
    BY <2>2, <2>3, <2>4 DEF OnePerScope, SameLock
  <2>6. QED BY <2>1, <2>5 DEF OnePerScope, SameLock, FingerprintOf, Key
<1>5. ASSUME NEW s \in Signals, SavePlan(s) PROVE OnePerScope'
  <2> DEFINE x == [detection |-> subject[s], plan |-> plan[s], by |-> s]
             n == Len(resolutions) + 1
  <2>1. resolutions' = Append(resolutions, x) /\ UNCHANGED <<detections, reviews>> /\ pc[s] = "saveplan"
    BY <1>5 DEF SavePlan
  <2>2. x.by = s /\ x.detection = subject[s] /\ x.plan = plan[s] OBVIOUS
  <2> HIDE DEF x, n
  <2>3. /\ DOMAIN resolutions' = DOMAIN resolutions \cup {n} /\ resolutions'[n] = x
        /\ \A r \in DOMAIN resolutions : resolutions'[r] = resolutions[r]
    BY <1>1, <2>1, AppendKeeps DEF Kept, n
  <2>4. \A r \in DOMAIN resolutions :
          Key(resolutions[r].by) = Key(s)
            => \/ resolutions[r].detection # subject[s]
               \/ resolutions[r].plan.strategy # plan[s].strategy
    BY <2>1 DEF Looked, SamePlan
  <2>5. \A i, j \in DOMAIN resolutions' :
          i # j /\ Key(resolutions'[i].by) = Key(resolutions'[j].by)
            => \/ resolutions'[i].detection # resolutions'[j].detection
               \/ resolutions'[i].plan.strategy # resolutions'[j].plan.strategy
    BY <2>2, <2>3, <2>4 DEF OnePerScope, SameLock
  <2>6. QED BY <2>1, <2>5 DEF OnePerScope, SameLock, FingerprintOf, Key
<1>6. QED BY <1>2, <1>3, <1>4, <1>5, StoreStep

-----------------------------------------------------------------------------
(* What is stored rests on what was retrieved. *)

Backed(x, signals) ==
  /\ x.verdict.support \subseteq signals
  /\ x.verdict.type # "NO_ACTION" => x.verdict.support # {}
  /\ \A t \in x.verdict.support : Service[x.by] \in {NoService, Service[t]}
GroundedResolution(x, all) ==
  Incident(all[x.detection].verdict) /\ SoundPlan(x.plan, all[x.detection].verdict)

LEMMA GroundedParts ==
  Grounded <=> /\ \A d \in DOMAIN detections : Backed(detections[d], known)
               /\ \A r \in DOMAIN reviews :
                    detections[reviews[r].detection].verdict.type = "FEATURE_OPPORTUNITY"
               /\ \A r \in DOMAIN resolutions : GroundedResolution(resolutions[r], detections)
  BY DEF Grounded, Backed, GroundedResolution, Sound, Visible, Incident, SoundPlan

LEMMA GroundedStep ==
  ASSUME TypeOK, Grounded, \A s \in Signals : Knows(s), [Next]_vars
  PROVE  Grounded'
<1>1. /\ detections \in Seq([verdict : VerdictSet, by : Signals])
      /\ reviews \in Seq([detection : DOMAIN detections, by : Signals])
      /\ resolutions \in Seq([detection : DOMAIN detections, plan : Plans, by : Signals])
  BY DEF TypeOK
<1>2. known \subseteq known' BY StoreStep
<1>3. Kept(detections, detections') BY StoreKept
<1>4. /\ \A r \in DOMAIN reviews : reviews[r].detection \in DOMAIN detections
      /\ \A r \in DOMAIN resolutions : resolutions[r].detection \in DOMAIN detections
  BY Elements
<1>5. /\ \A d \in DOMAIN detections : Backed(detections[d], known)
      /\ \A r \in DOMAIN reviews :
           detections[reviews[r].detection].verdict.type = "FEATURE_OPPORTUNITY"
      /\ \A r \in DOMAIN resolutions : GroundedResolution(resolutions[r], detections)
  BY GroundedParts
<1>6. /\ \A d \in DOMAIN detections : Backed(detections[d], known')
      /\ \A r \in DOMAIN reviews :
           detections'[reviews[r].detection].verdict.type = "FEATURE_OPPORTUNITY"
      /\ \A r \in DOMAIN resolutions :
           GroundedResolution(resolutions[r], detections')
  BY <1>2, <1>3, <1>4, <1>5 DEF Kept, GroundedResolution, Backed
<1> DEFINE AllGrounded ==
      /\ \A d \in DOMAIN detections' : Backed(detections'[d], known')
      /\ \A r \in DOMAIN reviews' :
           detections'[reviews'[r].detection].verdict.type = "FEATURE_OPPORTUNITY"
      /\ \A r \in DOMAIN resolutions' :
           GroundedResolution(resolutions'[r], detections')
<1>7. AllGrounded
  <2>1. CASE UNCHANGED store BY <1>6, <2>1 DEF store
  <2>2. ASSUME NEW s \in Signals, Save(s) PROVE AllGrounded
    <3> DEFINE x == [verdict |-> verdict[s], by |-> s]  n == Len(detections) + 1
    <3>1. detections' = Append(detections, x) /\ UNCHANGED <<known, reviews, resolutions>>
      BY <2>2 DEF Save
    <3>2. x.by = s /\ x.verdict = verdict[s] OBVIOUS
    <3> HIDE DEF x, n
    <3>3. /\ DOMAIN detections' = DOMAIN detections \cup {n} /\ detections'[n] = x
          /\ \A d \in DOMAIN detections : detections'[d] = detections[d]
      BY <1>1, <3>1, AppendKeeps DEF Kept, n
    <3>4. Sound(verdict[s], s) BY DEF Knows
    <3>5. Backed(x, known')
      BY <1>2, <3>2, <3>4 DEF Backed, Sound, Visible
    <3>6. QED BY <1>6, <3>1, <3>3, <3>5
  <2>3. ASSUME NEW s \in Signals, CreateReview(s) PROVE AllGrounded
    <3> DEFINE x == [detection |-> subject[s], by |-> s]  n == Len(reviews) + 1
    <3>1. reviews' = Append(reviews, x) /\ UNCHANGED <<known, detections, resolutions>>
          /\ pc[s] = "create"
      BY <2>3 DEF CreateReview
    <3>2. x.by = s /\ x.detection = subject[s] OBVIOUS
    <3> HIDE DEF x, n
    <3>3. /\ DOMAIN reviews' = DOMAIN reviews \cup {n} /\ reviews'[n] = x
          /\ \A r \in DOMAIN reviews : reviews'[r] = reviews[r]
      BY <1>1, <3>1, AppendKeeps DEF Kept, n
    <3>4. detections'[x.detection].verdict.type = "FEATURE_OPPORTUNITY"
      BY <3>1, <3>2 DEF Knows, VerdictOf
    <3>5. QED BY <1>6, <3>1, <3>3, <3>4
  <2>4. ASSUME NEW s \in Signals, SavePlan(s) PROVE AllGrounded
    <3> DEFINE x == [detection |-> subject[s], plan |-> plan[s], by |-> s]
               n == Len(resolutions) + 1
    <3>1. resolutions' = Append(resolutions, x) /\ UNCHANGED <<known, detections, reviews>>
          /\ pc[s] = "saveplan"
      BY <2>4 DEF SavePlan
    <3>2. x.detection = subject[s] /\ x.plan = plan[s] OBVIOUS
    <3> HIDE DEF x, n
    <3>3. /\ DOMAIN resolutions' = DOMAIN resolutions \cup {n} /\ resolutions'[n] = x
          /\ \A r \in DOMAIN resolutions : resolutions'[r] = resolutions[r]
      BY <1>1, <3>1, AppendKeeps DEF Kept, n
    <3>4. Incident(detections'[x.detection].verdict)
          /\ SoundPlan(x.plan, detections'[x.detection].verdict)
      BY <3>1, <3>2 DEF Knows, VerdictOf
    <3>5. GroundedResolution(x, detections') BY <3>4 DEF GroundedResolution
    <3>6. QED BY <1>6, <3>1, <3>3, <3>5
  <2>5. QED BY <2>1, <2>2, <2>3, <2>4, StoreStep
<1>8. QED BY <1>7 DEF Grounded, Backed, GroundedResolution, Incident, SoundPlan

-----------------------------------------------------------------------------
(* The inductive invariant. *)

PipelineInv ==
  /\ TypeOK /\ Alone /\ OnePerScope /\ Grounded
  /\ \A s \in Signals : Knows(s) /\ Looked(s)

LEMMA PipelineInit == Init => PipelineInv
<1> SUFFICES ASSUME Init PROVE PipelineInv OBVIOUS
<1>1. TypeOK BY TypeInit
<1>2. Alone BY DEF Init, Alone, InScope
<1>3. OnePerScope /\ Grounded BY DEF Init, OnePerScope, Grounded
<1>4. \A s \in Signals : Knows(s) /\ Looked(s)
  BY DEF Init, Knows, Looked, HasSubject, Acting, Visible, Sound, NoVerdict
<1>5. QED BY <1>1, <1>2, <1>3, <1>4 DEF PipelineInv

LEMMA PipelineStep == PipelineInv /\ [Next]_vars => PipelineInv'
<1> SUFFICES ASSUME PipelineInv, [Next]_vars PROVE PipelineInv' OBVIOUS
<1>1. /\ TypeOK /\ Alone /\ OnePerScope /\ Grounded
      /\ \A s \in Signals : Knows(s) /\ Looked(s) /\ HasSubject(s)
  BY DEF PipelineInv, Knows
<1>2. TypeOK' /\ Alone' /\ OnePerScope' /\ Grounded'
  BY <1>1, TypeStep, AloneStep, OnePerScopeStep, GroundedStep
<1>3. known \subseteq known' /\ Kept(detections, detections') BY <1>1, StoreStep, StoreKept
<1>4. \A s \in Signals : Knows(s)' /\ Looked(s)'
  <2>1. CASE (\A t \in Signals : Untouched(t) \/ Over(t)) /\ UNCHANGED <<known, store>>
    <3>1. ASSUME NEW s \in Signals, Untouched(s) PROVE Knows(s)' /\ Looked(s)'
      <4>1. Looked(s)' BY <1>1, <2>1, <3>1 DEF store, Looked, Untouched, FingerprintOf, SamePlan, Key
      <4>2. QED BY <1>1, <1>3, <3>1, <4>1, KnowsFrame
    <3>2. QED BY <2>1, <3>1, KnowsOver, LookedOver
  <2>2. ASSUME NEW s \in Signals, Persist(s) \/ Handle(s), \A t \in Signals \ {s} : Untouched(t)
        PROVE \A t \in Signals : Knows(t)' /\ Looked(t)'
    <3>1. Knows(s)' /\ Looked(s)' BY <1>1, <2>2, KnowsStep, LookedStep
    <3>2. ASSUME NEW t \in Signals \ {s} PROVE Knows(t)' /\ Looked(t)'
      <4>1. Knows(t)' BY <1>1, <1>3, <2>2, KnowsFrame
      <4>2. ASSUME NEW u \in Signals, Save(u) \/ CreateReview(u) \/ SavePlan(u) PROVE u # t
        BY <1>1, <2>2, <3>2, <4>2, SaverMoves DEF Untouched
      <4>3. QED BY <1>1, <2>2, <4>1, <4>2, LookedFrame
    <3>3. QED BY <3>1, <3>2
  <2>3. QED BY <1>1, <2>1, <2>2, StepFrame
<1>5. QED BY <1>2, <1>4 DEF PipelineInv

LEMMA PipelineInvariant == Spec => []PipelineInv
  BY PipelineInit, PipelineStep, PTL DEF Spec

\* Detections, reviews, resolutions and the locals of every handler keep their types:
\* a late or failed step leaves no record of an unknown kind.
THEOREM TypeCorrect == Spec => []TypeOK
  BY PipelineInvariant, PTL DEF PipelineInv

\* At most one detection of a fingerprint, one review of a detection and one
\* resolution of a detection and strategy per scope and process, whatever fails
\* and however handlers interleave: each lookup still holds at its save because
\* the lock is held from one to the other.
THEOREM AtMostOnePerScope == Spec => []OnePerScope
  BY PipelineInvariant, PTL DEF PipelineInv

\* Whatever the models claim, what is stored rests on persisted signals in scope,
\* and acts only on a verdict of its kind.
THEOREM OnlyOnEvidence == Spec => []Grounded
  BY PipelineInvariant, PTL DEF PipelineInv
=============================================================================
