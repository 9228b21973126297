-------------------------- MODULE MonitoringProofs ---------------------------
(***************************************************************************)
(* Proofs about Monitoring, for any runs, notifications, answers of the    *)
(* clients and faults. The invariant is about one run at a time: a step of *)
(* another run, or of the worker, only adds to the store, and what it adds *)
(* is not this run's.                                                      *)
(***************************************************************************)
EXTENDS Monitoring, TLAPS

USE MonitoringBounds

-----------------------------------------------------------------------------
(* The invariant. *)

\* Where the run is fits what it collects.
Placed(r) ==
  /\ pc[r] = "off" <=> stage[r] = "none"
  /\ pc[r] = "check" <=> stage[r] = "input"
  /\ pc[r] \in {"look", "save"} => stage[r] \in Metrics \cup {"logs"}
  /\ stage[r] = "report" => pc[r] = "query"

\* What the run reports is stored, and has the fingerprint of an answer.
Evidenced(r) ==
  /\ report[r] \subseteq store
  /\ \A x \in report[r] : \E signal \in answered[r] : x.signal.fingerprint = signal.fingerprint

\* Nothing that was answered is dropped: it is stored, to be looked up, or being saved.
Accounted(r) ==
  Running(r) =>
    /\ \A signal \in answered[r] :
         Stored(signal) # {} \/ signal \in todo[r] \/ (pc[r] = "save" /\ item[r] = signal)
    /\ pc[r] = "query" => todo[r] = {}

\* What the run stored it reports, unless it was lost between the two.
Owned(r) == r \in lost \/ \A x \in store : x.by = r => x \in report[r]

\* A run begins once and ends once.
Lived(r) ==
  /\ execution[r] = "none" =>
       ~Running(r) /\ ~Over(r) /\ answered[r] = {} /\ report[r] = {} /\ todo[r] = {}
  /\ execution[r] # "none" /\ stage[r] = "input" =>
       answered[r] = {} /\ report[r] = {} /\ todo[r] = {}
  /\ Running(r) => execution[r] = "RUNNING" /\ ~Over(r)
  /\ Over(r) => execution[r] = "COMPLETED"
  /\ r \in lost => ~Running(r) /\ ~Over(r) /\ execution[r] # "none"

Honest(r) ==
  /\ status[r] = "complete" =>
       errors[r] = {} /\ \A signal \in answered[r] : Stored(signal) # {}
  /\ status[r] = "partial" => errors[r] # {}
  /\ status[r] = "failed" => errors[r] # {} /\ report[r] = {}

RunInv(r) ==
  Placed(r) /\ Evidenced(r) /\ Accounted(r) /\ Owned(r) /\ Lived(r) /\ Honest(r)

MonitoringInv == TypeOK /\ \A r \in Runs : RunInv(r)

-----------------------------------------------------------------------------
(* Types. *)

LEMMA InitTyped == Init => TypeOK
  BY DEF Init, TypeOK

\* The stage after one that collects something is one of the stages.
LEMMA AfterIn ==
  ASSUME NEW r \in Runs, NEW s \in Metrics \cup {"logs"}
  PROVE  After(r, s) \in {"latency_p99", "availability", "logs", "report"}
  BY DEF After, Metrics

LEMMA FailedStageIn ==
  ASSUME NEW r \in Runs
  PROVE  FailedStage(r) \in {"logs", "report"}
  BY DEF FailedStage, After

LEMMA RunTyped ==
  ASSUME TypeOK, NEW r \in Runs, RunInv(r),
         Begin(r) \/ Step(r) \/ QueryFails(r) \/ Escape(r)
  PROVE  TypeOK'
<1> USE DEF TypeOK, progress, product, outcome, Goto
<1>1. CASE Begin(r) BY <1>1 DEF Begin
<1>2. CASE Refuse(r) BY <1>2 DEF Refuse
<1>3. CASE Accept(r) BY <1>3 DEF Accept, Metrics
<1>4. CASE QueryMetric(r)
  <2> DEFINE Answered(answer) == {Metric(n) : n \in answer}
  <2>1. PICK answer \in MetricAnswers(r) :
          /\ observed' = [observed EXCEPT ![r] = @ \cup (IF answer = {} THEN {} ELSE {stage[r]})]
          /\ todo' = [todo EXCEPT ![r] = Answered(answer)]
          /\ answered' = [answered EXCEPT ![r] = @ \cup Answered(answer)]
    BY <1>4 DEF QueryMetric
  <2> HIDE DEF Answered
  <2>2. QED BY <1>4, <2>1 DEF QueryMetric
<1>5. CASE QueryLogs(r) BY <1>5 DEF QueryLogs
<1>6. CASE Look(r) BY <1>6 DEF Look
<1>7. CASE Save(r) BY <1>7 DEF Save
<1>8. CASE EndStage(r)
  <2>1. stage[r] \in Metrics \cup {"logs"} BY <1>8 DEF EndStage, RunInv, Placed
  <2>2. After(r, stage[r]) \in {"latency_p99", "availability", "logs", "report"}
    BY <2>1, AfterIn
  <2>3. QED BY <1>8, <2>2 DEF EndStage, Metrics
<1>9. CASE Report(r) BY <1>9 DEF Report, CollectionStatus
<1>10. CASE QueryFails(r)
  <2>1. FailedStage(r) \in {"logs", "report"} BY FailedStageIn
  <2>2. Source(stage[r]) \in {"cloud_monitoring", "cloud_logging"} BY DEF Source
  <2>3. QED BY <1>10, <2>1, <2>2 DEF QueryFails, Fault
<1>11. CASE Escape(r) BY <1>11 DEF Escape, Fault
<1>12. QED
  BY <1>1, <1>2, <1>3, <1>4, <1>5, <1>6, <1>7, <1>8, <1>9, <1>10, <1>11 DEF Step

LEMMA OtherTyped ==
  ASSUME TypeOK, Tick \/ \E n \in Notifications : Receive(n) \/ Ingest(n)
  PROVE  TypeOK'
<1> USE DEF TypeOK, progress, product, outcome
<1>1. CASE Tick BY <1>1 DEF Tick
<1>2. ASSUME NEW n \in Notifications, Receive(n) PROVE TypeOK' BY <1>2 DEF Receive
<1>3. ASSUME NEW n \in Notifications, Ingest(n) PROVE TypeOK' BY <1>3 DEF Ingest
<1>4. QED BY <1>1, <1>2, <1>3

-----------------------------------------------------------------------------
(* What the others do to a run. *)

\* The run itself is untouched, and what is new in the store is not its own.
Untouched(r) ==
  /\ stage'[r] = stage[r] /\ pc'[r] = pc[r] /\ todo'[r] = todo[r] /\ item'[r] = item[r]
  /\ answered'[r] = answered[r] /\ report'[r] = report[r] /\ errors'[r] = errors[r]
  /\ execution'[r] = execution[r] /\ status'[r] = status[r]
  /\ r \in lost' <=> r \in lost
  /\ store \subseteq store'
  /\ \A x \in store' : x \in store \/ x.by # r

LEMMA StoredGrows ==
  ASSUME store \subseteq store', NEW signal, Stored(signal) # {}
  PROVE  Stored(signal)' # {}
  BY DEF Stored

LEMMA Frame ==
  ASSUME NEW r \in Runs, RunInv(r), Untouched(r)
  PROVE  RunInv(r)'
<1> USE DEF RunInv, Untouched
<1>1. Placed(r)' BY DEF Placed
<1>2. Evidenced(r)' BY DEF Evidenced
<1>3. Accounted(r)' BY StoredGrows DEF Accounted, Running
<1>4. Owned(r)' BY DEF Owned
<1>5. Lived(r)' BY DEF Lived, Running, Over
<1>6. Honest(r)' BY StoredGrows DEF Honest
<1>7. QED BY <1>1, <1>2, <1>3, <1>4, <1>5, <1>6

LEMMA StepFrame ==
  ASSUME TypeOK, NEW r \in Runs, NEW s \in Runs, r # s,
         Begin(r) \/ Step(r) \/ QueryFails(r) \/ Escape(r)
  PROVE  Untouched(s)
<1> USE DEF TypeOK, progress, product, outcome, Goto, Untouched
<1>1. CASE Begin(r) BY <1>1 DEF Begin
<1>2. CASE Refuse(r) BY <1>2 DEF Refuse
<1>3. CASE Accept(r) BY <1>3 DEF Accept
<1>4. CASE QueryMetric(r) BY <1>4 DEF QueryMetric
<1>5. CASE QueryLogs(r) BY <1>5 DEF QueryLogs
<1>6. CASE Look(r) BY <1>6 DEF Look
<1>7. CASE Save(r) BY <1>7 DEF Save
<1>8. CASE EndStage(r) BY <1>8 DEF EndStage
<1>9. CASE Report(r) BY <1>9 DEF Report
<1>10. CASE QueryFails(r) BY <1>10 DEF QueryFails
<1>11. CASE Escape(r) BY <1>11 DEF Escape
<1>12. QED
  BY <1>1, <1>2, <1>3, <1>4, <1>5, <1>6, <1>7, <1>8, <1>9, <1>10, <1>11 DEF Step

\* What the worker saves is nobody's run.
LEMMA OtherFrame ==
  ASSUME TypeOK, NEW r \in Runs, Tick \/ \E n \in Notifications : Receive(n) \/ Ingest(n)
  PROVE  Untouched(r)
<1>1. ASSUME NEW n \in Notifications, Ingest(n) PROVE Untouched(r)
  BY <1>1, NamesAssumption DEF Ingest, Untouched, progress, product, outcome
<1>2. QED BY <1>1 DEF Tick, Receive, Untouched, progress, product, outcome

-----------------------------------------------------------------------------
(* What a step does to its own run. *)

\* The steps that add nothing to what was answered, stored or reported.
LEMMA BeginStep ==
  ASSUME TypeOK, NEW r \in Runs, RunInv(r), Begin(r)
  PROVE  RunInv(r)'
<1> USE DEF TypeOK, Begin, product, Goto, RunInv
<1>1. Placed(r)' BY DEF Placed, Metrics
<1>2. Evidenced(r)' BY DEF Evidenced
<1>3. Accounted(r)' BY DEF Accounted, Running, Lived
<1>4. Owned(r)' BY DEF Owned
<1>5. Lived(r)' BY DEF Lived, Running, Over
<1>6. Honest(r)' BY DEF Honest, Stored
<1>7. QED BY <1>1, <1>2, <1>3, <1>4, <1>5, <1>6

LEMMA RefuseStep ==
  ASSUME TypeOK, NEW r \in Runs, RunInv(r), Refuse(r)
  PROVE  RunInv(r)'
<1> USE DEF TypeOK, Refuse, product, Goto, RunInv
<1>1. Placed(r)' BY DEF Placed, Metrics
<1>2. Evidenced(r)' BY DEF Evidenced
<1>3. Accounted(r)' BY DEF Accounted, Running
<1>4. Owned(r)' BY DEF Owned
<1>5. Lived(r)' BY DEF Lived, Running, Over
<1>6. Honest(r)' BY DEF Honest, Stored
<1>7. QED BY <1>1, <1>2, <1>3, <1>4, <1>5, <1>6

LEMMA AcceptStep ==
  ASSUME TypeOK, NEW r \in Runs, RunInv(r), Accept(r)
  PROVE  RunInv(r)'
<1> USE DEF TypeOK, Accept, product, outcome, Goto, RunInv
<1>1. Placed(r)' BY DEF Placed, Metrics
<1>2. Evidenced(r)' BY DEF Evidenced
<1>3. Accounted(r)'
  <2>1. answered[r] = {} /\ todo[r] = {} BY DEF Lived, Running
  <2>2. QED BY <2>1 DEF Accounted
<1>4. Owned(r)' BY DEF Owned
<1>5. Lived(r)' BY DEF Lived, Running, Over
<1>6. Honest(r)' BY DEF Honest, Stored
<1>7. QED BY <1>1, <1>2, <1>3, <1>4, <1>5, <1>6

\* What is answered is to be looked up, whatever it is.
Asks(r, answer) ==
  /\ pc[r] = "query" /\ stage[r] \in Metrics \cup {"logs"}
  /\ todo' = [todo EXCEPT ![r] = answer]
  /\ answered' = [answered EXCEPT ![r] = @ \cup answer]
  /\ Goto(r, stage[r], "look")
  /\ UNCHANGED <<store, item, report, errors, outcome>>

LEMMA QueryStep ==
  ASSUME TypeOK, NEW r \in Runs, RunInv(r), NEW answer, Asks(r, answer)
  PROVE  RunInv(r)'
<1> USE DEF TypeOK, Asks, outcome, Goto, RunInv
<1>0. Running(r) /\ stage[r] # "input" BY DEF Running, Metrics
<1>1. Placed(r)' BY DEF Placed, Metrics
<1>2. Evidenced(r)' BY DEF Evidenced
<1>3. Accounted(r)' BY <1>0 DEF Accounted, Stored, Running
<1>4. Owned(r)' BY DEF Owned
<1>5. Lived(r)' BY <1>0 DEF Lived, Running, Over
<1>6. Honest(r)' BY <1>0 DEF Honest, Lived, Over
<1>7. QED BY <1>1, <1>2, <1>3, <1>4, <1>5, <1>6

LEMMA QueriesAsk ==
  ASSUME NEW r \in Runs, QueryMetric(r) \/ QueryLogs(r)
  PROVE  \E answer : Asks(r, answer)
  BY DEF QueryMetric, QueryLogs, Asks, outcome

LEMMA LookStep ==
  ASSUME TypeOK, NEW r \in Runs, RunInv(r), Look(r)
  PROVE  RunInv(r)'
<1> USE DEF TypeOK, outcome, RunInv
<1>1. PICK signal \in todo[r] :
        /\ todo' = [todo EXCEPT ![r] = @ \ {signal}]
        /\ \/ \E x \in Stored(signal) :
                report' = [report EXCEPT ![r] = @ \cup {x}] /\ UNCHANGED <<item, pc>>
           \/ /\ Stored(signal) = {}
              /\ item' = [item EXCEPT ![r] = signal] /\ pc' = [pc EXCEPT ![r] = "save"]
              /\ UNCHANGED report
  BY DEF Look
<1>2. /\ signal \in answered[r] /\ pc[r] = "look" /\ stage[r] \in Metrics \cup {"logs"}
      /\ UNCHANGED <<store, stage, answered, errors, execution, status, lost>>
  BY <1>1 DEF Look, Placed
<1>3. Running(r) BY <1>2 DEF Running, Metrics
<1>4. CASE \E x \in Stored(signal) :
             report' = [report EXCEPT ![r] = @ \cup {x}] /\ UNCHANGED <<item, pc>>
  <2>1. PICK x \in Stored(signal) :
          report' = [report EXCEPT ![r] = @ \cup {x}] /\ UNCHANGED <<item, pc>>
    BY <1>4
  <2>2. x \in store /\ x.signal.fingerprint = signal.fingerprint BY <2>1 DEF Stored
  <2>3. Placed(r)' BY <1>2, <2>1 DEF Placed
  <2>4. Evidenced(r)' BY <1>2, <2>1, <2>2 DEF Evidenced
  <2>5. Accounted(r)' BY <1>1, <1>2, <1>3, <2>1 DEF Accounted, Running, Stored
  <2>6. Owned(r)' BY <1>2, <2>1 DEF Owned
  <2>7. Lived(r)' BY <1>1, <1>2, <1>3, <2>1 DEF Lived, Running, Over, Metrics
  <2>8. Honest(r)' BY <1>2, <1>3, <2>1 DEF Honest, Lived, Over
  <2>9. QED BY <2>3, <2>4, <2>5, <2>6, <2>7, <2>8
<1>5. CASE /\ item' = [item EXCEPT ![r] = signal] /\ pc' = [pc EXCEPT ![r] = "save"]
           /\ UNCHANGED report
  <2>1. Placed(r)' BY <1>2, <1>5 DEF Placed, Metrics
  <2>2. Evidenced(r)' BY <1>2, <1>5 DEF Evidenced
  <2>3. Accounted(r)' BY <1>1, <1>2, <1>3, <1>5 DEF Accounted, Running, Stored
  <2>4. Owned(r)' BY <1>2, <1>5 DEF Owned
  <2>5. Lived(r)' BY <1>1, <1>2, <1>3, <1>5 DEF Lived, Running, Over, Metrics
  <2>6. Honest(r)' BY <1>2, <1>3, <1>5 DEF Honest, Lived, Over
  <2>7. QED BY <2>1, <2>2, <2>3, <2>4, <2>5, <2>6
<1>6. QED BY <1>1, <1>4, <1>5

LEMMA SaveStep ==
  ASSUME TypeOK, NEW r \in Runs, RunInv(r), Save(r)
  PROVE  RunInv(r)'
<1> DEFINE x == [signal |-> item[r], by |-> r]
<1> USE DEF TypeOK, outcome, Goto, RunInv
<1>1. /\ store' = store \cup {x} /\ report' = [report EXCEPT ![r] = @ \cup {x}]
      /\ item' = [item EXCEPT ![r] = Nothing]
      /\ pc[r] = "save" /\ pc' = [pc EXCEPT ![r] = "look"] /\ stage'[r] = stage[r]
      /\ UNCHANGED <<todo, answered, errors, execution, status, lost>>
  BY DEF Save
<1>2. x.signal = item[r] /\ item[r] \in answered[r] BY <1>1
<1>3. stage[r] \in Metrics \cup {"logs"} /\ Running(r) BY <1>1 DEF Placed, Running, Metrics
<1> HIDE DEF x
<1>4. Placed(r)' BY <1>1, <1>3 DEF Placed, Metrics
<1>5. Evidenced(r)' BY <1>1, <1>2 DEF Evidenced
<1>6. Accounted(r)'
  <2>1. ASSUME NEW signal, signal = item[r] PROVE Stored(signal)' # {}
    BY <1>1, <1>2, <2>1 DEF Stored
  <2>2. ASSUME NEW signal \in answered[r] PROVE Stored(signal)' # {} \/ signal \in todo[r]
    <3>1. store \subseteq store' BY <1>1
    <3>2. Stored(signal) # {} \/ signal \in todo[r] \/ signal = item[r]
      BY <1>1, <1>3 DEF Accounted
    <3>3. QED BY <2>1, <3>1, <3>2, StoredGrows
  <2>3. QED BY <1>1, <2>2 DEF Accounted
<1>7. Owned(r)' BY <1>1 DEF Owned
<1>8. Lived(r)' BY <1>1, <1>3 DEF Lived, Running, Over, Metrics
<1>9. Honest(r)' BY <1>1, <1>3 DEF Honest, Lived, Over
<1>10. QED BY <1>4, <1>5, <1>6, <1>7, <1>8, <1>9

LEMMA EndStageStep ==
  ASSUME TypeOK, NEW r \in Runs, RunInv(r), EndStage(r)
  PROVE  RunInv(r)'
<1> USE DEF TypeOK, EndStage, product, outcome, Goto, RunInv
<1>1. stage[r] \in Metrics \cup {"logs"} /\ Running(r) BY DEF Placed, Running, Metrics
<1>2. stage'[r] \in {"latency_p99", "availability", "logs", "report"} BY <1>1, AfterIn
<1>3. Placed(r)' BY <1>2 DEF Placed, Metrics
<1>4. Evidenced(r)' BY DEF Evidenced
<1>5. Accounted(r)' BY <1>1 DEF Accounted, Stored
<1>6. Owned(r)' BY DEF Owned
<1>7. Lived(r)' BY <1>1, <1>2 DEF Lived, Running, Over, Metrics
<1>8. Honest(r)' BY <1>1 DEF Honest, Lived, Over
<1>9. QED BY <1>3, <1>4, <1>5, <1>6, <1>7, <1>8

\* Queries fail before anything is to be looked up: what was answered is stored.
LEMMA QueryFailsStep ==
  ASSUME TypeOK, NEW r \in Runs, RunInv(r), QueryFails(r)
  PROVE  RunInv(r)'
<1> USE DEF TypeOK, QueryFails, outcome, Goto, RunInv
<1>1. Running(r) /\ stage[r] # "input" BY DEF Placed, Running
<1>2. stage'[r] \in {"logs", "report"} BY FailedStageIn
<1>3. Placed(r)' BY <1>2 DEF Placed, Metrics
<1>4. Evidenced(r)' BY DEF Evidenced
<1>5. Accounted(r)' BY <1>1 DEF Accounted, Stored
<1>6. Owned(r)' BY DEF Owned
<1>7. Lived(r)' BY <1>1, <1>2 DEF Lived, Running, Over
<1>8. Honest(r)' BY <1>1 DEF Honest, Lived, Over
<1>9. QED BY <1>3, <1>4, <1>5, <1>6, <1>7, <1>8

\* The report comes when nothing is pending any more.
LEMMA ReportStep ==
  ASSUME TypeOK, NEW r \in Runs, RunInv(r), Report(r)
  PROVE  RunInv(r)'
<1> USE DEF TypeOK, Report, product, Goto, RunInv
<1>1. Running(r) /\ pc[r] = "query" /\ todo[r] = {} BY DEF Running, Placed, Accounted
<1>2. \A signal \in answered[r] : Stored(signal) # {} BY <1>1 DEF Accounted
<1>3. Placed(r)' BY DEF Placed, Metrics
<1>4. Evidenced(r)' BY DEF Evidenced
<1>5. Accounted(r)' BY DEF Accounted, Running
<1>6. Owned(r)' BY DEF Owned
<1>7. Lived(r)' BY <1>1 DEF Lived, Running, Over
<1>8. Honest(r)' BY <1>2 DEF Honest, CollectionStatus, Stored
<1>9. QED BY <1>3, <1>4, <1>5, <1>6, <1>7, <1>8

LEMMA EscapeStep ==
  ASSUME TypeOK, NEW r \in Runs, RunInv(r), Escape(r)
  PROVE  RunInv(r)'
<1> USE DEF TypeOK, Escape, product, Goto, RunInv
<1>1. Running(r) BY DEF Running
<1>2. store \subseteq store' OBVIOUS
<1>3. Placed(r)' BY DEF Placed, Metrics
<1>4. Evidenced(r)' BY <1>2 DEF Evidenced
<1>5. Accounted(r)' BY DEF Accounted, Running
<1>6. Owned(r)' BY DEF Owned
<1>7. Lived(r)' BY <1>1 DEF Lived, Running, Over
<1>8. Honest(r)' BY <1>1 DEF Honest, Lived, Over
<1>9. QED BY <1>3, <1>4, <1>5, <1>6, <1>7, <1>8

-----------------------------------------------------------------------------
(* The invariant is one. *)

LEMMA InitInv == Init => MonitoringInv
<1> SUFFICES ASSUME Init PROVE MonitoringInv OBVIOUS
<1>1. ASSUME NEW r \in Runs PROVE RunInv(r)
  BY DEF Init, RunInv, Placed, Evidenced, Accounted, Owned, Lived, Honest, Running, Over,
         Metrics
<1>2. QED BY <1>1, InitTyped DEF MonitoringInv

LEMMA NextInv == MonitoringInv /\ [Next]_vars => MonitoringInv'
<1> SUFFICES ASSUME MonitoringInv, [Next]_vars PROVE MonitoringInv' OBVIOUS
<1> USE DEF MonitoringInv
<1>1. ASSUME NEW r \in Runs, Begin(r) \/ Step(r) \/ QueryFails(r) \/ Escape(r)
      PROVE  MonitoringInv'
  <2>1. RunInv(r)'
    <3>1. CASE QueryMetric(r) \/ QueryLogs(r) BY <3>1, QueriesAsk, QueryStep
    <3>2. QED
      BY <1>1, <3>1, BeginStep, RefuseStep, AcceptStep, LookStep, SaveStep, EndStageStep,
         ReportStep, QueryFailsStep, EscapeStep DEF Step
  <2>2. ASSUME NEW s \in Runs, s # r PROVE RunInv(s)'
    <3>1. Untouched(s) BY <1>1, <2>2, StepFrame
    <3>2. QED BY <3>1, Frame
  <2>3. QED BY <1>1, <2>1, <2>2, RunTyped
<1>2. CASE Tick \/ \E n \in Notifications : Receive(n) \/ Ingest(n)
  <2>1. ASSUME NEW r \in Runs PROVE RunInv(r)'
    <3>1. Untouched(r) BY <1>2, OtherFrame
    <3>2. QED BY <3>1, Frame
  <2>2. QED BY <1>2, <2>1, OtherTyped
<1>3. CASE UNCHANGED vars
  <2>1. ASSUME NEW r \in Runs PROVE RunInv(r)'
    <3>1. Untouched(r) BY <1>3 DEF vars, progress, product, outcome, Untouched
    <3>2. QED BY <3>1, Frame
  <2>2. TypeOK' BY <1>3 DEF TypeOK, vars, progress, product, outcome
  <2>3. QED BY <2>1, <2>2
<1>4. QED BY <1>1, <1>2, <1>3 DEF Next

LEMMA MonitoringInvariant == Spec => []MonitoringInv
  BY InitInv, NextInv, PTL DEF Spec

-----------------------------------------------------------------------------
(* The theorems. *)

\* Every variable keeps its type: the runs of the agent and the worker's tasks never
\* leave the states the module names.
THEOREM TypeCorrect == Spec => []TypeOK
<1>1. MonitoringInv => TypeOK BY DEF MonitoringInv
<1>2. QED BY <1>1, MonitoringInvariant, PTL

\* Whatever a run reports is persisted and was answered by one of its queries, whoever
\* saved it: the agent makes nothing up, however its looks and saves and those of
\* other runs and of the worker interleave.
THEOREM ReportsRestOnEvidence == Spec => []ReportIsEvidence
<1>1. MonitoringInv => ReportIsEvidence
  BY DEF MonitoringInv, RunInv, Evidenced, ReportIsEvidence
<1>2. QED BY <1>1, MonitoringInvariant, PTL

\* The status that a report carries is true of the sources and of the store, then and
\* later: complete leaves nothing out, partial and failed name a source that failed,
\* and failed leaves nothing of the run behind.
THEOREM StatusTellsTheTruth == Spec => []StatusIsHonest
<1>1. MonitoringInv => StatusIsHonest
  BY DEF MonitoringInv, RunInv, Honest, Owned, Lived, Over, StatusIsHonest
<1>2. QED BY <1>1, MonitoringInvariant, PTL
=============================================================================
