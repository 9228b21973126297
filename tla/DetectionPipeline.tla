------------------------- MODULE DetectionPipeline --------------------------
(***************************************************************************)
(* From a persisted signal to a review or a resolution. Each signal, once  *)
(* saved, is handled by the worker process that ingested it: count what is *)
(* related, let the detecting agent interpret the evidence, find or save   *)
(* the detection by its fingerprint, and act on it. Nothing runs a handler *)
(* again that failed.                                                      *)
(*                                                                         *)
(* A handler holds the lock of its process for its scope all the way. The  *)
(* scopes of a service and of signals without a service overlap: a query   *)
(* without a service sees the signals of all. One domain and environment   *)
(* is modelled; the others only give more keys. The subject the model      *)
(* names is part of the fingerprint too; here a model names the same one   *)
(* for the same evidence.                                                  *)
(*                                                                         *)
(* Source: app/detection/, app/agents/detecting.py,                        *)
(* app/agents/incident_resolution.py, create_review in                     *)
(* app/feature_review/service.py.                                          *)
(***************************************************************************)
EXTENDS EvidencePolicy, Sequences

CONSTANTS
  Signals,
  NoService,       \* of a signal that names none
  Service,         \* Service[s]
  Host,            \* Host[s]: the process that ingests s
  Owned,           \* signals whose deployment artifact belongs to a workflow
  MinRelated,      \* min_related_signals of the domain
  Claims,          \* sets of signal ids a model may claim, real or not
  Proposals,       \* what the model may propose as a remediation
  MaxFaults        \* bound: failures and crashes

ASSUME SignalAssumption ==
  /\ IsFiniteSet(Signals) /\ Owned \subseteq Signals /\ Defect \subseteq Signals
  /\ Service \in [Signals -> {NoService} \cup {Service[s] : s \in Signals}]
ASSUME ProposalAssumption ==   \* the output schema of the model
  Proposals \subseteq [strategy : Strategies, risk : Risks, confidence : 0..100,
                       target : BOOLEAN, support : Claims]
ASSUME PipelineBoundAssumption == MinRelated \in Nat /\ MaxFaults \in Nat

VARIABLES
  known,         \* the persisted signals
  pc,            \* pc[s]: where the handler of s is
  evidence,      \* evidence[s]: what its agent retrieved
  verdict,       \* verdict[s]: the validated answer of the model
  subject,       \* subject[s]: the detection it acts on, 0: none yet
  plan,          \* plan[s]: the authorised remediation
  detections, reviews, resolutions,   \* persisted, named by their position
  dropped,       \* signals whose handler failed or was killed
  faults

locals == <<evidence, verdict, subject, plan>>
store == <<detections, reviews, resolutions>>
vars == <<known, pc, locals, store, dropped, faults>>

Init ==
  /\ known = {}
  /\ pc = [s \in Signals |-> "new"]
  /\ evidence = [s \in Signals |-> {}]
  /\ verdict = [s \in Signals |-> NoVerdict]
  /\ subject = [s \in Signals |-> 0]
  /\ plan = [s \in Signals |-> Escalation]
  /\ detections = <<>> /\ reviews = <<>> /\ resolutions = <<>>
  /\ dropped = {} /\ faults = 0

Goto(s, label) == pc' = [pc EXCEPT ![s] = label]

\* The handler ends; its locals are forgotten.
Done(s) ==
  /\ Goto(s, "done")
  /\ evidence' = [evidence EXCEPT ![s] = {}]
  /\ verdict' = [verdict EXCEPT ![s] = NoVerdict]
  /\ subject' = [subject EXCEPT ![s] = 0]
  /\ plan' = [plan EXCEPT ![s] = Escalation]

\* The lock _scope_locks[scope_key] of the process.
Key(s) == <<Host[s], Service[s]>>
InScope(s) == pc[s] \notin {"new", "waiting", "done"}

Persist(s) ==
  /\ pc[s] = "new"
  /\ known' = known \cup {s}
  /\ Goto(s, "waiting")
  /\ UNCHANGED <<locals, store, dropped, faults>>

EnterAtOnce(s) ==   \* fault: without the lock
  /\ pc[s] = "waiting"
  /\ Goto(s, "count")
  /\ UNCHANGED <<known, locals, store, dropped, faults>>

Enter(s) ==
  /\ pc[s] = "waiting"
  /\ \A t \in Signals : InScope(t) => Key(t) # Key(s)
  /\ Goto(s, "count")
  /\ UNCHANGED <<known, locals, store, dropped, faults>>

\* What a query in the scope of s finds: a missing service is no filter.
Related(s) == {t \in known : Service[s] \in {NoService, Service[t]}}

\* count_related_signals and the gate of the aggregation policy.
Count(s) ==
  /\ pc[s] = "count"
  /\ IF Cardinality(Related(s)) < MinRelated
     THEN Done(s)
     ELSE Goto(s, "gather") /\ UNCHANGED locals
  /\ UNCHANGED <<known, store, dropped, faults>>

\* _retrieve_evidence queries once more; by then the window may have passed,
\* and without evidence the verdict is NO_ACTION, without the model.
Gather(s) ==
  /\ pc[s] = "gather"
  /\ \E retrieved \in {Related(s), {}} :
       /\ evidence' = [evidence EXCEPT ![s] = retrieved]
       /\ Goto(s, IF retrieved = {} THEN "find" ELSE "interpret")
  /\ UNCHANGED <<known, verdict, subject, plan, store, dropped, faults>>

Interpret(s) ==
  /\ pc[s] = "interpret"
  /\ \E type \in Verdicts, claimed \in Claims :
       verdict' = [verdict EXCEPT ![s] =
         ValidateVerdict([type |-> type, support |-> claimed], evidence[s])]
  /\ evidence' = [evidence EXCEPT ![s] = {}]
  /\ Goto(s, "find")
  /\ UNCHANGED <<known, subject, plan, store, dropped, faults>>

\* process_detection_available: where a verdict goes. An incident needs a
\* supporting signal that leads to a workflow.
RouteOf(v) ==
  CASE v.type = "FEATURE_OPPORTUNITY" -> "review"
    [] v.type = "INCIDENT" /\ v.support \cap Owned # {} -> "diagnose"
    [] v.type = "INCIDENT" /\ v.support \cap Owned = {} -> "unowned"
    [] OTHER -> "done"

ActOn(s, d, v) ==
  /\ subject' = [subject EXCEPT ![s] = IF RouteOf(v) = "done" THEN 0 ELSE d]
  /\ verdict' = [verdict EXCEPT ![s] = NoVerdict]
  /\ Goto(s, RouteOf(v))
  /\ UNCHANGED <<evidence, plan>>

\* The fingerprint of a verdict: its type and evidence; without evidence it is
\* about the scope it was asked for.
Fingerprint(v, s) == IF v.support = {} THEN <<v, Service[s]>> ELSE <<v>>
FingerprintOf(d) == Fingerprint(detections[d].verdict, detections[d].by)
SameVerdict(s) == {d \in DOMAIN detections : FingerprintOf(d) = Fingerprint(verdict[s], s)}

\* find_by_fingerprint; any of several.
Find(s) ==
  /\ pc[s] = "find"
  /\ \/ /\ SameVerdict(s) = {}
        /\ Goto(s, "save") /\ UNCHANGED locals
     \/ \E d \in SameVerdict(s) : ActOn(s, d, verdict[s])
  /\ UNCHANGED <<known, store, dropped, faults>>

Save(s) ==
  /\ pc[s] = "save"
  /\ detections' = Append(detections, [verdict |-> verdict[s], by |-> s])
  /\ ActOn(s, Len(detections) + 1, verdict[s])
  /\ UNCHANGED <<known, reviews, resolutions, dropped, faults>>

\* create_review: at most one per detection, by a lookup before it.
FindAnyReview(s) ==   \* fault: the lookup ignores the detection
  /\ pc[s] = "review"
  /\ IF reviews # <<>> THEN Done(s) ELSE Goto(s, "create") /\ UNCHANGED locals
  /\ UNCHANGED <<known, store, dropped, faults>>

FindReview(s) ==
  /\ pc[s] = "review"
  /\ IF \E r \in DOMAIN reviews : reviews[r].detection = subject[s]
     THEN Done(s)
     ELSE Goto(s, "create") /\ UNCHANGED locals
  /\ UNCHANGED <<known, store, dropped, faults>>

CreateReview(s) ==
  /\ pc[s] = "create"
  /\ reviews' = Append(reviews, [detection |-> subject[s], by |-> s])
  /\ Done(s)
  /\ UNCHANGED <<known, detections, resolutions, dropped, faults>>

\* The incident resolution agent, on the signals the detection names.
Diagnose(s) ==
  /\ pc[s] = "diagnose"
  /\ \E p \in Proposals :
       plan' = [plan EXCEPT ![s] =
         Authorize(ValidateProposal(p, detections[subject[s]].verdict.support))]
  /\ Goto(s, "findplan")
  /\ UNCHANGED <<known, evidence, verdict, subject, store, dropped, faults>>

SamePlan(s, r) == r.detection = subject[s] /\ r.plan.strategy = plan[s].strategy

FindPlan(s) ==
  /\ pc[s] = "findplan"
  /\ IF \E r \in DOMAIN resolutions : SamePlan(s, resolutions[r])
     THEN Done(s)
     ELSE Goto(s, "saveplan") /\ UNCHANGED locals
  /\ UNCHANGED <<known, store, dropped, faults>>

SavePlan(s) ==
  /\ pc[s] = "saveplan"
  /\ resolutions' = Append(resolutions,
       [detection |-> subject[s], plan |-> plan[s], by |-> s])
  /\ Done(s)
  /\ UNCHANGED <<known, detections, reviews, dropped, faults>>

(***************************************************************************)
(* Failures. Every exception leaves the lock and ends up in the log of the *)
(* ingestion service.                                                      *)
(***************************************************************************)
Unowned(s) ==
  /\ pc[s] = "unowned"
  /\ dropped' = dropped \cup {s}
  /\ Done(s)
  /\ UNCHANGED <<known, store, faults>>

Fail(s) ==
  /\ InScope(s) /\ pc[s] # "unowned"
  /\ faults < MaxFaults /\ faults' = faults + 1
  /\ dropped' = dropped \cup {s}
  /\ Done(s)
  /\ UNCHANGED <<known, store>>

Crash(p) ==
  LET killed == {s \in Signals : Host[s] = p /\ pc[s] \notin {"new", "done"}} IN
  /\ killed # {}
  /\ faults < MaxFaults /\ faults' = faults + 1
  /\ dropped' = dropped \cup killed
  /\ pc' = [s \in Signals |-> IF s \in killed THEN "done" ELSE pc[s]]
  /\ evidence' = [s \in Signals |-> IF s \in killed THEN {} ELSE evidence[s]]
  /\ verdict' = [s \in Signals |-> IF s \in killed THEN NoVerdict ELSE verdict[s]]
  /\ subject' = [s \in Signals |-> IF s \in killed THEN 0 ELSE subject[s]]
  /\ plan' = [s \in Signals |-> IF s \in killed THEN Escalation ELSE plan[s]]
  /\ UNCHANGED <<known, store>>

Handle(s) ==
  \/ Enter(s) \/ Count(s) \/ Gather(s) \/ Interpret(s) \/ Find(s) \/ Save(s)
  \/ FindReview(s) \/ CreateReview(s)
  \/ Diagnose(s) \/ FindPlan(s) \/ SavePlan(s) \/ Unowned(s)

Next ==
  \/ \E s \in Signals : Persist(s) \/ Handle(s) \/ Fail(s)
  \/ \E p \in {Host[s] : s \in Signals} : Crash(p)

Spec == Init /\ [][Next]_vars

\* Calls return (each has a timeout), and a lock is handed on in turn.
FairSpec == Spec /\ \A s \in Signals : WF_vars(Handle(s)) /\ SF_vars(Enter(s))

-----------------------------------------------------------------------------
Plans == [strategy : Strategies, risk : Risks, confidence : 0..100,
          target : BOOLEAN, support : SUBSET Signals]
VerdictSet == [type : Verdicts, support : SUBSET Signals]

TypeOK ==
  /\ known \subseteq Signals /\ dropped \subseteq Signals
  /\ pc \in [Signals -> {"new", "waiting", "count", "gather", "interpret", "find", "save",
       "review", "create", "diagnose", "unowned", "findplan", "saveplan", "done"}]
  /\ evidence \in [Signals -> SUBSET Signals]
  /\ verdict \in [Signals -> VerdictSet]
  /\ subject \in [Signals -> 0..Len(detections)]
  /\ plan \in [Signals -> Plans]
  /\ detections \in Seq([verdict : VerdictSet, by : Signals])
  /\ reviews \in Seq([detection : DOMAIN detections, by : Signals])
  /\ resolutions \in Seq([detection : DOMAIN detections, plan : Plans, by : Signals])
  /\ faults \in 0..MaxFaults

\* "so two near-simultaneous triggers can't both ... create two
\* DetectionResults with the same fingerprint" (processor.py, lines 97-102):
\* true of the handlers of one process and one scope, although lookup and save
\* are separate awaits. Likewise for reviews and resolutions.
SameLock(a, b) == Key(a.by) = Key(b.by)
OnePerScope ==
  /\ \A i, j \in DOMAIN detections : i # j /\ SameLock(detections[i], detections[j])
       => FingerprintOf(i) # FingerprintOf(j)
  /\ \A i, j \in DOMAIN reviews : i # j /\ SameLock(reviews[i], reviews[j])
       => reviews[i].detection # reviews[j].detection
  /\ \A i, j \in DOMAIN resolutions : i # j /\ SameLock(resolutions[i], resolutions[j])
       => \/ resolutions[i].detection # resolutions[j].detection
          \/ resolutions[i].plan.strategy # resolutions[j].plan.strategy

\* Whatever the models claim, what is persisted rests on signals that exist and
\* that the signal which started it could see: a detection that asks for action
\* has evidence, a review belongs to a feature opportunity, a resolution to an
\* incident of a known workflow, and a CODE_FIX to a defect seen in it.
Grounded ==
  /\ \A d \in DOMAIN detections :
       LET v == detections[d].verdict IN
       /\ v.support \subseteq known
       /\ v.type # "NO_ACTION" => v.support # {}
       /\ \A t \in v.support : Service[detections[d].by] \in {NoService, Service[t]}
  /\ \A r \in DOMAIN reviews :
       detections[reviews[r].detection].verdict.type = "FEATURE_OPPORTUNITY"
  /\ \A r \in DOMAIN resolutions :
       LET v == detections[resolutions[r].detection].verdict
           p == resolutions[r].plan IN
       /\ v.type = "INCIDENT" /\ v.support \cap Owned # {}
       /\ p.support \subseteq v.support
       /\ p.strategy = "CODE_FIX" => p.support \cap Defect # {}

\* No handler waits for ever, whatever happens to those that hold its lock; and
\* when it has ended, what it detected is acted on, unless it failed, was killed
\* or found no workflow to act for: nothing acts on the detection later.
ActedOn(d) ==
  \/ detections[d].verdict.type = "NO_ACTION"
  \/ \E r \in DOMAIN reviews : reviews[r].detection = d
  \/ \E r \in DOMAIN resolutions : resolutions[r].detection = d
EveryDetectionActedOn ==
  \A s \in Signals :
    pc[s] = "waiting" ~> /\ pc[s] = "done"
                         /\ \A d \in DOMAIN detections :
                              detections[d].by = s => s \in dropped \/ ActedOn(d)

\* Docstring of the scope lock, taken at its word: no two detections with the
\* same fingerprint.
OneDetectionPerFingerprint ==
  \A i, j \in DOMAIN detections : i # j => FingerprintOf(i) # FingerprintOf(j)

\* "reprocessing the same DetectionAvailableEvent is always safe": an incident
\* is given one remediation.
OneResolution ==
  \A i, j \in DOMAIN resolutions : i # j => resolutions[i].detection # resolutions[j].detection
=============================================================================
