------------------------- MODULE VerificationPolicy -------------------------
(***************************************************************************)
(* Whether production recovered: the signals stored since a deployment are *)
(* compared with the types of signal that made the incident. No model of   *)
(* any kind is asked. A signal is a record [id, type, severity, value,     *)
(* revision, at]; those of other services and environments are left out.   *)
(*                                                                         *)
(* Source: app/verification/policy.py.                                     *)
(***************************************************************************)
EXTENDS Integers, FiniteSets

CONSTANTS
  Window,        \* verification_window_minutes
  MinEvidence,   \* verification_minimum_post_deployment_signals
  MaxSignals,    \* verification_max_signals_per_condition
  Threshold,     \* verification_latency_p99_threshold_ms
  NoRevision     \* of a signal or a deployment that does not carry one

ASSUME VerificationSettings ==
  Window \in Nat /\ MinEvidence \in Nat /\ MaxSignals \in Nat /\ Threshold \in Nat

AlwaysEmitted == {"METRIC_ANOMALY", "LATENCY_ANOMALY"}
PresenceOnly == {"APPLICATION_ERROR", "LOG_ERROR", "AVAILABILITY_DEGRADATION"}
Verifiable == AlwaysEmitted \cup PresenceOnly

\* A value that is not a number counts as 0.
NumericValue(s) == IF s.value \in Int THEN s.value ELSE 0

Degraded(s) ==
  IF s.type = "LATENCY_ANOMALY" THEN NumericValue(s) > Threshold ELSE s.severity # "INFO"

\* evaluate_condition: the absence of a signal that is emitted only when
\* something is wrong is good news, of any other it is no news.
Condition(type, matching) ==
  IF matching = {} THEN IF type \in PresenceOnly THEN "healthy" ELSE "no_evidence"
  ELSE IF \E s \in matching : Degraded(s) THEN "degraded" ELSE "healthy"

\* SignalQuery: ordered by time, the newest MaxSignals.
NewestButOne(set) ==   \* fault: off by one
  {s \in set : Cardinality({t \in set : t.at > s.at}) + 1 < MaxSignals}

Newest(set) == {s \in set : Cardinality({t \in set : t.at > s.at}) < MaxSignals}

InWindow(s, deployment) == s.at \in deployment.at .. deployment.at + Window
SameRevision(s, deployment) ==
  NoRevision \in {deployment.revision, s.revision} \/ s.revision = deployment.revision

\* collect_post_deployment_signals, for one type. The revision is compared
\* after the query has cut its answer.
CollectAnyRevision(type, stored, deployment) ==   \* fault: no comparison
  Newest({s \in stored : s.type = type /\ InWindow(s, deployment)})

Collect(type, stored, deployment) ==
  {s \in Newest({s \in stored : s.type = type /\ InWindow(s, deployment)}) :
     SameRevision(s, deployment)}

\* decide_outcome on what was collected for the types of the incident.
DecideOutcome(types, evidence) ==
  LET verdicts == {Condition(t, {s \in evidence : s.type = t}) : t \in types} IN
  IF evidence = {} \/ Cardinality(evidence) < MinEvidence \/ types = {}
  THEN "INSUFFICIENT_EVIDENCE"
  ELSE IF "degraded" \in verdicts THEN "STILL_DEGRADED"
  ELSE IF "no_evidence" \in verdicts THEN "INSUFFICIENT_EVIDENCE"
  ELSE "VERIFIED_RESOLVED"
=============================================================================
