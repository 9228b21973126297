--------------------------- MODULE CircuitBreaker ---------------------------
(***************************************************************************)
(* The process-local circuit breaker around a bounded retry, as            *)
(* FeatureReviewService wraps the creation of a Jira story in them.        *)
(*                                                                         *)
(* Callers are coroutines of one event loop. A call is admitted in one     *)
(* locked section and its outcome is handled in another; between the two   *)
(* it waits for the service, so what it finds then may have been left by   *)
(* other calls. A call that is refused (CircuitOpenError) changes nothing  *)
(* and has no action here.                                                 *)
(*                                                                         *)
(* Source: app/core/resilience/circuit_breaker.py, retry.py and the error  *)
(* classification of app/core/jira_client.py.                              *)
(***************************************************************************)
EXTENDS Naturals

CONSTANTS
  Callers,
  Threshold,     \* failure_threshold
  MaxAttempts,   \* attempts of one retry_async
  Faults,        \* what may happen to an attempt instead of success
  MaxFaults      \* bound: attempts that do not succeed

ASSUME ThresholdAssumption == Threshold \in Nat \ {0}
ASSUME AttemptAssumption == MaxAttempts \in Nat \ {0}
ASSUME FaultAssumption ==
  /\ Faults \subseteq {"transient", "permanent", "cancelled"}
  /\ MaxFaults \in Nat

VARIABLES
  state,      \* _state
  failures,   \* _consecutive_failures
  probing,    \* _half_open_probe_in_flight
  cooled,     \* recovery_timeout_seconds have passed since _opened_at
  pc,         \* pc[c]: "idle", or "calling" while c awaits fn()
  attempt,    \* attempt[c]: the attempt of the retry c is in
  probe,      \* probe[c]: c was let in as the HALF_OPEN probe
  undecided,  \* the last probe ended without a verdict (history)
  faults      \* counts the bounded events

vars == <<state, failures, probing, cooled, pc, attempt, probe, undecided, faults>>

Init ==
  /\ state = "CLOSED" /\ failures = 0
  /\ probing = FALSE /\ cooled = FALSE
  /\ pc = [c \in Callers |-> "idle"]
  /\ attempt = [c \in Callers |-> 0]
  /\ probe = [c \in Callers |-> FALSE]
  /\ undecided = FALSE
  /\ faults = 0

Enter(c, asProbe) ==
  /\ pc[c] = "idle"
  /\ pc' = [pc EXCEPT ![c] = "calling"]
  /\ attempt' = [attempt EXCEPT ![c] = 1]
  /\ probe' = [probe EXCEPT ![c] = asProbe]

Leave(c) ==
  /\ pc[c] = "calling"
  /\ pc' = [pc EXCEPT ![c] = "idle"]
  /\ attempt' = [attempt EXCEPT ![c] = 0]
  /\ probe' = [probe EXCEPT ![c] = FALSE]

Fault(kind) ==
  /\ kind \in Faults
  /\ faults < MaxFaults
  /\ faults' = faults + 1

\* Admission: everybody while CLOSED, one call once the window has passed.
Admit(c) ==
  /\ state = "CLOSED"
  /\ Enter(c, FALSE)
  /\ UNCHANGED <<state, failures, probing, cooled, undecided, faults>>

AdmitProbe(c) ==
  /\ state = "OPEN" /\ cooled /\ ~probing
  /\ Enter(c, TRUE)
  /\ state' = "HALF_OPEN" /\ probing' = TRUE
  /\ UNCHANGED <<failures, cooled, undecided, faults>>

\* retry_async backs off and tries again.
Retry(c) ==
  /\ pc[c] = "calling" /\ attempt[c] < MaxAttempts
  /\ Fault("transient")
  /\ attempt' = [attempt EXCEPT ![c] = @ + 1]
  /\ UNCHANGED <<state, failures, probing, cooled, pc, probe, undecided>>

SucceedWithoutClosing(c) ==   \* fault: only the counter is reset
  /\ Leave(c)
  /\ failures' = 0 /\ probing' = FALSE
  /\ UNCHANGED <<state, cooled, undecided, faults>>

Succeed(c) ==
  /\ Leave(c)
  /\ state' = "CLOSED" /\ failures' = 0 /\ probing' = FALSE /\ cooled' = FALSE
  /\ undecided' = FALSE
  /\ UNCHANGED faults

\* The breaker opens, or its recovery window starts again.
OpensLate(f) == f > Threshold   \* fault: > for >=
Opens(f) == state = "HALF_OPEN" \/ f >= Threshold

\* RetryExhaustedError around a transient error: the one outcome that counts,
\* once per call however many attempts it took.
FailKeepingTheProbe(c) ==   \* fault: the probe flag is not taken back
  /\ Leave(c) /\ attempt[c] = MaxAttempts
  /\ Fault("transient")
  /\ failures' = failures + 1
  /\ IF Opens(failures + 1) THEN state' = "OPEN" /\ cooled' = FALSE
                            ELSE UNCHANGED <<state, cooled>>
  /\ undecided' = FALSE
  /\ UNCHANGED probing

FailCountably(c) ==
  /\ Leave(c) /\ attempt[c] = MaxAttempts
  /\ Fault("transient")
  /\ probing' = FALSE /\ undecided' = FALSE
  /\ failures' = failures + 1
  /\ IF Opens(failures + 1) THEN state' = "OPEN" /\ cooled' = FALSE
                            ELSE UNCHANGED <<state, cooled>>

FailPermanently(c) ==
  /\ Leave(c)
  /\ Fault("permanent")
  /\ probing' = FALSE
  /\ undecided' = (undecided \/ probe[c])
  /\ UNCHANGED <<state, failures, cooled>>

\* CancelledError, from the request or during the back-off.
Cancel(c) ==
  /\ Leave(c)
  /\ Fault("cancelled")
  /\ probing' = (probing /\ state # "HALF_OPEN")
  /\ undecided' = (undecided \/ probe[c])
  /\ UNCHANGED <<state, failures, cooled>>

Elapse ==
  /\ state = "OPEN" /\ ~cooled
  /\ cooled' = TRUE
  /\ UNCHANGED <<state, failures, probing, pc, attempt, probe, undecided, faults>>

Complete(c) == Succeed(c) \/ FailCountably(c) \/ FailPermanently(c) \/ Cancel(c)

Next == Elapse \/ \E c \in Callers : Admit(c) \/ AdmitProbe(c) \/ Retry(c) \/ Complete(c)

Spec == Init /\ [][Next]_vars

\* Time passes, calls end, and somebody keeps asking for the service.
FairSpec ==
  /\ Spec
  /\ WF_vars(Elapse)
  /\ WF_vars(\E c \in Callers : AdmitProbe(c))
  /\ \A c \in Callers : WF_vars(Retry(c) \/ Complete(c))

(***************************************************************************)
(* Correctness.                                                            *)
(***************************************************************************)
TypeOK ==
  /\ state \in {"CLOSED", "OPEN", "HALF_OPEN"}
  /\ failures \in Nat /\ faults \in Nat
  /\ probing \in BOOLEAN /\ cooled \in BOOLEAN
  /\ pc \in [Callers -> {"idle", "calling"}]
  /\ attempt \in [Callers -> 0..MaxAttempts]
  /\ probe \in [Callers -> BOOLEAN]
  /\ undecided \in BOOLEAN

\* The counter and the state agree at every await: the circuit lets everybody
\* through exactly as long as fewer calls in a row than the threshold have
\* failed, whatever order late outcomes come back in.
ClosedBelowThreshold == state = "CLOSED" <=> failures < Threshold

\* The flag that admits one probe never outlives the HALF_OPEN state: an open
\* circuit whose window has passed refuses nobody because of an old probe.
FlagIsHalfOpen == probing => state = "HALF_OPEN"

Consistent == TypeOK /\ ClosedBelowThreshold /\ FlagIsHalfOpen

\* HALF_OPEN, in which every call is refused, is held by a probe that is still
\* in flight and will decide it (CircuitBreaker.call: "while a HALF_OPEN probe
\* is already in flight"), unless that probe itself failed permanently or was
\* cancelled: whatever becomes of the calls let in before the circuit opened.
HalfOpenIsProbed ==
  state = "HALF_OPEN" => undecided \/ \E c \in Callers : probe[c]

\* The docstring of call, taken at its word: HALF_OPEN is never left alone.
AlwaysProbed == state = "HALF_OPEN" => \E c \in Callers : probe[c]

\* Once the service is healthy again a tripped circuit closes, unless a probe
\* ended without a verdict.
Recovers == state # "CLOSED" ~> state = "CLOSED" \/ undecided
=============================================================================
