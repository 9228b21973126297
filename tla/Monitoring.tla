----------------------------- MODULE Monitoring -----------------------------
(***************************************************************************)
(* The monitoring agent: a run queries three metrics and the log, makes    *)
(* signals of what comes back, saves those that are not there yet and      *)
(* reports. A failed query ends the metrics, or the logs, and no more.     *)
(* Beside the runs, notifications of the same sources come in from the     *)
(* worker and are saved in the same two steps, look and save. One action   *)
(* is the code between two awaits.                                         *)
(*                                                                         *)
(* What Cloud Monitoring and Cloud Logging answer is external: counts of   *)
(* good and bad requests, whether there is a latency, how many instances   *)
(* are active, some of the entries. Every query computes its window from   *)
(* the time it is made at.                                                 *)
(*                                                                         *)
(* Source: app/agents/monitoring.py, app/core/cloud_monitoring_client.py,  *)
(* app/core/cloud_logging_client.py.                                       *)
(***************************************************************************)
EXTENDS SignalAdapters, FiniteSets

CONSTANTS
  Runs,            \* executions of the agent
  Inputs,          \* what a run may be asked: [valid, service, environment, revision]
  Notifications,   \* what comes in from outside
  Entries,         \* what the log holds, as the client shapes it
  Everything,      \* the service an observation of the whole environment names
  Nothing,         \* no signal
  Counts,          \* numbers of requests or instances
  Warning, Critical,   \* error rate thresholds, in percent
  LogLimit,        \* monitoring_log_query_limit
  MaxReceived,     \* bound on the notifications that come in
  MaxTime,         \* bound on the clock
  MaxFaults        \* bound: failures of the queries, of the store, crashes

ASSUME ThresholdAssumption == Warning \in 1..100 /\ Critical \in Warning..100
ASSUME CountAssumption == Counts \subseteq Nat
ASSUME NamesAssumption == Runs \cap Notifications = {}
ASSUME MonitoringBounds ==
  LogLimit \in Nat /\ MaxReceived \in Nat /\ MaxTime \in Nat /\ MaxFaults \in Nat

VARIABLES
  now, store,      \* the persisted signals: [signal, by]
  stage, pc,       \* where a run is: what it is collecting, and how far it is
  input,
  todo,            \* signals of the stage that are not looked up yet
  item,            \* the signal that is being saved
  answered,        \* signals made of what the queries answered
  report,          \* created_signals
  observed,        \* metrics_observed
  errors,          \* sources whose collection failed
  execution,       \* the status of the persisted AgentExecution
  status,          \* collection_status of the report
  lost,            \* runs that an exception or a crash ended
  writer,          \* writer[n]: where the worker's task for a notification is
  faults

progress == <<stage, pc, input, todo, item>>
product == <<answered, report, observed, errors>>
outcome == <<execution, status, lost>>
vars == <<now, store, progress, product, outcome, writer, faults>>

Init ==
  /\ now = 0 /\ store = {}
  /\ stage = [r \in Runs |-> "none"] /\ pc = [r \in Runs |-> "off"]
  /\ input \in [Runs -> Inputs]
  /\ todo = [r \in Runs |-> {}] /\ item = [r \in Runs |-> Nothing]
  /\ answered = [r \in Runs |-> {}] /\ report = [r \in Runs |-> {}]
  /\ observed = [r \in Runs |-> {}] /\ errors = [r \in Runs |-> {}]
  /\ execution = [r \in Runs |-> "none"] /\ status = [r \in Runs |-> "none"]
  /\ lost = {}
  /\ writer = [n \in Notifications |-> "new"]
  /\ faults = 0

Fault == faults < MaxFaults /\ faults' = faults + 1

Tick ==
  /\ now < MaxTime /\ now' = now + 1
  /\ UNCHANGED <<store, progress, product, outcome, writer, faults>>

Goto(r, s, p) == stage' = [stage EXCEPT ![r] = s] /\ pc' = [pc EXCEPT ![r] = p]

(***************************************************************************)
(* Beginning: the record of the execution, then the checks of the input,   *)
(* in which a refusal is final.                                            *)
(***************************************************************************)
Begin(r) ==
  /\ pc[r] = "off" /\ execution[r] = "none"
  /\ execution' = [execution EXCEPT ![r] = "RUNNING"]
  /\ Goto(r, "input", "check")
  /\ UNCHANGED <<now, store, input, todo, item, product, status, lost, writer, faults>>

Refuse(r) ==
  /\ stage[r] = "input" /\ ~input[r].valid
  /\ execution' = [execution EXCEPT ![r] = "FAILED"]
  /\ Goto(r, "none", "off")
  /\ UNCHANGED <<now, store, input, todo, item, product, status, lost, writer, faults>>

Accept(r) ==
  /\ stage[r] = "input" /\ input[r].valid
  /\ Goto(r, "error_rate", "query")
  /\ UNCHANGED <<now, store, input, todo, item, product, outcome, writer, faults>>

(***************************************************************************)
(* What an answer is made of. Nothing answered, nothing claimed; instances *)
(* that are active are no signal.                                          *)
(***************************************************************************)
\* _classify_error_rate; no requests are no errors.
ErrorSeverity(good, bad) ==
  LET total == good + bad
      AtLeast(percent) == total > 0 /\ 100 * bad >= percent * total
  IN  IF AtLeast(Critical) THEN "CRITICAL" ELSE IF AtLeast(Warning) THEN "WARNING" ELSE "INFO"

\* The payload of _persist_metric_signal.
Observation(r, topic, level) ==
  [kind |-> "metric", topic |-> topic, level |-> level, at |-> now, text |-> "value",
   service |-> Either(input[r].service, Everything),
   environment |-> input[r].environment, revision |-> input[r].revision]

\* What the three queries may come back with, as observations: no series, no answer.
ErrorRateAnswers(r) ==
  {{}} \cup {{Observation(r, "error_rate", ErrorSeverity(good, bad))} :
               good \in Counts, bad \in Counts}

LatencyAnswers(r) == {{}, {Observation(r, "latency_p99", "INFO")}}

AvailabilityAnswers(r) ==
  {{}} \cup {IF active = 0 THEN {Observation(r, "availability", "CRITICAL")} ELSE {} :
               active \in Counts}

MetricAnswers(r) ==
  CASE stage[r] = "error_rate" -> ErrorRateAnswers(r)
    [] stage[r] = "latency_p99" -> LatencyAnswers(r)
    [] stage[r] = "availability" -> AvailabilityAnswers(r)

\* to_signal_payload and what _collect_logs fills in: an entry says nothing of the
\* environment.
Backfill(r, signal) ==
  [signal EXCEPT !.environment = input[r].environment,
                 !.revision = Either(@, input[r].revision)]

LogAnswers(r) ==
  {{Backfill(r, LogEntry(n)) : n \in found} :
     found \in {S \in SUBSET Entries : Cardinality(S) <= LogLimit}}

Metrics == {"error_rate", "latency_p99", "availability"}

\* The stage after s; the log of an environment is not read.
After(r, s) ==
  CASE s = "error_rate" -> "latency_p99"
    [] s = "latency_p99" -> "availability"
    [] s = "availability" -> IF input[r].service # Missing THEN "logs" ELSE "report"
    [] s = "logs" -> "report"

(***************************************************************************)
(* Collecting: query, then look up and save signal by signal.              *)
(***************************************************************************)
QueryMetric(r) ==
  /\ stage[r] \in Metrics /\ pc[r] = "query"
  /\ \E answer \in MetricAnswers(r) :
       /\ observed' = [observed EXCEPT ![r] = @ \cup (IF answer = {} THEN {} ELSE {stage[r]})]
       /\ todo' = [todo EXCEPT ![r] = {Metric(n) : n \in answer}]
       /\ answered' = [answered EXCEPT ![r] = @ \cup {Metric(n) : n \in answer}]
  /\ Goto(r, stage[r], "look")
  /\ UNCHANGED <<now, store, input, item, report, errors, outcome, writer, faults>>

QueryLogs(r) ==
  /\ stage[r] = "logs" /\ pc[r] = "query"
  /\ \E answer \in LogAnswers(r) :
       /\ todo' = [todo EXCEPT ![r] = answer]
       /\ answered' = [answered EXCEPT ![r] = @ \cup answer]
  /\ Goto(r, "logs", "look")
  /\ UNCHANGED <<now, store, input, item, report, observed, errors, outcome, writer, faults>>

Source(s) == IF s = "logs" THEN "cloud_logging" ELSE "cloud_monitoring"

\* A query that fails with a GoogleApiError ends the collection of its source.
FailedStage(r) ==
  IF stage[r] = "logs" THEN "report" ELSE After(r, "availability")

QueryFails(r) ==
  /\ stage[r] # "report" /\ pc[r] = "query" /\ Fault
  /\ errors' = [errors EXCEPT ![r] = @ \cup {Source(stage[r])}]
  /\ Goto(r, FailedStage(r), "query")
  /\ UNCHANGED <<now, store, input, todo, item, answered, report, observed, outcome, writer>>

Stored(signal) == {x \in store : x.signal.fingerprint = signal.fingerprint}

\* find_by_fingerprint: what is there already is reported as it is.
LookOnly(r) ==   \* fault: what is there is passed over, the new signal reported
  /\ pc[r] = "look"
  /\ \E signal \in todo[r] :
       /\ todo' = [todo EXCEPT ![r] = @ \ {signal}]
       /\ IF Stored(signal) # {}
          THEN /\ report' = [report EXCEPT ![r] = @ \cup {[signal |-> signal, by |-> r]}]
               /\ UNCHANGED <<item, pc>>
          ELSE /\ item' = [item EXCEPT ![r] = signal]
               /\ pc' = [pc EXCEPT ![r] = "save"]
               /\ UNCHANGED report
  /\ UNCHANGED <<now, store, stage, input, answered, observed, errors, outcome, writer, faults>>

Look(r) ==
  /\ pc[r] = "look"
  /\ \E signal \in todo[r] :
       /\ todo' = [todo EXCEPT ![r] = @ \ {signal}]
       /\ \/ \E x \in Stored(signal) :
               /\ report' = [report EXCEPT ![r] = @ \cup {x}]
               /\ UNCHANGED <<item, pc>>
          \/ /\ Stored(signal) = {}
             /\ item' = [item EXCEPT ![r] = signal]
             /\ pc' = [pc EXCEPT ![r] = "save"]
             /\ UNCHANGED report
  /\ UNCHANGED <<now, store, stage, input, answered, observed, errors, outcome, writer, faults>>

Save(r) ==
  /\ pc[r] = "save"
  /\ LET x == [signal |-> item[r], by |-> r]
     IN  /\ store' = store \cup {x}
         /\ report' = [report EXCEPT ![r] = @ \cup {x}]
  /\ item' = [item EXCEPT ![r] = Nothing]
  /\ Goto(r, stage[r], "look")
  /\ UNCHANGED <<now, input, todo, answered, observed, errors, outcome, writer, faults>>

EndStage(r) ==
  /\ pc[r] = "look" /\ todo[r] = {}
  /\ Goto(r, After(r, stage[r]), "query")
  /\ UNCHANGED <<now, store, input, todo, item, product, outcome, writer, faults>>

(***************************************************************************)
(* The report, and what ends a run without one: a call of the store or of  *)
(* an artifact raises, a log entry has no insertId (_collect_logs expects  *)
(* no ValueError of its adapter), or the process dies. Nobody handles any  *)
(* of them, and the execution keeps the status it has; a save may have had *)
(* its effect, and the entries before that one are saved.                  *)
(***************************************************************************)
StatusByErrors(r) ==   \* fault: a failure that kept some evidence is a failure
  IF errors[r] # {} THEN "failed" ELSE "complete"

CollectionStatus(r) ==
  IF errors[r] # {} /\ report[r] = {} /\ observed[r] = {} THEN "failed"
  ELSE IF errors[r] # {} THEN "partial" ELSE "complete"

Report(r) ==
  /\ stage[r] = "report"
  /\ status' = [status EXCEPT ![r] = CollectionStatus(r)]
  /\ execution' = [execution EXCEPT ![r] = "COMPLETED"]
  /\ Goto(r, "none", "off")
  /\ UNCHANGED <<now, store, input, todo, item, product, lost, writer, faults>>

Escape(r) ==
  /\ stage[r] # "none" /\ Fault
  /\ \/ UNCHANGED store
     \/ pc[r] = "save" /\ store' = store \cup {[signal |-> item[r], by |-> r]}
  /\ lost' = lost \cup {r}
  /\ todo' = [todo EXCEPT ![r] = {}]
  /\ item' = [item EXCEPT ![r] = Nothing]
  /\ Goto(r, "none", "off")
  /\ UNCHANGED <<now, input, product, execution, status, writer>>

(***************************************************************************)
(* The worker saves what it accepts, if it finds nothing with that         *)
(* fingerprint (module SignalIngestion has all of it).                     *)
(***************************************************************************)
Receive(n) ==
  /\ writer[n] = "new"
  /\ Cardinality({m \in Notifications : writer[m] # "new"}) < MaxReceived
  /\ writer' = [writer EXCEPT ![n] =
       IF Accepted(n) /\ Stored(Normalize(n)) = {} THEN "save" ELSE "done"]
  /\ UNCHANGED <<now, store, progress, product, outcome, faults>>

Ingest(n) ==
  /\ writer[n] = "save"
  /\ store' = store \cup {[signal |-> Normalize(n), by |-> n]}
  /\ writer' = [writer EXCEPT ![n] = "done"]
  /\ UNCHANGED <<now, progress, product, outcome, faults>>

Step(r) ==
  \/ Refuse(r) \/ Accept(r) \/ QueryMetric(r) \/ QueryLogs(r)
  \/ Look(r) \/ Save(r) \/ EndStage(r) \/ Report(r)

Next ==
  \/ Tick
  \/ \E r \in Runs : Begin(r) \/ Step(r) \/ QueryFails(r) \/ Escape(r)
  \/ \E n \in Notifications : Receive(n) \/ Ingest(n)

Spec == Init /\ [][Next]_vars

-----------------------------------------------------------------------------
Running(r) == stage[r] # "none"
Over(r) == status[r] # "none"

TypeOK ==
  /\ now \in 0..MaxTime /\ faults \in 0..MaxFaults
  /\ stage \in [Runs -> Metrics \cup {"none", "input", "logs", "report"}]
  /\ pc \in [Runs -> {"off", "check", "query", "look", "save"}]
  /\ input \in [Runs -> Inputs]
  /\ DOMAIN todo = Runs /\ DOMAIN item = Runs /\ DOMAIN answered = Runs /\ DOMAIN report = Runs
  /\ \A r \in Runs : /\ todo[r] \subseteq answered[r]
                     /\ pc[r] = "save" => item[r] \in answered[r]
  /\ observed \in [Runs -> SUBSET Metrics]
  /\ errors \in [Runs -> SUBSET {"cloud_monitoring", "cloud_logging"}]
  /\ execution \in [Runs -> {"none", "RUNNING", "COMPLETED", "FAILED"}]
  /\ status \in [Runs -> {"none", "complete", "partial", "failed"}]
  /\ lost \subseteq Runs
  /\ writer \in [Notifications -> {"new", "save", "done"}]

\* "Evidence-first": whatever a run reports is persisted, and is evidence that one
\* of its queries came back with, even if somebody else saved it first.
ReportIsEvidence ==
  \A r \in Runs : Over(r) =>
    /\ report[r] \subseteq store
    /\ \A x \in report[r] : \E signal \in answered[r] :
         x.signal.fingerprint = signal.fingerprint

\* The status of a report is true: complete means that no query failed and all that
\* was answered is persisted, partial that one failed, failed that one did and this
\* run left nothing behind.
StatusIsHonest ==
  \A r \in Runs :
    /\ status[r] = "complete" =>
         errors[r] = {} /\ \A signal \in answered[r] : Stored(signal) # {}
    /\ status[r] = "partial" => errors[r] # {}
    /\ status[r] = "failed" => errors[r] # {} /\ ~\E x \in store : x.by = r

\* MonitoringCollectionStatus: "every source failed; no evidence was collected".
FailedMeansEverySource ==
  \A r \in Runs : status[r] = "failed" =>
    errors[r] = {"cloud_monitoring"} \cup
                (IF input[r].service # Missing THEN {"cloud_logging"} ELSE {})
=============================================================================
