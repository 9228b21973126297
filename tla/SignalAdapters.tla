--------------------------- MODULE SignalAdapters ---------------------------
(***************************************************************************)
(* Normalization: what a source reports, made a Signal, or refused. A      *)
(* notification is a record with the fields that decide something; the     *)
(* same few fields stand for the different keys of the sources. Evidence   *)
(* and wording are left out; the hash of a fingerprint is the tuple it is  *)
(* computed from.                                                          *)
(*                                                                         *)
(* Source: app/signals/adapters.py, app/domain/signal.py,                  *)
(* app/eventing/mapping.py.                                                *)
(***************************************************************************)
EXTENDS Naturals

CONSTANTS
  Missing,   \* a key that is absent, None or empty
  Null,      \* a key that is there with the value None, where "" is the default
  Garbled,   \* a timestamp that does not parse
  Malformed, \* instead of a signal: the adapter raises ValueError
  Odd        \* instead of a signal: it raises what its callers do not expect

ASSUME MarkerAssumption == Missing # Null /\ Missing # Garbled /\ Malformed # Odd

\* _require
Lacks(n, keys) == \E k \in keys : n[k] = Missing

\* _parse_timestamp raises ValueError
Unreadable(n) == n.at = Garbled

Either(a, b) == IF a = Missing THEN b ELSE a

\* compute_fingerprint
Fingerprint(source, id, subject, window) == <<source, id, subject, window>>

MakeSignal(n, source, type, severity, subject, fingerprint) ==
  [source |-> source, type |-> type, severity |-> severity, subject |-> subject,
   service |-> n.service, environment |-> n.environment, revision |-> n.revision,
   fingerprint |-> fingerprint]

\* normalize_cloud_monitoring_alert: n.level is the state of the incident, n.topic
\* what its condition is about.
Alert(n) ==
  LET subject == Either(n.service, n.id)
  IN  IF Lacks(n, {"id", "at", "text"}) THEN Malformed
      ELSE IF n.topic = Null THEN Odd
      ELSE IF Unreadable(n) THEN Malformed
      ELSE MakeSignal(n, "CLOUD_MONITORING",
             IF n.topic = "latency" THEN "LATENCY_ANOMALY" ELSE "METRIC_ANOMALY",
             IF n.level = "open" THEN "CRITICAL" ELSE "WARNING",
             subject, Fingerprint("CLOUD_MONITORING", n.id, subject, Missing))

ObservationType ==
  [error_rate |-> "METRIC_ANOMALY", latency_p99 |-> "LATENCY_ANOMALY",
   availability |-> "AVAILABILITY_DEGRADATION"]

Severities == {"INFO", "WARNING", "ERROR", "CRITICAL"}

\* normalize_cloud_monitoring_metric_observation: n.at stands for the window, which
\* is part of the fingerprint; an observation has no id but its topic.
Metric(n) ==
  IF \/ Lacks(n, {"topic", "service", "text", "at", "level"}) \/ Unreadable(n)
     \/ n.topic \notin DOMAIN ObservationType \/ n.level \notin Severities
  THEN Malformed
  ELSE MakeSignal(n, "CLOUD_MONITORING", ObservationType[n.topic], n.level, n.service,
         Fingerprint("CLOUD_MONITORING", n.topic, n.service, n.at))

LogSeverity(level) ==
  CASE level \in {"CRITICAL", "ALERT", "EMERGENCY"} -> "CRITICAL"
    [] level \in {"ERROR", "WARNING"} -> level
    [] OTHER -> "INFO"

\* normalize_cloud_logging_entry
LogEntry(n) ==
  LET severity == LogSeverity(n.level)
      subject == Either(n.service, n.id)
  IN  IF Lacks(n, {"id", "at", "level"}) \/ Unreadable(n) THEN Malformed
      ELSE MakeSignal(n, "CLOUD_LOGGING",
             IF severity \in {"ERROR", "CRITICAL"} THEN "LOG_ERROR" ELSE "APPLICATION_ERROR",
             severity, subject, Fingerprint("CLOUD_LOGGING", n.id, subject, Missing))

\* normalize_customer_feedback and normalize_support_feedback: n.topic is the
\* feature area.
Feedback(n, source) ==
  LET subject == Either(n.topic, "general")
  IN  IF Lacks(n, {"id", "at", "text"}) \/ Unreadable(n) THEN Malformed
      ELSE MakeSignal(n, source,
             IF source = "CUSTOMER_FEEDBACK" THEN "CUSTOMER_FEEDBACK" ELSE "SUPPORT_FEEDBACK",
             "INFO", subject, Fingerprint(source, n.id, subject, Missing))

CustomerFeedback(n) == Feedback(n, "CUSTOMER_FEEDBACK")
SupportFeedback(n) == Feedback(n, "SUPPORT_SYSTEM")

\* normalize_user_behavior: n.level is the pattern, n.text how often it occurred.
Behavior(n) ==
  IF Lacks(n, {"id", "at", "level", "topic", "text"}) \/ Unreadable(n) THEN Malformed
  ELSE MakeSignal(n, "USER_BEHAVIOR",
         IF n.level = "adoption_anomaly" THEN "ADOPTION_ANOMALY" ELSE "USER_BEHAVIOR",
         "INFO", n.topic, Fingerprint("USER_BEHAVIOR", n.id, n.topic, n.window))

\* The adapters that a message from outside can reach, and what becomes of one that
\* names none of them.
Normalize(n) ==
  CASE n.kind = "alert" -> Alert(n)
    [] n.kind = "metric" -> Metric(n)
    [] n.kind = "log" -> LogEntry(n)
    [] n.kind = "feedback" -> CustomerFeedback(n)
    [] n.kind = "support" -> SupportFeedback(n)
    [] n.kind = "pattern" -> Behavior(n)
    [] OTHER -> Malformed

Accepted(n) == Normalize(n) \notin {Malformed, Odd}
=============================================================================
