---------------------------- MODULE MCMonitoring ----------------------------
(***************************************************************************)
(* Two runs of one service, or one run and notifications of every source;  *)
(* the log entry that a run may find comes in as a notification too.       *)
(***************************************************************************)
EXTENDS Monitoring, TLC

CONSTANTS r1, r2

Entry == [kind |-> "log", id |-> "log1", at |-> 0, text |-> "text", level |-> "ERROR",
          service |-> "api", environment |-> Missing, revision |-> "a"]
Other == [Entry EXCEPT !.id = "log2", !.service = Missing, !.revision = Missing, !.level = "NOTICE"]
Opened == [kind |-> "alert", id |-> "alert1", at |-> 0, text |-> "text", level |-> "open",
           topic |-> "latency", service |-> "api", environment |-> "prod", revision |-> Missing]
Unnamed == [Opened EXCEPT !.id = "alert2", !.topic = Null]
Said == [kind |-> "feedback", id |-> "said", at |-> Garbled, text |-> "text", topic |-> Missing,
         service |-> Missing, environment |-> Missing, revision |-> Missing]
Asked == [Said EXCEPT !.kind = "support", !.at = 0]
Pattern == [Said EXCEPT !.kind = "pattern", !.at = 0] @@
           [level |-> "adoption_anomaly", window |-> Missing]
Measured == [kind |-> "metric", id |-> Missing, at |-> 0, text |-> "value", level |-> "INFO",
             topic |-> "latency_p99", service |-> "api", environment |-> "prod",
             revision |-> Missing]

OneEntry == {Entry}
TwoEntries == {Entry, Other}
AllNotifications == {Entry, Opened, Unnamed, Said, Asked, Pattern, Measured}

OfService == [valid |-> TRUE, service |-> "api", environment |-> "prod", revision |-> Missing]
OfEnvironment == [OfService EXCEPT !.service = Missing]
Refused == [OfService EXCEPT !.valid = FALSE]
ServiceOnly == {OfService}
AnyInput == {OfService, OfEnvironment, Refused}
=============================================================================
