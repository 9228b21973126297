---------------------- MODULE MCRemediationVerification ---------------------
(***************************************************************************)
(* A first deployment, which failed; a second one, the remediation; and    *)
(* signals of both revisions.                                              *)
(***************************************************************************)
EXTENDS RemediationVerification

CONSTANTS c1, c2, odd, norev

Deployment(revision, at, ok) == [revision |-> revision, at |-> at, ok |-> ok]
Signal(id, type, severity, value, revision, at) ==
  [id |-> id, type |-> type, severity |-> severity, value |-> value,
   revision |-> revision, at |-> at]

MCDeployments == <<Deployment("r1", 1, FALSE), Deployment("r2", 4, TRUE)>>
GoodDeployments == <<Deployment(norev, 4, TRUE), Deployment("r2", 9, TRUE)>>

\* A latency that is no number, a log error of the new revision, two of the old
\* one, which are newer: as many as a query of MaxSignals = 2 returns.
MCSignals == {
  Signal("b", "LATENCY_ANOMALY", "INFO", odd, "r2", 5),
  Signal("c", "LOG_ERROR", "ERROR", 0, "r2", 6),
  Signal("d", "LOG_ERROR", "ERROR", 0, "r1", 7),
  Signal("e", "LOG_ERROR", "ERROR", 0, "r1", 8)}
MCTypes == {"LATENCY_ANOMALY", "LOG_ERROR"}
=============================================================================
