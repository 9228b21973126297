------------------------ MODULE MCDetectionPipeline -------------------------
(***************************************************************************)
(* Two signals of a service and one without; the first is a defect of a    *)
(* deployed workflow, the last may be handled by another process.          *)
(***************************************************************************)
EXTENDS DetectionPipeline

CONSTANTS s1, s2, s3, ghost, none

MCService == [s \in Signals |-> IF s = s3 THEN none ELSE "checkout"]
OneProcess == [s \in Signals |-> "p"]
TwoProcesses == [s \in Signals |-> IF s = s2 THEN "q" ELSE "p"]
MCClaims == {{s1, ghost}, {s2}}
Proposal(strategy, risk, claimed) ==
  [strategy |-> strategy, risk |-> risk, confidence |-> 90, target |-> TRUE, support |-> claimed]
MCProposals ==
  UNION {{Proposal("CODE_FIX", "LOW", claimed), Proposal("RETEST", "HIGH", claimed)} : claimed \in MCClaims}
=============================================================================
