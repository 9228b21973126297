--------------------------- MODULE EvidencePolicy ---------------------------
(***************************************************************************)
(* "Gemini proposes, application code authorizes": what the two reasoning  *)
(* agents of the operations loop let through of a model's answer. A claim  *)
(* counts only if it was retrieved, and a remediation only if five rules   *)
(* let it pass. Ids are sets here: neither their order nor their           *)
(* repetition is looked at.                                                *)
(*                                                                         *)
(* Source: app/agents/detecting.py, app/agents/incident_resolution.py.     *)
(***************************************************************************)
EXTENDS Naturals, FiniteSets

CONSTANTS
  MinConfidence,   \* incident_resolution_min_confidence_for_auto_remediation, in percent
  Defect           \* signals of type APPLICATION_ERROR or LOG_ERROR

ASSUME ConfidenceAssumption == MinConfidence \in 0..100

Verdicts == {"INCIDENT", "FEATURE_OPPORTUNITY", "NO_ACTION"}
Automatic == {"CODE_FIX", "RETEST", "ARCHITECTURE_REVIEW", "ROLLBACK"}
Strategies == Automatic \cup {"ESCALATE", "NO_ACTION"}
Risks == {"LOW", "MEDIUM", "HIGH"}

MinSupport == 1

NoVerdict == [type |-> "NO_ACTION", support |-> {}]

\* DetectingAgent._validate_evidence on a verdict [type, support].
TrustVerdict(verdict, retrieved) ==   \* fault: claims are taken as they come
  verdict

ValidateVerdict(verdict, retrieved) ==
  LET verified == verdict.support \cap retrieved
  IN  IF verdict.type # "NO_ACTION" /\ Cardinality(verified) < MinSupport
      THEN NoVerdict
      ELSE [type |-> verdict.type, support |-> verified]

\* IncidentResolutionAgent._validate_evidence on a proposal
\* [strategy, risk, confidence, target, support].
ValidateProposal(proposal, retrieved) ==
  [proposal EXCEPT !.support = @ \cap retrieved]

Ungrounded(p) == p.strategy \in Automatic /\ Cardinality(p.support) < MinSupport
Risky(p) == p.strategy \in Automatic /\ p.risk = "HIGH"
Unsure(p) == p.strategy \in Automatic /\ p.confidence < MinConfidence
Aimless(p) == p.strategy = "ROLLBACK" /\ ~p.target
NoDefect(p) == p.strategy = "CODE_FIX" /\ p.support \cap Defect = {}

\* _apply_safety_policy, the rules in their order.
Authorize(p) ==
  IF Ungrounded(p) THEN [p EXCEPT !.strategy = "ESCALATE", !.confidence = 0]
  ELSE IF Risky(p) \/ Unsure(p) \/ Aimless(p) \/ NoDefect(p)
       THEN [p EXCEPT !.strategy = "ESCALATE"] ELSE p

\* A diagnosis without any evidence, made without the model.
Escalation == [strategy |-> "ESCALATE", risk |-> "HIGH", confidence |-> 0,
               target |-> FALSE, support |-> {}]

\* STRATEGY_TARGET_AGENT
TargetAgent(strategy) ==
  CASE strategy = "CODE_FIX" -> "codegen_agent"
    [] strategy = "RETEST" -> "testing_agent"
    [] strategy = "ARCHITECTURE_REVIEW" -> "architecture_agent"
    [] strategy = "ROLLBACK" -> "deployment_agent"
    [] OTHER -> "none"
=============================================================================
