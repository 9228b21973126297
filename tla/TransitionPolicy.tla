-------------------------- MODULE TransitionPolicy --------------------------
(***************************************************************************)
(* The pure control graph of the orchestrator: the order of the stages,    *)
(* which artifact a stage consumes, which decision is structurally legal   *)
(* from a stage, how a failure classification is routed and which strategy *)
(* a remediation is allowed to follow.                                     *)
(*                                                                         *)
(* Source: app/orchestration/transitions.py, app/orchestration/decisions.py*)
(* and the policy helpers of app/orchestration/service.py.                 *)
(*                                                                         *)
(* A stage has exactly one agent and that agent produces exactly one type  *)
(* of artifact (STAGE_TO_AGENT_ID and STAGE_TO_ARTIFACT_TYPE are           *)
(* one-to-one), so the stage's name also stands for its agent, in decision *)
(* targets, and for the type of its artifact.                              *)
(***************************************************************************)
EXTENDS Naturals, FiniteSets

AgentStages == {"PLANNING", "ARCHITECTURE", "CODEGEN", "TESTING", "DEPLOYMENT"}
WorkflowStages == AgentStages \cup {"COMPLETED"}

\* The statuses a WorkflowState is ever given (WAITING, BLOCKED and CANCELLED
\* are declared, but nothing writes them).
WorkflowStatuses == {"PENDING", "RUNNING", "COMPLETED", "FAILED", "ESCALATED"}
TerminalStatuses == {"COMPLETED", "ESCALATED", "FAILED"}

StagesRequiringWorkspace == {"PLANNING", "ARCHITECTURE", "CODEGEN", "TESTING"}

\* next_stage(): None, after DEPLOYMENT and for a stage outside STAGE_ORDER,
\* is turned into COMPLETED by every caller.
NextStage == [PLANNING     |-> "ARCHITECTURE",
              ARCHITECTURE |-> "CODEGEN",
              CODEGEN      |-> "TESTING",
              TESTING      |-> "DEPLOYMENT",
              DEPLOYMENT   |-> "COMPLETED",
              COMPLETED    |-> "COMPLETED"]

NoStage == "NONE"

\* The stage whose artifact a stage consumes. Deployment consumes the code,
\* not the test report.
InputStage == [PLANNING     |-> NoStage,
               ARCHITECTURE |-> "PLANNING",
               CODEGEN      |-> "ARCHITECTURE",
               TESTING      |-> "CODEGEN",
               DEPLOYMENT   |-> "CODEGEN"]

(***************************************************************************)
(* Decisions.                                                              *)
(***************************************************************************)
DecisionActions == {"CONTINUE", "RETRY", "REPLAN", "SKIP", "WAIT", "ESCALATE",
                    "ROLLBACK", "COMPLETE", "FAIL"}

\* "OTHER" stands for a target_agent that names no stage's agent.
Targets == AgentStages \cup {NoStage, "OTHER"}
Decisions == [action : DecisionActions, target : Targets]

Plain(action)        == [action |-> action, target |-> NoStage]
Toward(action, stage) == [action |-> action, target |-> stage]

IsRetry(d) == d.action \in {"RETRY", "REPLAN"}

AllowedRetryTargets == [PLANNING     |-> {"PLANNING"},
                        ARCHITECTURE |-> {"ARCHITECTURE"},
                        CODEGEN      |-> {"CODEGEN"},
                        TESTING      |-> {"CODEGEN", "ARCHITECTURE", "TESTING"},
                        DEPLOYMENT   |-> {"DEPLOYMENT", "CODEGEN"},
                        COMPLETED    |-> {}]

\* can_transition() returns rather than raises.
CanTransition(stage, d) ==
  \/ d.action \in {"CONTINUE", "ESCALATE", "COMPLETE", "FAIL"}
  \/ IsRetry(d) /\ d.target \in AllowedRetryTargets[stage]

(***************************************************************************)
(* Routing of a failed test run: every failure shares one classification   *)
(* that the table knows, or the decision agent is asked.                   *)
(***************************************************************************)
TestClassifications == {"CODE_DEFECT", "ARCHITECTURE_DEFECT", "TEST_DEFECT",
                        "ENVIRONMENT_FAILURE", "DEPENDENCY_FAILURE", "UNKNOWN"}

TestRouting == [CODE_DEFECT         |-> Toward("RETRY", "CODEGEN"),
                ARCHITECTURE_DEFECT |-> Toward("REPLAN", "ARCHITECTURE"),
                TEST_DEFECT         |-> Toward("RETRY", "TESTING"),
                ENVIRONMENT_FAILURE |-> Toward("RETRY", "TESTING"),
                UNKNOWN             |-> Plain("ESCALATE")]

IsDeterministic(classifications) ==
  \E c \in DOMAIN TestRouting : classifications = {c}

DeterministicAction(classifications) ==
  TestRouting[CHOOSE c \in classifications : TRUE]

(***************************************************************************)
(* Routing of a failed deployment: always deterministic. "NONE" is a       *)
(* missing classification.                                                 *)
(***************************************************************************)
DeploymentClassifications ==
  {"CONFIGURATION_FAILURE", "PERMISSION_FAILURE", "BUILD_FAILURE",
   "PLATFORM_FAILURE", "HEALTH_CHECK_FAILURE", "NETWORK_FAILURE",
   "UNKNOWN", "NONE"}

DeploymentDeterministicAction(classification) ==
  CASE classification \in {"CONFIGURATION_FAILURE", "PLATFORM_FAILURE", "NETWORK_FAILURE"}
         -> Toward("RETRY", "DEPLOYMENT")
    [] classification \in {"BUILD_FAILURE", "HEALTH_CHECK_FAILURE"}
         -> Toward("RETRY", "CODEGEN")
    [] OTHER -> Plain("ESCALATE")

(***************************************************************************)
(* Remediation.                                                            *)
(***************************************************************************)
RemediationStrategies == {"CODE_FIX", "RETEST", "ARCHITECTURE_REVIEW",
                          "ROLLBACK", "ESCALATE", "NO_ACTION"}

\* STRATEGY_TARGET_AGENT, for the strategies that reopen a workflow.
EntryStage == [CODE_FIX            |-> "CODEGEN",
               RETEST              |-> "TESTING",
               ARCHITECTURE_REVIEW |-> "ARCHITECTURE"]

\* "supported": the resolution's risk is not HIGH, its root cause confidence
\* reaches the configured minimum and it names a supporting signal.
AuthorizedStrategy(strategy, supported) ==
  IF strategy \in DOMAIN EntryStage /\ supported THEN strategy
  ELSE IF strategy = "NO_ACTION" THEN "NO_ACTION" ELSE "ESCALATE"
=============================================================================
