------------------------------ MODULE Workflow ------------------------------
(***************************************************************************)
(* OrchestrationService: one workflow document driven through the stages   *)
(* of TransitionPolicy by any number of concurrent requests.               *)
(*                                                                         *)
(* An executor is one in-flight API request (/step, /run or a recovery     *)
(* call) on some instance of the control plane. Requests share nothing but *)
(* the repositories, so every await on a repository, on the clone or on an *)
(* agent is a place where another request may run: one action is the code  *)
(* between two such awaits. Every write of the workflow document is        *)
(* conditional on the version the request read (update_if_version); a lost *)
(* race raises VersionConflictError out of the request.                    *)
(*                                                                         *)
(* Source: app/orchestration/service.py, with the agents' common shape     *)
(* (app/agents/*.py), the repositories' version check and the workspace    *)
(* helpers of app/core/repo.py.                                            *)
(***************************************************************************)
EXTENDS Integers, Sequences, FiniteSets, TransitionPolicy

CONSTANTS
  Executors,        \* in-flight requests
  Instances,        \* instances of the service, each with its own local disk
  Host,             \* Host[e]: the instance that serves request e
  MaxRetries,       \* MaxRetries[s]: the retry budget of stage s (app/config.py)
  CallSizes,        \* steps a request may drive: 1 for /step, more for /run
  TestFailures,     \* classification sets a failed test run may report
  DeployFailures,   \* classifications a failed deployment may report
  Proposals,        \* decisions the orchestration LlmAgent may propose
  Resolutions,      \* incident resolutions that name this workflow
  Strategies,       \* strategies those resolutions may carry
  MaxCalls,         \* bound: requests issued
  MaxReopens,       \* bound: retries of a FAILED workflow
  MaxDisturbances   \* bound: aborted requests, restarts, lost clones, mirrored
                    \* verification statuses

ASSUME HostAssumption == Host \in [Executors -> Instances]
ASSUME BudgetAssumption == MaxRetries \in [AgentStages -> Nat]
ASSUME CallAssumption == CallSizes \subseteq Nat \ {0}
ASSUME InputAssumption ==
  /\ TestFailures \subseteq SUBSET TestClassifications
  /\ DeployFailures \subseteq DeploymentClassifications
  /\ Proposals \subseteq Decisions
  /\ Strategies \subseteq RemediationStrategies
ASSUME BoundAssumption == {MaxCalls, MaxReopens, MaxDisturbances} \subseteq Nat

VARIABLES
  wf,         \* the persisted WorkflowState
  execs,      \* the persisted AgentExecutions, in the order of started_at
  decisions,  \* the persisted Decisions
  pc,         \* pc[e]: where request e is
  seen,       \* seen[e]: the copy of the document request e works on
  work,       \* work[e]: the other locals of request e
  left,       \* left[e]: steps request e may still drive
  disk,       \* disk[i]: what the workspace on instance i holds
  live,       \* the code artifact Cloud Run serves (0: none of this workflow's)
  calls, disturbances   \* counters of the bounded events

vars == <<wf, execs, decisions, pc, seen, work, left, disk, live, calls, disturbances>>

(***************************************************************************)
(* Documents. An execution has at most one output artifact, so an          *)
(* execution's position in execs also names its artifact; artifact_ids and *)
(* execution_ids grow together and are one sequence. Of an artifact the    *)
(* model keeps what the orchestrator tells apart: the stage that made it,  *)
(* the input it was made from and, for a test or a deployment, the verdict.*)
(***************************************************************************)
NoDir == -1   \* the workspace directory does not exist; 0 is a fresh clone,
              \* n the tree last written by the codegen execution n

NoDecision == Plain("WAIT")   \* active_decision_id is None

\* remediation_outcome: written when a remediation completes, then mirrored
\* by the verification service.
Outcomes == {"none", "deployed_pending_verification", "verification_in_progress",
             "verified"}

Verdicts == {"none", "ok", "failed"}

\* A fresh document, as start_workflow creates it.
NewWorkflow(version) ==
  [version |-> version, status |-> "PENDING", stage |-> "PLANNING",
   artifacts |-> <<>>, active |-> NoDecision,
   retries |-> [s \in AgentStages |-> 0],
   resolutions |-> {}, outcome |-> "none", workspace |-> FALSE, reopens |-> 0]

NoWork == [stage |-> NoStage, input |-> 0, exec |-> 0, decision |-> NoDecision]

Recorded(doc) == {doc.artifacts[i] : i \in DOMAIN doc.artifacts}
IsTerminal(doc) == doc.status \in TerminalStatuses

Newest(k, S) == k \in S /\ \A j \in S : j <= k

\* The COMPLETED executions of a stage's agent.
CompletedRuns(stage) ==
  {k \in DOMAIN execs : execs[k].stage = stage /\ execs[k].status = "COMPLETED"}

InputOfAnyStage(doc, stage, a) ==   \* fault: does not look at the artifact type
  \/ doc.artifacts = <<>> /\ a = 0
  \/ \E i \in DOMAIN doc.artifacts : /\ Newest(i, DOMAIN doc.artifacts)
                                    /\ a = doc.artifacts[i]

\* _resolve_input_artifact_id: a is the newest recorded artifact of the type
\* the stage consumes, or 0 (None) when there is none.
IsInput(doc, stage, a) ==
  LET at == {i \in DOMAIN doc.artifacts :
               execs[doc.artifacts[i]].stage = InputStage[stage]}
  IN  \/ at = {} /\ a = 0
      \/ \E i \in at : Newest(i, at) /\ a = doc.artifacts[i]

(***************************************************************************)
(* The persistence primitive: the write of update_if_version and the race  *)
(* it refuses.                                                             *)
(***************************************************************************)
\* Fault: update() instead of update_if_version().
UpdateBlindly(e, doc) == wf' = [doc EXCEPT !.version = seen[e].version + 1]

UpdateIfVersion(e, doc) ==
  /\ wf.version = seen[e].version
  /\ wf' = [doc EXCEPT !.version = seen[e].version + 1]

Goto(e, label) == pc' = [pc EXCEPT ![e] = label]

\* The request leaves its step without a result: an exception.
Raise(e) ==
  /\ Goto(e, "idle")
  /\ seen' = [seen EXCEPT ![e] = NewWorkflow(0)]
  /\ work' = [work EXCEPT ![e] = NoWork]
  /\ left' = [left EXCEPT ![e] = 0]

ReturnForGood(e, doc) ==   \* fault: /run stops when the workflow is not terminal
  /\ Goto(e, "idle")
  /\ seen' = [seen EXCEPT ![e] = NewWorkflow(0)]
  /\ work' = [work EXCEPT ![e] = NoWork]
  /\ left' = [left EXCEPT ![e] = IF IsTerminal(doc) THEN @ - 1 ELSE 0]
  /\ UNCHANGED disk

\* The step returns doc: execute_next_step reclaims the workspace of a
\* terminal workflow, run_to_completion stops on it.
Return(e, doc) ==
  /\ Goto(e, "idle")
  /\ seen' = [seen EXCEPT ![e] = NewWorkflow(0)]
  /\ work' = [work EXCEPT ![e] = NoWork]
  /\ left' = [left EXCEPT ![e] = IF IsTerminal(doc) THEN 0 ELSE @ - 1]
  /\ disk' = IF IsTerminal(doc) THEN [disk EXCEPT ![Host[e]] = NoDir] ELSE disk

\* A conditional write after which the step returns.
Commit(e, doc) ==
  /\ UpdateIfVersion(e, doc)
  /\ Return(e, doc)
  /\ UNCHANGED <<execs, decisions, live, calls, disturbances>>

(***************************************************************************)
(* A request arrives and starts a step.                                    *)
(***************************************************************************)
Call(e, n) ==
  /\ pc[e] = "idle" /\ left[e] = 0
  /\ calls < MaxCalls
  /\ n > 1 => ~IsTerminal(wf)   \* run_to_completion looks before it steps
  /\ calls' = calls + 1
  /\ left' = [left EXCEPT ![e] = n]
  /\ UNCHANGED <<wf, execs, decisions, pc, seen, work, disk, live, disturbances>>

\* _run_next_step reads the document: a terminal one is returned as it is.
BeginTerminal(e) ==
  /\ pc[e] = "idle" /\ left[e] > 0
  /\ IsTerminal(wf)
  /\ Return(e, wf)
  /\ UNCHANGED <<wf, execs, decisions, live, calls, disturbances>>

\* A stage without an agent raises InvalidTransitionError.
BeginWithoutAgent(e) ==
  /\ pc[e] = "idle" /\ left[e] > 0
  /\ ~IsTerminal(wf) /\ wf.stage \notin AgentStages
  /\ Raise(e)
  /\ UNCHANGED <<wf, execs, decisions, disk, live, calls, disturbances>>

Begin(e) ==
  /\ pc[e] = "idle" /\ left[e] > 0
  /\ ~IsTerminal(wf) /\ wf.stage \in AgentStages
  /\ Goto(e, "reconcile")
  /\ seen' = [seen EXCEPT ![e] = wf]
  /\ work' = [work EXCEPT ![e].stage = wf.stage]
  /\ UNCHANGED <<wf, execs, decisions, left, disk, live, calls, disturbances>>

\* Where a stage's artifact is handled.
HandlerWithoutTestGate(stage) ==   \* fault: a test report advances like a plan
  IF stage = "DEPLOYMENT" THEN "evidence" ELSE "advance"

HandlerOf(stage) ==
  IF stage \in {"TESTING", "DEPLOYMENT"} THEN "evidence" ELSE "advance"

(***************************************************************************)
(* _reconcile_stage: adopt the artifact of the latest completed execution  *)
(* of the stage if the document does not record it, or run the stage.      *)
(***************************************************************************)
AdoptAgain(e) ==   \* fault: does not look whether the artifact is recorded
  /\ pc[e] = "reconcile"
  /\ \E k \in CompletedRuns(work[e].stage) :
       /\ Newest(k, CompletedRuns(work[e].stage))
       /\ work' = [work EXCEPT ![e].exec = k]
  /\ Goto(e, HandlerOf(work[e].stage))
  /\ UNCHANGED <<wf, execs, decisions, seen, left, disk, live, calls, disturbances>>

Adopt(e) ==
  /\ pc[e] = "reconcile"
  /\ \E k \in CompletedRuns(work[e].stage) :
       /\ Newest(k, CompletedRuns(work[e].stage))
       /\ k \notin Recorded(seen[e])
       /\ work' = [work EXCEPT ![e].exec = k]
  /\ Goto(e, HandlerOf(work[e].stage))
  /\ UNCHANGED <<wf, execs, decisions, seen, left, disk, live, calls, disturbances>>

NothingToReconcile(e) ==
  /\ pc[e] = "reconcile"
  /\ \A k \in CompletedRuns(work[e].stage) :
       Newest(k, CompletedRuns(work[e].stage)) => k \in Recorded(seen[e])

\* Deployment needs no workspace: the document read first is the one claimed.
SkipWorkspace(e) ==
  /\ NothingToReconcile(e)
  /\ work[e].stage \notin StagesRequiringWorkspace
  /\ \E a \in 0..Len(execs) :
       /\ IsInput(seen[e], work[e].stage, a)
       /\ work' = [work EXCEPT ![e].input = a]
  /\ Goto(e, "claim")
  /\ UNCHANGED <<wf, execs, decisions, seen, left, disk, live, calls, disturbances>>

(***************************************************************************)
(* _ensure_workspace: reuse the directory this instance has, or clone the  *)
(* repository over whatever is there and record the path, or fail.         *)
(***************************************************************************)
NeverHasWorkspace(e) == FALSE   \* fault: clones before every stage

HasWorkspace(e) == seen[e].workspace /\ disk[Host[e]] # NoDir

ReuseWorkspace(e) ==
  /\ NothingToReconcile(e)
  /\ work[e].stage \in StagesRequiringWorkspace
  /\ HasWorkspace(e)
  /\ Goto(e, "reread")
  /\ UNCHANGED <<wf, execs, decisions, seen, work, left, disk, live, calls, disturbances>>

CloneWorkspace(e) ==
  /\ NothingToReconcile(e)
  /\ work[e].stage \in StagesRequiringWorkspace
  /\ ~HasWorkspace(e)
  /\ disk' = [disk EXCEPT ![Host[e]] = 0]
  /\ \/ /\ UpdateIfVersion(e, [seen[e] EXCEPT !.workspace = TRUE])
        /\ Goto(e, "reread")
        /\ UNCHANGED <<seen, work, left>>
     \/ /\ wf.version # seen[e].version
        /\ Raise(e)
        /\ UNCHANGED wf
  /\ UNCHANGED <<execs, decisions, live, calls, disturbances>>

\* A clone that git refuses fails the workflow; one that is killed after its
\* two minutes raises and leaves the directory behind.
CloneFails(e) ==
  /\ NothingToReconcile(e)
  /\ work[e].stage \in StagesRequiringWorkspace
  /\ ~HasWorkspace(e)
  /\ disturbances < MaxDisturbances
  /\ disturbances' = disturbances + 1
  /\ \/ /\ disk' = [disk EXCEPT ![Host[e]] = NoDir]
        /\ Goto(e, "fail")
        /\ UNCHANGED <<seen, work, left>>
     \/ /\ disk' = [disk EXCEPT ![Host[e]] = 0]
        /\ Raise(e)
  /\ UNCHANGED <<wf, execs, decisions, live, calls>>

\* The document is read again, without looking at its stage or its status:
\* work[e].stage stays the stage of the first read.
Reread(e) ==
  /\ pc[e] = "reread"
  /\ seen' = [seen EXCEPT ![e] = wf]
  /\ \E a \in 0..Len(execs) :
       /\ IsInput(wf, work[e].stage, a)
       /\ work' = [work EXCEPT ![e].input = a]
  /\ Goto(e, "claim")
  /\ UNCHANGED <<wf, execs, decisions, left, disk, live, calls, disturbances>>

(***************************************************************************)
(* The document is marked RUNNING and the agent is executed. An agent      *)
(* persists a RUNNING execution first, and its artifact before the         *)
(* execution turns COMPLETED: nothing looks at an artifact that no         *)
(* completed execution names, so the two are one step here.                *)
(***************************************************************************)
Claim(e) ==
  /\ pc[e] = "claim"
  /\ LET doc == [seen[e] EXCEPT !.status = "RUNNING"]
     IN  /\ UpdateIfVersion(e, doc)
         /\ seen' = [seen EXCEPT ![e] = wf']
  /\ Goto(e, "start")
  /\ UNCHANGED <<execs, decisions, work, left, disk, live, calls, disturbances>>

StartExecution(e) ==
  /\ pc[e] = "start"
  /\ execs' = Append(execs, [stage |-> work[e].stage, input |-> work[e].input,
                             status |-> "RUNNING", verdict |-> "none",
                             failures |-> {}, tree |-> NoDir])
  /\ work' = [work EXCEPT ![e].exec = Len(execs) + 1]
  /\ Goto(e, "run")
  /\ UNCHANGED <<wf, decisions, seen, left, disk, live, calls, disturbances>>

\* Every agent but Planning refuses to run without its input artifact.
HasInput(e) == InputStage[work[e].stage] # NoStage => work[e].input # 0

\* What the agent reports: its verdict and the failures it classified.
Reports(stage) ==
  CASE stage = "TESTING"    -> {<<"ok", {}>>} \cup {<<"failed", f>> : f \in TestFailures}
    [] stage = "DEPLOYMENT" -> {<<"ok", {}>>} \cup {<<"failed", {f}>> : f \in DeployFailures}
    [] OTHER                -> {<<"ok", {}>>}

\* What an agent that did not finish may still have done: codegen wrote into
\* the workspace, a deployment went through.
PartialEffect(e) ==
  \/ UNCHANGED <<disk, live>>
  \/ /\ work[e].stage = "CODEGEN"
     /\ disk' = [disk EXCEPT ![Host[e]] = work[e].exec]
     /\ UNCHANGED live
  \/ /\ work[e].stage = "DEPLOYMENT"
     /\ live' = work[e].input
     /\ UNCHANGED disk

FinishExecution(e) ==
  /\ pc[e] = "run"
  /\ HasInput(e)
  /\ \E report \in Reports(work[e].stage) :
       /\ execs' = [execs EXCEPT ![work[e].exec] =
                      [@ EXCEPT !.status = "COMPLETED", !.verdict = report[1],
                                !.failures = report[2], !.tree = disk[Host[e]]]]
       /\ IF work[e].stage = "DEPLOYMENT" /\ report[1] = "ok"
            THEN live' = work[e].input /\ UNCHANGED disk
          ELSE IF work[e].stage = "CODEGEN"
            THEN disk' = [disk EXCEPT ![Host[e]] = work[e].exec] /\ UNCHANGED live
          ELSE PartialEffect(e)
  /\ Goto(e, HandlerOf(work[e].stage))
  /\ UNCHANGED <<wf, decisions, seen, work, left, calls, disturbances>>

FailExecution(e) ==
  /\ pc[e] = "run"
  /\ execs' = [execs EXCEPT ![work[e].exec] = [@ EXCEPT !.status = "FAILED"]]
  /\ IF HasInput(e) THEN PartialEffect(e) ELSE UNCHANGED <<disk, live>>
  /\ Goto(e, "fail")
  /\ UNCHANGED <<wf, decisions, seen, work, left, calls, disturbances>>

\* _fail_workflow
FailWorkflow(e) ==
  /\ pc[e] = "fail"
  /\ Commit(e, [seen[e] EXCEPT !.status = "FAILED"])

AdvanceWhateverHappened(e) ==   \* fault: reads again before it writes
  /\ pc[e] = "advance"
  /\ LET next == NextStage[wf.stage]
     IN  wf' = [wf EXCEPT !.version = @ + 1,
                          !.status = IF next \in AgentStages THEN "PENDING" ELSE "COMPLETED",
                          !.stage = next,
                          !.artifacts = Append(@, work[e].exec)]
  /\ Return(e, wf')
  /\ UNCHANGED <<execs, decisions, live, calls, disturbances>>

\* _advance_to_next_stage: the next stage is the one after the stage of the
\* copy in hand, whatever stage the artifact is of.
AdvanceToNextStage(e) ==
  /\ pc[e] = "advance"
  /\ LET next == NextStage[seen[e].stage]
     IN  Commit(e, [seen[e] EXCEPT
                      !.status = IF next \in AgentStages THEN "PENDING" ELSE "COMPLETED",
                      !.stage = next,
                      !.artifacts = Append(@, work[e].exec)])

(***************************************************************************)
(* A test or a deployment: the evidence is recorded first, then a decision *)
(* is proposed, validated against a fresh read, recorded and executed.     *)
(***************************************************************************)
RecordEvidence(e) ==
  /\ pc[e] = "evidence"
  /\ UpdateIfVersion(e, [seen[e] EXCEPT !.artifacts = Append(@, work[e].exec)])
  /\ seen' = [seen EXCEPT ![e] = wf']
  /\ Goto(e, "decide")
  /\ UNCHANGED <<execs, decisions, work, left, disk, live, calls, disturbances>>

\* The decisions _handle_testing_result and _handle_deployment_result may hand
\* to handle_decision. The decision agent falls back to ESCALATE.
\* Fault: a failed deployment is waved through.
ProposedAfterAnyDeployment(e) ==
  IF work[e].stage = "DEPLOYMENT" THEN {Plain("CONTINUE")}
  ELSE {Plain(IF execs[work[e].exec].verdict = "ok" THEN "CONTINUE" ELSE "ESCALATE")}

ProposedDecisions(e) ==
  LET run == execs[work[e].exec]
  IN  IF run.verdict = "ok" THEN {Plain("CONTINUE")}
      ELSE IF work[e].stage = "DEPLOYMENT"
        THEN {DeploymentDeterministicAction(f) : f \in run.failures}
      ELSE IF IsDeterministic(run.failures)
        THEN {DeterministicAction(run.failures)}
      ELSE Proposals \cup {Plain("ESCALATE")}

\* _check_retry_budget passes.
WithinBudgetOrOneMore(doc, d) ==   \* fault: > for >=
  doc.retries[d.target] <= MaxRetries[d.target]

WithinBudget(doc, d) == doc.retries[d.target] < MaxRetries[d.target]

AcceptableAnywhere(doc, d) ==   \* fault: forgets can_transition
  IsRetry(d) => d.target \in AgentStages /\ WithinBudget(doc, d)

Acceptable(doc, d) ==
  /\ CanTransition(doc.stage, d)
  /\ IsRetry(d) => WithinBudget(doc, d)

\* handle_decision up to decision_repo.save
HandleDecision(e) ==
  /\ pc[e] = "decide"
  /\ \E proposed \in ProposedDecisions(e) :
       LET decision == IF Acceptable(wf, proposed) THEN proposed ELSE Plain("ESCALATE")
       IN  /\ decisions' = decisions \cup {decision}
           /\ work' = [work EXCEPT ![e].decision = decision]
  /\ seen' = [seen EXCEPT ![e] = wf]
  /\ Goto(e, "record")
  /\ UNCHANGED <<wf, execs, left, disk, live, calls, disturbances>>

RecordFirstDecision(e) ==   \* fault: keeps the decision that is already there
  /\ pc[e] = "record"
  /\ UpdateIfVersion(e, [seen[e] EXCEPT !.active = IF @ = NoDecision THEN work[e].decision
                                                   ELSE @])
  /\ seen' = [seen EXCEPT ![e] = wf']
  /\ Goto(e, "execute")
  /\ UNCHANGED <<execs, decisions, work, left, disk, live, calls, disturbances>>

RecordDecision(e) ==
  /\ pc[e] = "record"
  /\ UpdateIfVersion(e, [seen[e] EXCEPT !.active = work[e].decision])
  /\ seen' = [seen EXCEPT ![e] = wf']
  /\ Goto(e, "execute")
  /\ UNCHANGED <<execs, decisions, work, left, disk, live, calls, disturbances>>

\* The document after a decision is executed.
Decided(doc, d) ==
  CASE d.action = "CONTINUE" /\ NextStage[doc.stage] \in AgentStages
         -> [doc EXCEPT !.status = "PENDING", !.stage = NextStage[doc.stage]]
    [] d.action = "CONTINUE" /\ NextStage[doc.stage] \notin AgentStages
         -> [doc EXCEPT !.status = "COMPLETED", !.stage = "COMPLETED",
                        !.outcome = IF doc.resolutions # {}
                                    THEN "deployed_pending_verification" ELSE @]
    [] d.action = "COMPLETE"
         -> [doc EXCEPT !.status = "COMPLETED", !.stage = "COMPLETED"]
    [] IsRetry(d)
         -> [doc EXCEPT !.status = "PENDING", !.stage = d.target,
                        !.retries[d.target] = @ + 1]
    [] d.action = "FAIL" -> [doc EXCEPT !.status = "FAILED"]
    [] OTHER             -> [doc EXCEPT !.status = "ESCALATED"]

ExecuteDecision(e) ==
  /\ pc[e] = "execute"
  /\ Commit(e, Decided(seen[e], work[e].decision))

\* The labels at which a request is about to write the document.
Writing == {"claim", "fail", "advance", "evidence", "record", "execute"}

VersionConflict(e) ==
  /\ pc[e] \in Writing
  /\ wf.version # seen[e].version
  /\ Raise(e)
  /\ UNCHANGED <<wf, execs, decisions, disk, live, calls, disturbances>>

(***************************************************************************)
(* Failures: a request ends with an exception at any await, or a whole     *)
(* instance goes away with its requests and its disk.                      *)
(***************************************************************************)
Abort(e) ==
  /\ pc[e] # "idle"
  /\ disturbances < MaxDisturbances
  /\ disturbances' = disturbances + 1
  /\ Raise(e)
  /\ IF pc[e] = "run" /\ HasInput(e) THEN PartialEffect(e) ELSE UNCHANGED <<disk, live>>
  /\ UNCHANGED <<wf, execs, decisions, calls>>

Restart(i) ==
  LET gone == {e \in Executors : Host[e] = i}
  IN  /\ \E e \in gone : left[e] > 0
      /\ disturbances < MaxDisturbances
      /\ disturbances' = disturbances + 1
      /\ pc' = [e \in Executors |-> IF e \in gone THEN "idle" ELSE pc[e]]
      /\ seen' = [e \in Executors |-> IF e \in gone THEN NewWorkflow(0) ELSE seen[e]]
      /\ work' = [e \in Executors |-> IF e \in gone THEN NoWork ELSE work[e]]
      /\ left' = [e \in Executors |-> IF e \in gone THEN 0 ELSE left[e]]
      /\ disk' = [disk EXCEPT ![i] = NoDir]
      /\ \/ UNCHANGED live
         \/ \E e \in gone : /\ pc[e] = "run" /\ work[e].stage = "DEPLOYMENT"
                            /\ work[e].input # 0
                            /\ live' = work[e].input
      /\ UNCHANGED <<wf, execs, decisions, calls>>

(***************************************************************************)
(* The other writers of the document. Each reads it and writes it back     *)
(* under the version check; a lost race leaves it alone, so one step each. *)
(***************************************************************************)
Rewrite(doc) ==
  /\ wf' = [doc EXCEPT !.version = wf.version + 1]
  /\ UNCHANGED <<execs, decisions, pc, seen, work, left, disk, live, calls>>

\* retry_failed_workflow
RetryFailedWorkflow ==
  /\ wf.status = "FAILED"
  /\ wf.reopens < MaxReopens
  /\ Rewrite([wf EXCEPT !.status = "PENDING", !.reopens = @ + 1])
  /\ UNCHANGED disturbances

\* start_remediation_from_resolution: a resolution acts once, and only on a
\* completed workflow.
StartRemediation(r, strategy, supported) ==
  LET authorized == AuthorizedStrategy(strategy, supported)
      actioned == [wf EXCEPT !.resolutions = @ \cup {r}]
  IN  /\ r \notin wf.resolutions
      /\ wf.status = "COMPLETED"
      /\ CASE authorized = "ESCALATE" -> Rewrite([actioned EXCEPT !.status = "ESCALATED"])
           [] authorized = "NO_ACTION" -> Rewrite(actioned)
           [] OTHER -> Rewrite([actioned EXCEPT !.status = "PENDING",
                                                !.stage = EntryStage[authorized]])
      /\ UNCHANGED disturbances

\* RemediationVerificationService mirrors its status onto a workflow that has
\* deployed.
MirrorVerification(outcome) ==
  /\ \E k \in Recorded(wf) : execs[k].stage = "DEPLOYMENT"
  /\ disturbances < MaxDisturbances
  /\ disturbances' = disturbances + 1
  /\ Rewrite([wf EXCEPT !.outcome = outcome])

(***************************************************************************)
(* The specification.                                                      *)
(***************************************************************************)
Init ==
  /\ wf = NewWorkflow(1)
  /\ execs = <<>>
  /\ decisions = {}
  /\ pc = [e \in Executors |-> "idle"]
  /\ seen = [e \in Executors |-> NewWorkflow(0)]
  /\ work = [e \in Executors |-> NoWork]
  /\ left = [e \in Executors |-> 0]
  /\ disk = [i \in Instances |-> NoDir]
  /\ live = 0
  /\ calls = 0
  /\ disturbances = 0

Step(e) ==
  \/ BeginTerminal(e) \/ BeginWithoutAgent(e) \/ Begin(e)
  \/ Adopt(e)
  \/ SkipWorkspace(e) \/ ReuseWorkspace(e) \/ CloneWorkspace(e) \/ CloneFails(e)
  \/ Reread(e)
  \/ Claim(e) \/ StartExecution(e) \/ FinishExecution(e) \/ FailExecution(e)
  \/ FailWorkflow(e) \/ AdvanceToNextStage(e)
  \/ RecordEvidence(e) \/ HandleDecision(e) \/ RecordDecision(e) \/ ExecuteDecision(e)
  \/ VersionConflict(e)

Environment ==
  \/ \E e \in Executors, n \in CallSizes : Call(e, n)
  \/ \E e \in Executors : Abort(e)
  \/ \E i \in Instances : Restart(i)
  \/ RetryFailedWorkflow
  \/ \E r \in Resolutions, s \in Strategies, supported \in BOOLEAN :
       StartRemediation(r, s, supported)
  \/ \E outcome \in {"verification_in_progress", "verified"} : MirrorVerification(outcome)

Next == Environment \/ \E e \in Executors : Step(e)

Spec == Init /\ [][Next]_vars

\* A request that is being served keeps running; nobody has to send one.
FairSpec == Spec /\ \A e \in Executors : WF_vars(Step(e))

(***************************************************************************)
(* Correctness.                                                            *)
(***************************************************************************)
Documents ==
  [version : Nat, status : WorkflowStatuses, stage : WorkflowStages,
   artifacts : Seq(Nat), active : Decisions, retries : [AgentStages -> Nat],
   resolutions : SUBSET Resolutions, outcome : Outcomes,
   workspace : BOOLEAN, reopens : Nat]

Executions ==
  [stage : AgentStages, input : Nat, status : {"RUNNING", "COMPLETED", "FAILED"},
   verdict : Verdicts, failures : SUBSET (TestClassifications \cup DeploymentClassifications),
   tree : Int]

Labels == Writing \cup {"idle", "reconcile", "reread", "start", "run", "decide"}

\* Every variable keeps its type: in particular a workflow never gets a status
\* or a stage that the orchestrator does not know how to continue from.
TypeOK ==
  /\ wf \in Documents
  /\ execs \in Seq(Executions)
  /\ decisions \subseteq Decisions
  /\ pc \in [Executors -> Labels]
  /\ seen \in [Executors -> Documents]
  /\ work \in [Executors -> [stage : AgentStages \cup {NoStage}, input : Nat,
                             exec : Nat, decision : Decisions]]
  /\ left \in [Executors -> Nat]
  /\ disk \in [Instances -> Int]
  /\ live \in Nat
  /\ calls \in Nat /\ disturbances \in Nat

\* However requests race, abort and retry, no stage is retried by decision more
\* often than its budget allows (_check_retry_budget): the counter that is
\* checked before an LLM call is the one that is written after it.
RetryBudget == \A s \in AgentStages : wf.retries[s] <= MaxRetries[s]

Completed(k) == k \in DOMAIN execs /\ execs[k].status = "COMPLETED"

\* An artifact enters the workflow's evidence at most once, and only when the
\* agent execution that made it is durably COMPLETED: adopting an orphan
\* (_reconcile_stage) and recording a live result never both happen.
EvidenceSound ==
  /\ \A i, j \in DOMAIN wf.artifacts : wf.artifacts[i] = wf.artifacts[j] => i = j
  /\ \A k \in Recorded(wf) : Completed(k)

\* The version names the contents: a request whose copy carries the current
\* version works on the current document, and what any copy records is durable.
CopyOK(e) ==
  /\ seen[e].version <= wf.version
  /\ seen[e].version = wf.version => seen[e] = wf
  /\ \A k \in Recorded(seen[e]) : Completed(k)

\* What a request has established when it reaches a label: its execution is
\* running, or it is completed and new to the copy in hand, or its decision was
\* validated against the copy in hand.
LocalsOK(e) ==
  /\ pc[e] # "idle" => left[e] > 0 /\ work[e].stage \in AgentStages
  /\ pc[e] = "run" => /\ work[e].exec \in DOMAIN execs
                      /\ execs[work[e].exec].status = "RUNNING"
  /\ pc[e] \in {"advance", "evidence"} => /\ Completed(work[e].exec)
                                          /\ work[e].exec \notin Recorded(seen[e])
  /\ pc[e] = "decide" => work[e].exec \in DOMAIN execs
  /\ pc[e] \in {"record", "execute"} => Acceptable(seen[e], work[e].decision)

\* No two requests run the same execution.
OneRunner ==
  \A e, f \in Executors :
    pc[e] = "run" /\ pc[f] = "run" /\ work[e].exec = work[f].exec => e = f

\* The inductive invariant: it says why two requests that interleave at any of
\* their awaits can neither record an artifact twice nor overrun a budget.
IInv ==
  /\ TypeOK
  /\ wf.version > 0
  /\ \A e \in Executors : CopyOK(e) /\ LocalsOK(e)
  /\ OneRunner
  /\ EvidenceSound
  /\ RetryBudget

LosesNothing ==
  /\ Len(wf.artifacts) <= Len(wf'.artifacts)
  /\ SubSeq(wf'.artifacts, 1, Len(wf.artifacts)) = wf.artifacts
  /\ wf.resolutions \subseteq wf'.resolutions
  /\ \A s \in AgentStages : wf.retries[s] <= wf'.retries[s]

\* No writer loses what another one wrote (update_if_version): evidence is only
\* ever appended, resolutions stay actioned and retries stay counted.
NothingLost == [][LosesNothing]_vars

LegalMove ==
  wf'.stage # wf.stage =>
    \/ wf'.stage = NextStage[wf.stage]
    \/ wf'.stage = "COMPLETED"
    \/ /\ wf'.stage \in AllowedRetryTargets[wf.stage]
       /\ wf'.retries[wf'.stage] = wf.retries[wf'.stage] + 1
    \/ /\ wf.status = "COMPLETED"
       /\ wf.resolutions # wf'.resolutions

\* The stage only moves along the transition policy, judged from the stage the
\* document is in when it moves, not from the one a slow request started in:
\* one stage ahead, to COMPLETED, back by a counted retry that the policy
\* allows, or into a remediation's entry stage from COMPLETED.
StageMovesLegal == [][LegalMove]_vars

\* A workflow that stopped for a human points at the decision that says why
\* (active_decision_id), unless it had completed and a resolution's strategy
\* escalated it: that path records no decision of its own.
EscalationExplained ==
  wf.status = "ESCALATED" => wf.active.action = "ESCALATE" \/ wf.stage = "COMPLETED"

LeftByHand ==
  IsTerminal(wf) /\ wf'.status # wf.status =>
    \/ wf.status = "FAILED" /\ wf'.reopens > wf.reopens
    \/ /\ wf.status = "COMPLETED"
       /\ wf.resolutions \subseteq wf'.resolutions
       /\ wf.resolutions # wf'.resolutions

\* What a stopped workflow would need: its status is left in two ways only, a
\* FAILED workflow is retried by hand and a COMPLETED one reopened or escalated
\* by a resolution it has not acted on before. Two requests break it
\* (MCWorkflowRevive), in the ways that ResultsReviveNothing allows.
TerminalStable == [][LeftByHand]_vars

LeftKnowingly ==
  LeftByHand \/ \E e \in Executors :
    /\ pc'[e] # pc[e]
    /\ \/ pc[e] = "claim" /\ work[e].stage \in StagesRequiringWorkspace
       \/ pc[e] = "execute" /\ wf.active = work[e].decision

\* However requests race, a stopped workflow runs again only by hand, by a new
\* resolution, or by a request that has read it since it stopped: by the second
\* read of _run_next_step, or by a decision that is already its active one,
\* neither of which looks at the status. What a request does on an older read
\* (an agent's result, an adopted artifact, a failed clone) never revives it,
\* nor does a mirrored verification status.
ResultsReviveNothing == [][LeftKnowingly]_vars

Escalates ==
  wf'.status = "ESCALATED" /\ wf.status # "ESCALATED" =>
    \/ wf.active.action = "ESCALATE" /\ wf.active \in decisions
    \/ wf.resolutions # wf'.resolutions

\* A workflow is escalated by the decision that is its active one at that
\* moment, and that decision is on record, however many requests decide and
\* die between recording a decision and executing it; or by a resolution,
\* which records no decision of its own. (EscalationExplained also says that it
\* stays so, which another request may undo by recording its own decision.)
EscalationsRecorded == [][Escalates]_vars

\* The failures of a test run that the table does not decide.
LeftToAgent(k) ==
  execs[k].stage = "TESTING" /\ ~IsDeterministic(execs[k].failures)

MovesOn ==
  /\ wf'.stage \in {NextStage[wf.stage], "COMPLETED"} \ {wf.stage}
  /\ wf'.resolutions = wf.resolutions

BacksMove(e, k) ==
  \/ /\ pc[e] = "advance"
     /\ execs[k].stage \notin {"TESTING", "DEPLOYMENT"}
     /\ execs[k].verdict = "ok" /\ k \notin Recorded(wf)
  \/ /\ pc[e] = "execute"
     /\ execs[k].stage \in {"TESTING", "DEPLOYMENT"}
     /\ wf.active = work[e].decision /\ wf.active \in decisions
     /\ \/ execs[k].verdict = "ok"
        \/ LeftToAgent(k) /\ wf.active \in Proposals

EvidenceMovesIt ==
  MovesOn => \E e \in Executors :
    /\ pc'[e] # pc[e]
    /\ Completed(work[e].exec) /\ work[e].exec \in Recorded(wf')
    /\ BacksMove(e, work[e].exec)

\* However requests race, die and adopt each other's results, a workflow is
\* moved on, or completed, only by a request that holds a completed execution
\* the document records: a plan, a design or a code change recorded with that
\* very write, or a test or a deployment recorded before its decision. The
\* decision is on record and active, and follows a passed run; after failed
\* tests it is the decision agent's own proposal, which was asked only because
\* the table does not decide; a failed deployment moves nothing on. That the
\* execution is of the stage that is passed is not promised (MCWorkflowSkip).
MovedOnByEvidence == [][EvidenceMovesIt]_vars

\* Whatever was recorded out of order, adopted, repeated or lost, every
\* execution worked from a recorded artifact of the stage before it, made
\* earlier, and none completed without; and what is live was given to a
\* deployment whose execution exists, even if the request died before its end.
Provenance ==
  /\ \A k \in DOMAIN execs :
       /\ Completed(k) /\ InputStage[execs[k].stage] # NoStage => execs[k].input # 0
       /\ execs[k].input # 0 =>
            /\ execs[k].input \in Recorded(wf) /\ execs[k].input < k
            /\ execs[execs[k].input].stage = InputStage[execs[k].stage]
  /\ live # 0 => \E k \in DOMAIN execs :
                    execs[k].stage = "DEPLOYMENT" /\ execs[k].input = live

\* The code that Cloud Run serves has passed a test run of its own, whatever
\* crashed or was retried on the way there: the verdict of Testing gates
\* whether Deployment runs at all.
LiveIsTested ==
  live # 0 => \E k \in DOMAIN execs : /\ execs[k].stage = "TESTING"
                                      /\ execs[k].status = "COMPLETED"
                                      /\ execs[k].verdict = "ok"
                                      /\ execs[k].input = live

\* A COMPLETED workflow has recorded a deployment that succeeded, the latest
\* one it recorded, and what is live is what that deployment was given.
CompletedIsDeployed ==
  wf.status = "COMPLETED" =>
    LET at == {i \in DOMAIN wf.artifacts : execs[wf.artifacts[i]].stage = "DEPLOYMENT"}
    IN  \E i \in at : /\ Newest(i, at)
                      /\ execs[wf.artifacts[i]].verdict = "ok"
                      /\ live = execs[wf.artifacts[i]].input

\* A test run that passes has run on the tree that holds the very code change
\* it was given, not on some other checkout.
TestedTree ==
  \A k \in DOMAIN execs :
    execs[k].stage = "TESTING" /\ execs[k].verdict = "ok" => execs[k].tree = execs[k].input

PassedFirst ==
  wf.stage = "TESTING" /\ wf'.stage = "DEPLOYMENT" =>
    LET at == {i \in DOMAIN wf.artifacts : execs[wf.artifacts[i]].stage = "TESTING"}
    IN  \E i \in at : Newest(i, at) /\ execs[wf.artifacts[i]].verdict = "ok"

\* Testing leads to Deployment only through a test run that passed
\* (incident_remediation.md: "only ever happens via _handle_testing_result()'s
\* overall_status == passed check, never the model's claim").
TestingGate == [][PassedFirst]_vars

\* One /run of RunSteps steps brings the workflow to a terminal status: the
\* iteration cap never strands a workflow whose retries are within budget.
RunSteps == 20
RunEndsWorkflow ==
  \A e \in Executors : (left[e] = RunSteps) ~> IsTerminal(wf)
=============================================================================
