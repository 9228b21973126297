--------------------------- MODULE WorkflowProofs ---------------------------
EXTENDS Workflow, TLAPS

(***************************************************************************)
(* The transition policy only names stages and decisions that exist.       *)
(***************************************************************************)
LEMMA NextStageType ==
  ASSUME NEW s \in WorkflowStages
  PROVE  NextStage[s] \in WorkflowStages /\ (NextStage[s] \notin AgentStages => NextStage[s] = "COMPLETED")
  BY DEF NextStage, WorkflowStages, AgentStages

LEMMA RetryTargetsType ==
  ASSUME NEW s \in WorkflowStages, NEW d, CanTransition(s, d), IsRetry(d)
  PROVE  d.target \in AgentStages /\ d.target \in AllowedRetryTargets[s]
  BY DEF CanTransition, IsRetry, AllowedRetryTargets, WorkflowStages, AgentStages

LEMMA PlainType ==
  ASSUME NEW a \in DecisionActions
  PROVE  Plain(a) \in Decisions
  BY DEF Plain, Decisions, Targets

LEMMA EntryStageType ==
  ASSUME NEW s \in RemediationStrategies, NEW b \in BOOLEAN,
         AuthorizedStrategy(s, b) \notin {"ESCALATE", "NO_ACTION"}
  PROVE  EntryStage[AuthorizedStrategy(s, b)] \in AgentStages
  BY DEF AuthorizedStrategy, EntryStage, AgentStages, RemediationStrategies

LEMMA RoutedDecisionType ==
  /\ \A c : DeploymentDeterministicAction(c) \in Decisions
  /\ \A f : IsDeterministic(f) => DeterministicAction(f) \in Decisions
<1>1. \A c : DeploymentDeterministicAction(c) \in Decisions
  BY DEF DeploymentDeterministicAction, Decisions, Toward, Plain, Targets,
         DecisionActions, AgentStages, NoStage
<1>2. \A f : IsDeterministic(f) => DeterministicAction(f) \in Decisions
  BY DEF DeterministicAction, IsDeterministic, TestRouting, Decisions, Toward,
         Plain, Targets, DecisionActions, AgentStages, NoStage
<1> QED
  BY <1>1, <1>2

LEMMA ProposedDecisionsType ==
  ASSUME NEW e \in Executors
  PROVE  ProposedDecisions(e) \subseteq Decisions
  BY RoutedDecisionType, PlainType, InputAssumption
     DEF ProposedDecisions, DecisionActions

(***************************************************************************)
(* Documents and the versioned write.                                      *)
(***************************************************************************)
LEMMA DocumentFields ==
  ASSUME NEW doc \in Documents
  PROVE  /\ doc.version \in Nat /\ doc.status \in WorkflowStatuses
         /\ doc.stage \in WorkflowStages /\ doc.artifacts \in Seq(Nat)
         /\ doc.active \in Decisions /\ doc.retries \in [AgentStages -> Nat]
         /\ doc.resolutions \in SUBSET Resolutions /\ doc.outcome \in Outcomes
         /\ doc.workspace \in BOOLEAN /\ doc.reopens \in Nat
  BY DEF Documents

LEMMA VersionType ==
  ASSUME NEW doc \in Documents, NEW v \in Nat
  PROVE  [doc EXCEPT !.version = v + 1] \in Documents
<1>1. v + 1 \in Nat
  OBVIOUS
<1> QED
  BY <1>1 DEF Documents

LEMMA UpdateType ==
  ASSUME NEW e, seen[e] \in Documents, NEW doc \in Documents, UpdateIfVersion(e, doc)
  PROVE  wf' \in Documents
  BY DocumentFields, VersionType DEF UpdateIfVersion

LEMMA RewriteType ==
  ASSUME TypeOK, NEW doc \in Documents, Rewrite(doc),
         disturbances' \in Nat
  PROVE  TypeOK'
<1>1. wf' \in Documents
  BY DocumentFields, VersionType DEF Rewrite, TypeOK
<1> QED
  BY <1>1 DEF Rewrite, TypeOK

LEMMA LocalTypes ==
  ASSUME TypeOK, NEW e \in Executors
  PROVE  /\ seen[e] \in Documents
         /\ work[e].stage \in AgentStages \cup {NoStage} /\ work[e].input \in Nat
         /\ work[e].exec \in Nat /\ work[e].decision \in Decisions
         /\ disk[Host[e]] \in Int
  BY HostAssumption DEF TypeOK

(***************************************************************************)
(* What executing a decision does to a document.                           *)
(***************************************************************************)
LEMMA DecidedType ==
  ASSUME NEW doc \in Documents, NEW d \in Decisions, Acceptable(doc, d)
  PROVE  Decided(doc, d) \in Documents
<1>1. NextStage[doc.stage] \in WorkflowStages
  BY NextStageType DEF Documents
<1>2. CASE IsRetry(d)
  <2>1. d.target \in AgentStages
    BY <1>2, RetryTargetsType DEF Acceptable, Documents
  <2>2. Decided(doc, d) = [doc EXCEPT !.status = "PENDING", !.stage = d.target,
                                     !.retries[d.target] = @ + 1]
    BY <1>2 DEF Decided, IsRetry
  <2>3. [doc.retries EXCEPT ![d.target] = @ + 1] \in [AgentStages -> Nat]
    BY <2>1 DEF Documents
  <2>4. Decided(doc, d) = [doc EXCEPT !.status = "PENDING", !.stage = d.target,
                !.retries = [doc.retries EXCEPT ![d.target] = @ + 1]]
    BY <2>2
  <2> QED
    BY <2>1, <2>3, <2>4 DEF Documents, WorkflowStatuses, WorkflowStages
<1>3. CASE ~IsRetry(d)
  BY <1>1, <1>3 DEF Decided, Documents, WorkflowStatuses, WorkflowStages, Outcomes, IsRetry
<1> QED
  BY <1>2, <1>3

(***************************************************************************)
(* Every step keeps the types.                                             *)
(***************************************************************************)
LEMMA FreshType ==
  /\ NewWorkflow(0) \in Documents /\ NewWorkflow(1) \in Documents
  /\ NoWork \in [stage : AgentStages \cup {NoStage}, input : Nat,
                 exec : Nat, decision : Decisions]
<1>1. NoDecision \in Decisions
  BY PlainType DEF NoDecision, DecisionActions
<1> QED
  BY <1>1 DEF NewWorkflow, Documents, NoWork, WorkflowStatuses, WorkflowStages, AgentStages, Outcomes

Locals == [stage : AgentStages \cup {NoStage}, input : Nat, exec : Nat, decision : Decisions]

LEMMA RaiseType ==
  ASSUME TypeOK, NEW e \in Executors, Raise(e)
  PROVE  /\ pc' \in [Executors -> Labels]
         /\ seen' \in [Executors -> Documents]
         /\ work' \in [Executors -> Locals]
         /\ left' \in [Executors -> Nat]
  BY FreshType DEF TypeOK, Raise, Goto, Labels, Locals

LEMMA ReturnType ==
  ASSUME TypeOK, NEW e \in Executors, LocalsOK(e), left[e] > 0, NEW doc \in Documents, Return(e, doc)
  PROVE  /\ pc' \in [Executors -> Labels]
         /\ seen' \in [Executors -> Documents]
         /\ work' \in [Executors -> Locals]
         /\ left' \in [Executors -> Nat]
         /\ disk' \in [Instances -> Int]
<1>1. /\ pc' \in [Executors -> Labels]
      /\ seen' \in [Executors -> Documents]
      /\ work' \in [Executors -> Locals]
  BY FreshType DEF TypeOK, Return, Goto, Labels, Locals
<1>2. left' \in [Executors -> Nat]
  <2>1. left[e] - 1 \in Nat
    BY DEF TypeOK
  <2> QED
    BY <2>1 DEF TypeOK, Return
<1>3. disk' \in [Instances -> Int]
  <2>1. [disk EXCEPT ![Host[e]] = NoDir] \in [Instances -> Int]
    BY HostAssumption DEF TypeOK, NoDir
  <2>2. disk' = [disk EXCEPT ![Host[e]] = NoDir] \/ disk' = disk
    BY DEF Return
  <2> QED
    BY <2>1, <2>2 DEF TypeOK
<1> QED
  BY <1>1, <1>2, <1>3

LEMMA CommitType ==
  ASSUME TypeOK, NEW e \in Executors, LocalsOK(e), pc[e] # "idle", NEW doc \in Documents, Commit(e, doc)
  PROVE  TypeOK'
<1>1. left[e] > 0
  BY DEF LocalsOK
<1>2. wf' \in Documents
  BY UpdateType, LocalTypes DEF Commit
<1> QED
  BY <1>1, <1>2, ReturnType DEF Commit, TypeOK, Locals

LEMMA PartialEffectType ==
  ASSUME TypeOK, NEW e \in Executors, PartialEffect(e)
  PROVE  disk' \in [Instances -> Int] /\ live' \in Nat
  BY DEF TypeOK, PartialEffect

LEMMA TypeStep ==
  ASSUME IInv, [Next]_vars
  PROVE  TypeOK'
<1> USE DEF Locals
<1>1. TypeOK /\ \A e \in Executors : LocalsOK(e)
  BY DEF IInv
<1>2. ASSUME NEW e \in Executors, NEW n \in CallSizes, Call(e, n)
      PROVE  TypeOK'
  BY <1>1, <1>2, CallAssumption DEF Call, TypeOK
<1>3. ASSUME NEW e \in Executors, BeginTerminal(e)
      PROVE  TypeOK'
  BY <1>1, <1>3, ReturnType DEF BeginTerminal, TypeOK
<1>4. ASSUME NEW e \in Executors, BeginWithoutAgent(e)
      PROVE  TypeOK'
  BY <1>1, <1>4, RaiseType DEF BeginWithoutAgent, TypeOK
<1>5. ASSUME NEW e \in Executors, Begin(e)
      PROVE  TypeOK'
  BY <1>1, <1>5 DEF Begin, TypeOK, Goto, Labels
<1>6. ASSUME NEW e \in Executors, Adopt(e)
      PROVE  TypeOK'
  <2>1. PICK k \in DOMAIN execs : work' = [work EXCEPT ![e].exec = k]
    BY <1>6 DEF Adopt, CompletedRuns
  <2>2. k \in Nat
    BY <1>1, <2>1 DEF TypeOK
  <2> QED
    BY <1>1, <1>6, <2>1, <2>2 DEF Adopt, TypeOK, Goto, Labels, Writing, HandlerOf, CompletedRuns
<1>7. ASSUME NEW e \in Executors, SkipWorkspace(e)
      PROVE  TypeOK'
  <2>1. PICK a \in 0..Len(execs) : work' = [work EXCEPT ![e].input = a]
    BY <1>7 DEF SkipWorkspace
  <2>2. a \in Nat
    BY <1>1, <2>1 DEF TypeOK
  <2> QED
    BY <1>1, <1>7, <2>1, <2>2 DEF SkipWorkspace, TypeOK, Goto, Labels, Writing
<1>8. ASSUME NEW e \in Executors, ReuseWorkspace(e)
      PROVE  TypeOK'
  BY <1>1, <1>8 DEF ReuseWorkspace, TypeOK, Goto, Labels
<1>9. ASSUME NEW e \in Executors, CloneWorkspace(e)
      PROVE  TypeOK'
  <2>1. disk' \in [Instances -> Int]
    BY <1>1, <1>9, HostAssumption DEF CloneWorkspace, TypeOK
  <2>2. CASE UpdateIfVersion(e, [seen[e] EXCEPT !.workspace = TRUE]) /\ Goto(e, "reread")
             /\ UNCHANGED <<seen, work, left>>
    <3>1. [seen[e] EXCEPT !.workspace = TRUE] \in Documents
      BY <1>1, LocalTypes DEF Documents
    <3>2. wf' \in Documents
      BY <1>1, <2>2, <3>1, LocalTypes, UpdateType
    <3> QED
      BY <1>1, <1>9, <2>1, <2>2, <3>2 DEF CloneWorkspace, TypeOK, Goto, Labels
  <2>3. CASE Raise(e) /\ UNCHANGED wf
    BY <1>1, <1>9, <2>1, <2>3, RaiseType DEF CloneWorkspace, TypeOK
  <2> QED
    BY <1>9, <2>2, <2>3 DEF CloneWorkspace
<1>10. ASSUME NEW e \in Executors, CloneFails(e)
      PROVE  TypeOK'
  <2>1. disk' \in [Instances -> Int]
    BY <1>1, <1>10, HostAssumption DEF CloneFails, TypeOK, NoDir
  <2>2. CASE Goto(e, "fail") /\ UNCHANGED <<seen, work, left>>
    BY <1>1, <1>10, <2>1, <2>2 DEF CloneFails, TypeOK, Goto, Labels, Writing
  <2>3. CASE Raise(e)
    <3>1. disturbances' \in Nat /\ UNCHANGED <<wf, execs, decisions, live, calls>>
      BY <1>1, <1>10 DEF CloneFails, TypeOK
    <3> QED
      BY <1>1, <2>1, <2>3, <3>1, RaiseType DEF TypeOK
  <2> QED
    BY <1>10, <2>2, <2>3 DEF CloneFails
<1>11. ASSUME NEW e \in Executors, Reread(e)
      PROVE  TypeOK'
  <2>1. PICK a \in 0..Len(execs) : work' = [work EXCEPT ![e].input = a]
    BY <1>11 DEF Reread
  <2>2. a \in Nat
    BY <1>1, <2>1 DEF TypeOK
  <2> QED
    BY <1>1, <1>11, <2>1, <2>2 DEF Reread, TypeOK, Goto, Labels, Writing
<1>12. ASSUME NEW e \in Executors, Claim(e)
      PROVE  TypeOK'
  <2>1. [seen[e] EXCEPT !.status = "RUNNING"] \in Documents
    BY <1>1, LocalTypes DEF Documents, WorkflowStatuses
  <2>2. wf' \in Documents
    BY <1>1, <1>12, <2>1, LocalTypes, UpdateType DEF Claim
  <2> QED
    BY <1>1, <1>12, <2>2 DEF Claim, TypeOK, Goto, Labels
<1>13. ASSUME NEW e \in Executors, StartExecution(e)
      PROVE  TypeOK'
  <2>1. work[e].stage \in AgentStages
    BY <1>1, <1>13 DEF StartExecution, LocalsOK
  <2>2. execs' \in Seq(Executions)
    BY <1>1, <1>13, <2>1 DEF StartExecution, TypeOK, Executions, Verdicts, NoDir
  <2>3. Len(execs) + 1 \in Nat
    BY <1>1 DEF TypeOK
  <2> QED
    BY <1>1, <1>13, <2>2, <2>3 DEF StartExecution, TypeOK, Goto, Labels
<1>14. ASSUME NEW e \in Executors, FinishExecution(e)
      PROVE  TypeOK'
  <2>1. work[e].stage \in AgentStages /\ work[e].exec \in DOMAIN execs
    BY <1>1, <1>14 DEF FinishExecution, LocalsOK
  <2>2. PICK report \in Reports(work[e].stage) :
          execs' = [execs EXCEPT ![work[e].exec] =
                      [@ EXCEPT !.status = "COMPLETED", !.verdict = report[1],
                                !.failures = report[2], !.tree = disk[Host[e]]]]
    BY <1>14 DEF FinishExecution
  <2>3. /\ report[1] \in Verdicts
        /\ report[2] \in SUBSET (TestClassifications \cup DeploymentClassifications)
    BY <2>2, InputAssumption DEF Reports, Verdicts
  <2>4. disk[Host[e]] \in Int
    BY <1>1, HostAssumption DEF TypeOK
  <2>5. execs' \in Seq(Executions)
    <3>1. [execs[work[e].exec] EXCEPT !.status = "COMPLETED", !.verdict = report[1],
             !.failures = report[2], !.tree = disk[Host[e]]] \in Executions
      <4>1. execs[work[e].exec] \in Executions
        BY <1>1, <2>1 DEF TypeOK
      <4> QED
        BY <2>3, <2>4, <4>1 DEF Executions
    <3> QED
      BY <1>1, <2>1, <2>2, <3>1 DEF TypeOK
  <2>6. disk' \in [Instances -> Int] /\ live' \in Nat
    BY <1>1, <1>14, PartialEffectType DEF FinishExecution, TypeOK
  <2> QED
    BY <1>1, <1>14, <2>5, <2>6 DEF FinishExecution, TypeOK, Goto, Labels, Writing, HandlerOf
<1>15. ASSUME NEW e \in Executors, FailExecution(e)
      PROVE  TypeOK'
  <2>1. work[e].exec \in DOMAIN execs
    BY <1>1, <1>15 DEF FailExecution, LocalsOK
  <2>2. execs' \in Seq(Executions)
    <3>1. [execs[work[e].exec] EXCEPT !.status = "FAILED"] \in Executions
      <4>1. execs[work[e].exec] \in Executions
        BY <1>1, <2>1 DEF TypeOK
      <4> QED
        BY <4>1 DEF Executions
    <3> QED
      BY <1>1, <1>15, <2>1, <3>1 DEF FailExecution, TypeOK
  <2>3. disk' \in [Instances -> Int] /\ live' \in Nat
    BY <1>1, <1>15, PartialEffectType DEF FailExecution, TypeOK
  <2> QED
    BY <1>1, <1>15, <2>2, <2>3 DEF FailExecution, TypeOK, Goto, Labels, Writing
<1>16. ASSUME NEW e \in Executors, FailWorkflow(e)
      PROVE  TypeOK'
  <2>1. [seen[e] EXCEPT !.status = "FAILED"] \in Documents
    BY <1>1 DEF TypeOK, Documents, WorkflowStatuses
  <2> QED
    BY <1>1, <1>16, <2>1, CommitType DEF FailWorkflow
<1>17. ASSUME NEW e \in Executors, AdvanceToNextStage(e)
      PROVE  TypeOK'
  <2> DEFINE next == NextStage[seen[e].stage]
             doc == [seen[e] EXCEPT
                      !.status = IF next \in AgentStages THEN "PENDING" ELSE "COMPLETED",
                      !.stage = next,
                      !.artifacts = Append(@, work[e].exec)]
  <2>1. next \in WorkflowStages
    BY <1>1, NextStageType DEF TypeOK, Documents
  <2>2. doc \in Documents
    <3>1. Append(seen[e].artifacts, work[e].exec) \in Seq(Nat)
      BY <1>1, LocalTypes, DocumentFields
    <3> QED
      BY <1>1, <2>1, <3>1, LocalTypes DEF Documents, WorkflowStatuses
  <2> QED
    BY <1>1, <1>17, <2>2, CommitType DEF AdvanceToNextStage
<1>18. ASSUME NEW e \in Executors, RecordEvidence(e)
      PROVE  TypeOK'
  <2>1. Append(seen[e].artifacts, work[e].exec) \in Seq(Nat)
    BY <1>1, LocalTypes, DocumentFields
  <2>2. [seen[e] EXCEPT !.artifacts = Append(@, work[e].exec)] \in Documents
    BY <1>1, <2>1, LocalTypes DEF Documents
  <2>3. wf' \in Documents
    <3>1. UpdateIfVersion(e, [seen[e] EXCEPT !.artifacts = Append(@, work[e].exec)])
      BY <1>18 DEF RecordEvidence
    <3> QED
      BY <1>1, <2>2, <3>1, LocalTypes, UpdateType
  <2> QED
    BY <1>1, <1>18, <2>3 DEF RecordEvidence, TypeOK, Goto, Labels
<1>19. ASSUME NEW e \in Executors, HandleDecision(e)
      PROVE  TypeOK'
  <2>1. PICK d \in Decisions : /\ decisions' = decisions \cup {d}
                               /\ work' = [work EXCEPT ![e].decision = d]
    BY <1>19, ProposedDecisionsType, PlainType DEF HandleDecision, DecisionActions
  <2> QED
    BY <1>1, <1>19, <2>1 DEF HandleDecision, TypeOK, Goto, Labels, Writing
<1>20. ASSUME NEW e \in Executors, RecordDecision(e)
      PROVE  TypeOK'
  <2>1. [seen[e] EXCEPT !.active = work[e].decision] \in Documents
    BY <1>1, LocalTypes DEF Documents
  <2>2. wf' \in Documents
    <3>1. UpdateIfVersion(e, [seen[e] EXCEPT !.active = work[e].decision])
      BY <1>20 DEF RecordDecision
    <3> QED
      BY <1>1, <2>1, <3>1, LocalTypes, UpdateType
  <2> QED
    BY <1>1, <1>20, <2>2 DEF RecordDecision, TypeOK, Goto, Labels, Writing
<1>21. ASSUME NEW e \in Executors, ExecuteDecision(e)
      PROVE  TypeOK'
  <2>1. Decided(seen[e], work[e].decision) \in Documents
    BY <1>1, <1>21, DecidedType DEF ExecuteDecision, LocalsOK, TypeOK
  <2> QED
    BY <1>1, <1>21, <2>1, CommitType DEF ExecuteDecision
<1>22. ASSUME NEW e \in Executors, VersionConflict(e)
      PROVE  TypeOK'
  BY <1>1, <1>22, RaiseType DEF VersionConflict, TypeOK
<1>23. ASSUME NEW e \in Executors, Abort(e)
      PROVE  TypeOK'
  <2>1. disk' \in [Instances -> Int] /\ live' \in Nat
    <3>1. PartialEffect(e) \/ UNCHANGED <<disk, live>>
      BY <1>23 DEF Abort
    <3> QED
      BY <1>1, <3>1, PartialEffectType DEF TypeOK
  <2> QED
    BY <1>1, <1>23, <2>1, RaiseType DEF Abort, TypeOK
<1>24. ASSUME NEW i \in Instances, Restart(i)
      PROVE  TypeOK'
  <2>1. live' \in Nat
    BY <1>1, <1>24 DEF Restart, TypeOK
  <2>2. /\ pc' \in [Executors -> Labels] /\ seen' \in [Executors -> Documents]
        /\ work' \in [Executors -> Locals] /\ left' \in [Executors -> Nat]
        /\ disk' \in [Instances -> Int]
    BY <1>1, <1>24, FreshType DEF Restart, TypeOK, Labels, NoDir
  <2> QED
    BY <1>1, <1>24, <2>1, <2>2 DEF Restart, TypeOK
<1>25. ASSUME RetryFailedWorkflow
      PROVE  TypeOK'
  <2>1. wf.reopens + 1 \in Nat
    BY <1>1, DocumentFields DEF TypeOK
  <2>2. [wf EXCEPT !.status = "PENDING", !.reopens = @ + 1] \in Documents
    BY <1>1, <2>1 DEF TypeOK, Documents, WorkflowStatuses
  <2> QED
    BY <1>1, <1>25, <2>2, RewriteType DEF RetryFailedWorkflow, TypeOK
<1>26. ASSUME NEW r \in Resolutions, NEW s \in Strategies, NEW b \in BOOLEAN,
              StartRemediation(r, s, b)
      PROVE  TypeOK'
  <2> DEFINE actioned == [wf EXCEPT !.resolutions = @ \cup {r}]
  <2>1. wf \in Documents /\ disturbances' \in Nat
    BY <1>1, <1>26 DEF StartRemediation, TypeOK
  <2>2. actioned \in Documents
    <3>1. wf.resolutions \cup {r} \in SUBSET Resolutions
      BY <2>1, DocumentFields
    <3> QED
      BY <2>1, <3>1 DEF Documents
  <2>3. [actioned EXCEPT !.status = "ESCALATED"] \in Documents
    BY <2>2 DEF Documents, WorkflowStatuses
  <2>4. CASE AuthorizedStrategy(s, b) = "ESCALATE"
    BY <1>1, <1>26, <2>1, <2>3, <2>4, RewriteType DEF StartRemediation
  <2>5. CASE AuthorizedStrategy(s, b) = "NO_ACTION"
    BY <1>1, <1>26, <2>1, <2>2, <2>5, RewriteType DEF StartRemediation
  <2>6. CASE AuthorizedStrategy(s, b) \notin {"ESCALATE", "NO_ACTION"}
    <3>1. EntryStage[AuthorizedStrategy(s, b)] \in WorkflowStages
      BY <2>6, EntryStageType, InputAssumption DEF WorkflowStages
    <3>2. [actioned EXCEPT !.status = "PENDING",
                           !.stage = EntryStage[AuthorizedStrategy(s, b)]] \in Documents
      BY <2>2, <3>1 DEF Documents, WorkflowStatuses
    <3> QED
      BY <1>1, <1>26, <2>1, <2>6, <3>2, RewriteType DEF StartRemediation
  <2> QED
    BY <2>4, <2>5, <2>6
<1>27. ASSUME NEW outcome \in {"verification_in_progress", "verified"}, MirrorVerification(outcome)
      PROVE  TypeOK'
  <2>1. [wf EXCEPT !.outcome = outcome] \in Documents
    BY <1>1 DEF TypeOK, Documents, Outcomes
  <2> QED
    BY <1>1, <1>27, <2>1, RewriteType DEF MirrorVerification, TypeOK
<1>28. CASE UNCHANGED vars
  BY <1>1, <1>28 DEF vars, TypeOK
<1> QED
  BY <1>2, <1>3, <1>4, <1>5, <1>6, <1>7, <1>8, <1>9, <1>10, <1>11, <1>12, <1>13, <1>14,
     <1>15, <1>16, <1>17, <1>18, <1>19, <1>20, <1>21, <1>22, <1>23, <1>24, <1>25, <1>26,
     <1>27, <1>28 DEF Next, Environment, Step

(***************************************************************************)
(* What one step may do to the document. Every write is conditional on the *)
(* version, so by CopyOK it starts from the current document; the evidence *)
(* it appends is new to it and the retry it counts is within budget.       *)
(***************************************************************************)
KeepsEvidence ==
  \/ wf'.artifacts = wf.artifacts
  \/ \E k \in Nat : /\ Completed(k) /\ k \notin Recorded(wf)
                    /\ wf'.artifacts = Append(wf.artifacts, k)

KeepsBudget ==
  \/ wf'.retries = wf.retries
  \/ \E t \in AgentStages : /\ wf.retries[t] < MaxRetries[t]
                            /\ wf'.retries = [wf.retries EXCEPT ![t] = @ + 1]

Evolves ==
  /\ wf'.version = wf.version + 1
  /\ KeepsEvidence
  /\ KeepsBudget
  /\ wf.resolutions \subseteq wf'.resolutions
  /\ LegalMove

LEMMA UpdateShape ==
  ASSUME IInv, NEW e \in Executors, NEW doc \in Documents, UpdateIfVersion(e, doc)
  PROVE  /\ seen[e] = wf
         /\ wf' = [doc EXCEPT !.version = wf.version + 1]
         /\ wf'.version = wf.version + 1
         /\ wf'.artifacts = doc.artifacts /\ wf'.retries = doc.retries
         /\ wf'.resolutions = doc.resolutions /\ wf'.stage = doc.stage
<1>1. seen[e] = wf
  BY DEF IInv, CopyOK, UpdateIfVersion
<1>2. wf' = [doc EXCEPT !.version = wf.version + 1]
  BY <1>1 DEF UpdateIfVersion
<1> QED
  BY <1>1, <1>2 DEF Documents

LEMMA RewriteShape ==
  ASSUME NEW doc \in Documents, Rewrite(doc)
  PROVE  /\ wf'.version = wf.version + 1
         /\ wf'.artifacts = doc.artifacts /\ wf'.retries = doc.retries
         /\ wf'.resolutions = doc.resolutions /\ wf'.stage = doc.stage
  BY DEF Rewrite, Documents

\* A write that changes neither the evidence nor the retries nor the stage.
LEMMA TouchEvolves ==
  ASSUME IInv, wf'.version = wf.version + 1,
         wf'.artifacts = wf.artifacts, wf'.retries = wf.retries,
         wf.resolutions \subseteq wf'.resolutions, wf'.stage = wf.stage
  PROVE  Evolves
  BY DEF Evolves, KeepsEvidence, KeepsBudget, LegalMove

LEMMA DecisionEvolves ==
  ASSUME IInv, NEW e \in Executors, ExecuteDecision(e)
  PROVE  Evolves
<1> DEFINE d == work[e].decision
           doc == Decided(seen[e], d)
<1>1. seen[e] \in Documents /\ d \in Decisions /\ Acceptable(seen[e], d)
  BY LocalTypes DEF IInv, ExecuteDecision, LocalsOK
<1>2. doc \in Documents
  BY <1>1, DecidedType
<1>3. /\ seen[e] = wf /\ wf'.version = wf.version + 1
      /\ wf'.artifacts = doc.artifacts /\ wf'.retries = doc.retries
      /\ wf'.resolutions = doc.resolutions /\ wf'.stage = doc.stage
  BY <1>2, UpdateShape DEF ExecuteDecision, Commit
<1> HIDE DEF d, doc
<1>4. CASE IsRetry(d)
  <2>1. d.target \in AgentStages /\ d.target \in AllowedRetryTargets[wf.stage]
    BY <1>1, <1>3, <1>4, RetryTargetsType DEF Acceptable, Documents
  <2>2. wf.retries[d.target] < MaxRetries[d.target]
    BY <1>1, <1>3, <1>4 DEF Acceptable, WithinBudget
  <2>3. doc = [wf EXCEPT !.status = "PENDING", !.stage = d.target,
                         !.retries = [wf.retries EXCEPT ![d.target] = @ + 1]]
    BY <1>3, <1>4 DEF Decided, IsRetry, doc
  <2>4. /\ wf'.artifacts = wf.artifacts /\ wf'.resolutions = wf.resolutions
        /\ wf'.stage = d.target
        /\ wf'.retries = [wf.retries EXCEPT ![d.target] = @ + 1]
    BY <1>1, <1>3, <2>3 DEF Documents
  <2>5. wf'.retries[d.target] = wf.retries[d.target] + 1
    BY <1>1, <1>3, <2>1, <2>4 DEF Documents
  <2> QED
    BY <1>3, <2>1, <2>2, <2>4, <2>5 DEF Evolves, KeepsEvidence, KeepsBudget, LegalMove
<1>5. CASE ~IsRetry(d)
  <2>1. /\ doc.artifacts = wf.artifacts /\ doc.retries = wf.retries
        /\ doc.resolutions = wf.resolutions
        /\ doc.stage \in {wf.stage, NextStage[wf.stage], "COMPLETED"}
    BY <1>1, <1>3, <1>5 DEF Decided, IsRetry, doc, Documents
  <2> QED
    BY <1>3, <2>1 DEF Evolves, KeepsEvidence, KeepsBudget, LegalMove
<1> QED
  BY <1>4, <1>5

LEMMA WriteStep ==
  ASSUME IInv, [Next]_vars
  PROVE  wf' = wf \/ Evolves
<1>1. \A e \in Executors : seen[e] \in Documents /\ LocalsOK(e) /\ work[e].exec \in Nat
  BY LocalTypes DEF IInv
<1>2. wf \in Documents
  BY DEF IInv, TypeOK
<1>3. ASSUME NEW e \in Executors, CloneWorkspace(e)
      PROVE  wf' = wf \/ Evolves
  <2> DEFINE doc == [seen[e] EXCEPT !.workspace = TRUE]
  <2>1. /\ doc \in Documents /\ doc.artifacts = seen[e].artifacts
        /\ doc.retries = seen[e].retries /\ doc.resolutions = seen[e].resolutions
        /\ doc.stage = seen[e].stage
    BY <1>1 DEF Documents
  <2> HIDE DEF doc
  <2>2. CASE UpdateIfVersion(e, doc)
    BY <2>1, <2>2, UpdateShape, TouchEvolves
  <2> QED
    BY <1>3, <2>2 DEF CloneWorkspace, doc
<1>4. ASSUME NEW e \in Executors, Claim(e)
      PROVE  Evolves
  <2>1. [seen[e] EXCEPT !.status = "RUNNING"] \in Documents
    BY <1>1 DEF Documents, WorkflowStatuses
  <2>2. UpdateIfVersion(e, [seen[e] EXCEPT !.status = "RUNNING"])
    BY <1>4 DEF Claim
  <2> QED
    BY <1>1, <2>1, <2>2, UpdateShape, TouchEvolves DEF Documents
<1>5. ASSUME NEW e \in Executors, FailWorkflow(e)
      PROVE  Evolves
  <2>1. [seen[e] EXCEPT !.status = "FAILED"] \in Documents
    BY <1>1 DEF Documents, WorkflowStatuses
  <2>2. UpdateIfVersion(e, [seen[e] EXCEPT !.status = "FAILED"])
    BY <1>5 DEF FailWorkflow, Commit
  <2> QED
    BY <1>1, <2>1, <2>2, UpdateShape, TouchEvolves DEF Documents
<1>6. ASSUME NEW e \in Executors, AdvanceToNextStage(e)
      PROVE  Evolves
  <2> DEFINE next == NextStage[seen[e].stage]
             doc == [seen[e] EXCEPT
                      !.status = IF next \in AgentStages THEN "PENDING" ELSE "COMPLETED",
                      !.stage = next,
                      !.artifacts = Append(@, work[e].exec)]
  <2>1. next \in WorkflowStages /\ Append(seen[e].artifacts, work[e].exec) \in Seq(Nat)
    BY <1>1, NextStageType, DocumentFields
  <2>2. /\ doc \in Documents /\ doc.retries = seen[e].retries
        /\ doc.artifacts = Append(seen[e].artifacts, work[e].exec)
        /\ doc.resolutions = seen[e].resolutions /\ doc.stage = NextStage[seen[e].stage]
    BY <1>1, <2>1 DEF Documents, WorkflowStatuses
  <2>3. UpdateIfVersion(e, doc)
    BY <1>6 DEF AdvanceToNextStage, Commit
  <2> HIDE DEF doc
  <2>4. /\ seen[e] = wf /\ wf'.version = wf.version + 1
        /\ wf'.artifacts = Append(wf.artifacts, work[e].exec) /\ wf'.retries = wf.retries
        /\ wf'.resolutions = wf.resolutions /\ wf'.stage = NextStage[wf.stage]
    BY <2>2, <2>3, UpdateShape
  <2>5. Completed(work[e].exec) /\ work[e].exec \notin Recorded(wf)
    BY <1>1, <1>6, <2>4 DEF LocalsOK, AdvanceToNextStage
  <2> QED
    BY <1>1, <2>4, <2>5 DEF Evolves, KeepsEvidence, KeepsBudget, LegalMove
<1>7. ASSUME NEW e \in Executors, RecordEvidence(e)
      PROVE  Evolves
  <2> DEFINE doc == [seen[e] EXCEPT !.artifacts = Append(@, work[e].exec)]
  <2>1. Append(seen[e].artifacts, work[e].exec) \in Seq(Nat)
    BY <1>1, DocumentFields
  <2>2. /\ doc \in Documents /\ doc.retries = seen[e].retries
        /\ doc.artifacts = Append(seen[e].artifacts, work[e].exec)
        /\ doc.resolutions = seen[e].resolutions /\ doc.stage = seen[e].stage
    BY <1>1, <2>1 DEF Documents
  <2>3. UpdateIfVersion(e, doc)
    BY <1>7 DEF RecordEvidence
  <2> HIDE DEF doc
  <2>4. /\ seen[e] = wf /\ wf'.version = wf.version + 1
        /\ wf'.artifacts = Append(wf.artifacts, work[e].exec) /\ wf'.retries = wf.retries
        /\ wf'.resolutions = wf.resolutions /\ wf'.stage = wf.stage
    BY <2>2, <2>3, UpdateShape
  <2>5. Completed(work[e].exec) /\ work[e].exec \notin Recorded(wf)
    BY <1>1, <1>7, <2>4 DEF LocalsOK, RecordEvidence
  <2> QED
    BY <1>1, <2>4, <2>5 DEF Evolves, KeepsEvidence, KeepsBudget, LegalMove
<1>8. ASSUME NEW e \in Executors, RecordDecision(e)
      PROVE  Evolves
  <2>1. [seen[e] EXCEPT !.active = work[e].decision] \in Documents
    BY LocalTypes DEF IInv, Documents
  <2>2. UpdateIfVersion(e, [seen[e] EXCEPT !.active = work[e].decision])
    BY <1>8 DEF RecordDecision
  <2> QED
    BY <1>1, <2>1, <2>2, UpdateShape, TouchEvolves DEF Documents
<1>9. ASSUME NEW e \in Executors, ExecuteDecision(e)
      PROVE  Evolves
  BY <1>9, DecisionEvolves
<1>10. ASSUME RetryFailedWorkflow
      PROVE  Evolves
  <2>1. wf.reopens + 1 \in Nat
    BY <1>2, DocumentFields
  <2>2. [wf EXCEPT !.status = "PENDING", !.reopens = @ + 1] \in Documents
    BY <1>2, <2>1 DEF Documents, WorkflowStatuses
  <2> QED
    BY <1>2, <1>10, <2>2, RewriteShape, TouchEvolves DEF RetryFailedWorkflow, Documents
<1>11. ASSUME NEW r \in Resolutions, NEW s \in Strategies, NEW b \in BOOLEAN,
              StartRemediation(r, s, b)
      PROVE  Evolves
  <2> DEFINE actioned == [wf EXCEPT !.resolutions = @ \cup {r}]
  <2>1. wf.resolutions \cup {r} \in SUBSET Resolutions
    BY <1>2, DocumentFields
  <2>2. /\ actioned \in Documents
        /\ actioned.artifacts = wf.artifacts /\ actioned.retries = wf.retries
        /\ actioned.resolutions = wf.resolutions \cup {r} /\ actioned.stage = wf.stage
    BY <1>2, <2>1 DEF Documents
  <2> HIDE DEF actioned
  <2>3. CASE AuthorizedStrategy(s, b) = "ESCALATE"
    <3>1. [actioned EXCEPT !.status = "ESCALATED"] \in Documents
      BY <2>2 DEF Documents, WorkflowStatuses
    <3>2. Rewrite([actioned EXCEPT !.status = "ESCALATED"])
      BY <1>11, <2>3 DEF StartRemediation, actioned
    <3> QED
      BY <2>2, <3>1, <3>2, RewriteShape, TouchEvolves DEF Documents
  <2>4. CASE AuthorizedStrategy(s, b) = "NO_ACTION"
    <3>1. Rewrite(actioned)
      BY <1>11, <2>4 DEF StartRemediation, actioned
    <3> QED
      BY <2>2, <3>1, RewriteShape, TouchEvolves
  <2>5. CASE AuthorizedStrategy(s, b) \notin {"ESCALATE", "NO_ACTION"}
    <3> DEFINE entry == EntryStage[AuthorizedStrategy(s, b)]
    <3>1. entry \in WorkflowStages
      BY <2>5, EntryStageType, InputAssumption DEF WorkflowStages
    <3> HIDE DEF entry
    <3>2. [actioned EXCEPT !.status = "PENDING", !.stage = entry] \in Documents
      BY <2>2, <3>1 DEF Documents, WorkflowStatuses
    <3>3. /\ Rewrite([actioned EXCEPT !.status = "PENDING", !.stage = entry])
          /\ wf.status = "COMPLETED" /\ r \notin wf.resolutions
      BY <1>11, <2>5 DEF StartRemediation, actioned, entry
    <3>4. /\ wf'.version = wf.version + 1
          /\ wf'.artifacts = wf.artifacts /\ wf'.retries = wf.retries
          /\ wf'.resolutions = wf.resolutions \cup {r}
      BY <2>2, <3>2, <3>3, RewriteShape DEF Documents
    <3> QED
      BY <3>3, <3>4 DEF Evolves, KeepsEvidence, KeepsBudget, LegalMove
  <2> QED
    BY <2>3, <2>4, <2>5
<1>12. ASSUME NEW outcome \in {"verification_in_progress", "verified"}, MirrorVerification(outcome)
      PROVE  Evolves
  <2>1. [wf EXCEPT !.outcome = outcome] \in Documents
    BY <1>2 DEF Documents, Outcomes
  <2> QED
    BY <1>2, <1>12, <2>1, RewriteShape, TouchEvolves DEF MirrorVerification, Documents
<1>13. ASSUME NEW e \in Executors,
              \/ BeginTerminal(e) \/ BeginWithoutAgent(e) \/ Begin(e) \/ Adopt(e)
              \/ SkipWorkspace(e) \/ ReuseWorkspace(e) \/ CloneFails(e) \/ Reread(e)
              \/ StartExecution(e) \/ FinishExecution(e) \/ FailExecution(e)
              \/ HandleDecision(e) \/ VersionConflict(e) \/ Abort(e)
       PROVE  wf' = wf
  BY <1>13 DEF BeginTerminal, BeginWithoutAgent, Begin, Adopt, SkipWorkspace, ReuseWorkspace,
       CloneFails, Reread, StartExecution, FinishExecution, FailExecution, HandleDecision,
       VersionConflict, Abort
<1>14. \A e \in Executors, n \in CallSizes : Call(e, n) => wf' = wf
  BY DEF Call
<1>15. \A i \in Instances : Restart(i) => wf' = wf
  BY DEF Restart
<1>16. UNCHANGED vars => wf' = wf
  BY DEF vars
<1> QED
  BY <1>3, <1>4, <1>5, <1>6, <1>7, <1>8, <1>9, <1>10, <1>11, <1>12, <1>13, <1>14, <1>15,
     <1>16 DEF Next, Environment, Step

(***************************************************************************)
(* Executions are never taken back, and a running one is nobody else's.    *)
(***************************************************************************)
RunsOn(f) == work[f].exec \in DOMAIN execs /\ execs[work[f].exec].status = "RUNNING"

LEMMA ExecWriters ==
  ASSUME [Next]_vars
  PROVE  \/ execs' = execs
         \/ \E e \in Executors : StartExecution(e) \/ FinishExecution(e) \/ FailExecution(e)
<1>1. \A e \in Executors : Step(e) =>
        execs' = execs \/ StartExecution(e) \/ FinishExecution(e) \/ FailExecution(e)
  BY DEF Step, BeginTerminal, BeginWithoutAgent, Begin, Adopt, SkipWorkspace, ReuseWorkspace,
     CloneWorkspace, CloneFails, Reread, Claim, FailWorkflow, AdvanceToNextStage,
     RecordEvidence, HandleDecision, RecordDecision, ExecuteDecision, VersionConflict, Commit
<1>2. Environment => execs' = execs
  BY DEF Environment, Call, Abort, Restart, RetryFailedWorkflow, StartRemediation,
     MirrorVerification, Rewrite
<1> QED
  BY <1>1, <1>2 DEF Next, vars

LEMMA ExecStep ==
  ASSUME IInv, [Next]_vars
  PROVE  /\ \A k \in DOMAIN execs : k \in DOMAIN execs'
         /\ \A k : Completed(k) => Completed(k)'
         /\ \A f \in Executors : pc[f] = "run" /\ pc'[f] = "run" /\ work'[f] = work[f] => RunsOn(f)'
<1> DEFINE Goal == /\ \A k \in DOMAIN execs : k \in DOMAIN execs'
                   /\ \A k : Completed(k) => Completed(k)'
                   /\ \A f \in Executors : pc[f] = "run" /\ pc'[f] = "run" /\ work'[f] = work[f]
                        => RunsOn(f)'
<1>1. /\ execs \in Seq(Executions) /\ pc \in [Executors -> Labels] /\ OneRunner
      /\ \A f \in Executors : pc[f] = "run" => RunsOn(f)
  BY DEF IInv, TypeOK, LocalsOK, RunsOn
<1>2. ASSUME execs' = execs
      PROVE  Goal
  BY <1>1, <1>2 DEF Completed, RunsOn
<1>3. ASSUME NEW e \in Executors, StartExecution(e)
      PROVE  Goal
  <2>1. PICK x : execs' = Append(execs, x)
    BY <1>3 DEF StartExecution
  <2>2. \A k \in DOMAIN execs : k \in DOMAIN execs' /\ execs'[k] = execs[k]
    BY <1>1, <2>1
  <2> QED
    BY <1>1, <2>2 DEF Completed, RunsOn
<1>4. ASSUME NEW e \in Executors, FinishExecution(e) \/ FailExecution(e)
      PROVE  Goal
  <2>1. PICK x : execs' = [execs EXCEPT ![work[e].exec] = x]
    BY <1>4 DEF FinishExecution, FailExecution
  <2>2. pc[e] = "run" /\ pc'[e] # "run" /\ RunsOn(e)
    BY <1>1, <1>4 DEF FinishExecution, FailExecution, Goto, HandlerOf
  <2>3. /\ DOMAIN execs' = DOMAIN execs
        /\ \A k \in DOMAIN execs : k # work[e].exec => execs'[k] = execs[k]
    BY <1>1, <2>1
  <2>4. \A k : Completed(k) => k # work[e].exec
    BY <2>2 DEF Completed, RunsOn
  <2>5. \A f \in Executors : pc[f] = "run" /\ pc'[f] = "run" => work[f].exec # work[e].exec
    BY <1>1, <2>2 DEF OneRunner
  <2> QED
    BY <1>1, <2>3, <2>4, <2>5 DEF Completed, RunsOn
<1> QED
  BY <1>2, <1>3, <1>4, ExecWriters

(***************************************************************************)
(* The document's own invariants.                                          *)
(***************************************************************************)
LEMMA AppendNew ==
  ASSUME NEW s \in Seq(Nat), NEW k \in Nat,
         \A i, j \in DOMAIN s : s[i] = s[j] => i = j,
         \A i \in DOMAIN s : s[i] # k,
         NEW t, t = Append(s, k)
  PROVE  /\ \A i, j \in DOMAIN t : t[i] = t[j] => i = j
         /\ \A i \in DOMAIN t : t[i] = k \/ \E j \in DOMAIN s : t[i] = s[j]
  OBVIOUS

LEMMA DocumentStep ==
  ASSUME IInv, [Next]_vars
  PROVE  (wf.version > 0 /\ EvidenceSound /\ RetryBudget)'
<1>1. /\ wf \in Documents /\ wf.version > 0 /\ EvidenceSound /\ RetryBudget
      /\ \A k : Completed(k) => Completed(k)'
  BY ExecStep DEF IInv, TypeOK
<1>2. CASE wf' = wf
  BY <1>1, <1>2 DEF EvidenceSound, RetryBudget, Recorded
<1>3. CASE Evolves
  <2>1. wf'.version > 0
    BY <1>1, <1>3, DocumentFields DEF Evolves
  <2>2. EvidenceSound'
    <3>1. CASE wf'.artifacts = wf.artifacts
      BY <1>1, <3>1 DEF EvidenceSound, Recorded
    <3>2. ASSUME NEW k \in Nat, Completed(k), k \notin Recorded(wf),
                 wf'.artifacts = Append(wf.artifacts, k)
          PROVE  EvidenceSound'
      <4>1. wf.artifacts \in Seq(Nat)
        BY <1>1, DocumentFields
      <4>2. \A i \in DOMAIN wf.artifacts : wf.artifacts[i] # k
        BY <3>2 DEF Recorded
      <4>3. /\ \A i, j \in DOMAIN wf'.artifacts : wf'.artifacts[i] = wf'.artifacts[j] => i = j
            /\ \A i \in DOMAIN wf'.artifacts :
                 wf'.artifacts[i] = k \/ \E j \in DOMAIN wf.artifacts : wf'.artifacts[i] = wf.artifacts[j]
        BY <1>1, <3>2, <4>1, <4>2, AppendNew DEF EvidenceSound
      <4>4. \A m \in Recorded(wf) \cup {k} : Completed(m)'
        BY <1>1, <3>2 DEF EvidenceSound
      <4>5. Recorded(wf)' \subseteq Recorded(wf) \cup {k}
        BY <4>3 DEF Recorded
      <4> QED
        BY <4>3, <4>4, <4>5 DEF EvidenceSound
    <3> QED
      BY <1>3, <3>1, <3>2 DEF Evolves, KeepsEvidence
  <2>3. RetryBudget'
    <3>1. wf.retries \in [AgentStages -> Nat] /\ MaxRetries \in [AgentStages -> Nat]
      BY <1>1, DocumentFields, BudgetAssumption
    <3> QED
      <4>1. CASE wf'.retries = wf.retries
        BY <1>1, <4>1 DEF RetryBudget
      <4>2. ASSUME NEW t \in AgentStages, wf.retries[t] < MaxRetries[t],
                   wf'.retries = [wf.retries EXCEPT ![t] = @ + 1]
            PROVE  RetryBudget'
        <5>1. ASSUME NEW s \in AgentStages
              PROVE  wf'.retries[s] <= MaxRetries[s]
          <6>1. /\ wf.retries[s] \in Nat /\ MaxRetries[s] \in Nat
                /\ wf.retries[s] <= MaxRetries[s]
                /\ wf'.retries[s] = IF s = t THEN wf.retries[s] + 1 ELSE wf.retries[s]
            BY <1>1, <3>1, <4>2 DEF RetryBudget
          <6> QED
            BY <4>2, <6>1
        <5> QED
          BY <5>1 DEF RetryBudget
      <4> QED
        BY <1>3, <4>1, <4>2 DEF Evolves, KeepsBudget
  <2> QED
    BY <2>1, <2>2, <2>3
<1> QED
  BY <1>2, <1>3, WriteStep

(***************************************************************************)
(* The copies and the locals of the requests.                              *)
(***************************************************************************)
Untouched(f) ==
  /\ pc'[f] = pc[f] /\ seen'[f] = seen[f] /\ work'[f] = work[f]
  /\ pc[f] # "idle" => left'[f] = left[f]

Dropped(f) == pc'[f] = "idle" /\ seen'[f] = NewWorkflow(0)

LEMMA UntouchedKeeps ==
  ASSUME IInv, [Next]_vars, NEW f \in Executors, Untouched(f)
  PROVE  CopyOK(f)' /\ LocalsOK(f)'
<1>1. CopyOK(f) /\ LocalsOK(f) /\ seen[f].version \in Nat /\ wf.version \in Nat
  BY LocalTypes, DocumentFields DEF IInv, TypeOK
<1>2. wf' = wf \/ wf'.version = wf.version + 1
  BY WriteStep DEF Evolves
<1>3. CopyOK(f)'
  <2>1. \A k \in Recorded(seen[f]) : Completed(k)'
    BY <1>1, ExecStep DEF CopyOK
  <2>2. Recorded(seen[f])' = Recorded(seen[f])
    BY DEF Recorded, Untouched
  <2> QED
    BY <1>1, <1>2, <2>1, <2>2 DEF CopyOK, Untouched
<1>4. LocalsOK(f)'
  <2>1. pc'[f] = "run" => RunsOn(f)'
    BY ExecStep DEF Untouched
  <2>2. pc'[f] \in {"advance", "evidence"} => Completed(work[f].exec)' /\ work[f].exec \notin Recorded(seen[f])'
    BY <1>1, ExecStep DEF Untouched, LocalsOK, Recorded
  <2>3. pc'[f] = "decide" => work[f].exec \in DOMAIN execs'
    BY <1>1, ExecStep DEF Untouched, LocalsOK
  <2>4. pc'[f] \in {"record", "execute"} => Acceptable(seen[f], work[f].decision)
    BY <1>1 DEF Untouched, LocalsOK
  <2>5. pc'[f] # "idle" => left'[f] > 0 /\ work'[f].stage \in AgentStages
    BY <1>1 DEF Untouched, LocalsOK
  <2> QED
    BY <2>1, <2>2, <2>3, <2>4, <2>5 DEF LocalsOK, Untouched, RunsOn, Completed, Recorded,
       Acceptable, WithinBudget
<1> QED
  BY <1>3, <1>4

LEMMA DroppedKeeps ==
  ASSUME IInv, [Next]_vars, NEW f \in Executors, Dropped(f)
  PROVE  CopyOK(f)' /\ LocalsOK(f)'
<1>1. wf'.version > 0
  BY DocumentStep
<1>2. NewWorkflow(0).version = 0 /\ NewWorkflow(0).artifacts = << >>
  BY DEF NewWorkflow
<1>3. Recorded(seen[f])' = {}
  BY <1>2 DEF Recorded, Dropped
<1>4. CopyOK(f)'
  <2>1. wf'.version \in Nat
    BY TypeStep, DocumentFields DEF TypeOK
  <2> QED
    BY <1>1, <1>2, <1>3, <2>1 DEF CopyOK, Dropped
<1> QED
  BY <1>4 DEF Dropped, LocalsOK

LEMMA OthersUntouched ==
  ASSUME TypeOK, NEW e \in Executors, Step(e), NEW f \in Executors, f # e
  PROVE  Untouched(f)
<1>1. /\ pc \in [Executors -> Labels] /\ seen \in [Executors -> Documents]
      /\ work \in [Executors -> Locals] /\ left \in [Executors -> Nat]
  BY DEF TypeOK, Locals
<1>2. Raise(e) => Untouched(f)
  BY <1>1 DEF Raise, Goto, Untouched
<1>3. \A doc : Return(e, doc) => Untouched(f)
  BY <1>1 DEF Return, Goto, Untouched
<1>4. CASE BeginTerminal(e) \/ BeginWithoutAgent(e) \/ VersionConflict(e)
           \/ FailWorkflow(e) \/ AdvanceToNextStage(e) \/ ExecuteDecision(e)
  BY <1>2, <1>3, <1>4 DEF BeginTerminal, BeginWithoutAgent, VersionConflict, FailWorkflow,
     AdvanceToNextStage, ExecuteDecision, Commit
<1>5. CASE CloneWorkspace(e) \/ CloneFails(e)
  BY <1>1, <1>2, <1>5 DEF CloneWorkspace, CloneFails, Goto, Untouched
<1>6. CASE Begin(e) \/ Adopt(e) \/ SkipWorkspace(e) \/ ReuseWorkspace(e) \/ Reread(e)
  BY <1>1, <1>6 DEF Begin, Adopt, SkipWorkspace, ReuseWorkspace, Reread, Goto, Untouched
<1>7. CASE Claim(e) \/ StartExecution(e) \/ FinishExecution(e) \/ FailExecution(e)
  BY <1>1, <1>7 DEF Claim, StartExecution, FinishExecution, FailExecution, Goto, Untouched
<1>8. CASE RecordEvidence(e) \/ HandleDecision(e) \/ RecordDecision(e)
  BY <1>1, <1>8 DEF RecordEvidence, HandleDecision, RecordDecision, Goto, Untouched
<1> QED
  BY <1>4, <1>5, <1>6, <1>7, <1>8 DEF Step

LEMMA OwnStep ==
  ASSUME IInv, [Next]_vars, NEW e \in Executors, Step(e)
  PROVE  CopyOK(e)' /\ LocalsOK(e)'
<1>1. /\ pc \in [Executors -> Labels] /\ seen \in [Executors -> Documents]
      /\ work \in [Executors -> Locals] /\ left \in [Executors -> Nat]
      /\ wf \in Documents /\ wf' \in Documents /\ execs \in Seq(Executions)
  BY TypeStep DEF IInv, TypeOK, Locals
<1>2. CopyOK(e) /\ LocalsOK(e) /\ EvidenceSound /\ EvidenceSound'
  BY DocumentStep DEF IInv
<1>3. /\ \A k : Completed(k) => Completed(k)'
      /\ wf' = wf \/ wf'.version = wf.version + 1
  BY ExecStep, WriteStep DEF Evolves
<1>4. wf.version \in Nat /\ seen[e].version \in Nat
  BY <1>1, DocumentFields
\* The copy is the old one, or the document before or after the step.
<1>5. ASSUME seen'[e] = seen[e] \/ (seen'[e] = wf /\ wf' = wf) \/ seen'[e] = wf'
      PROVE  CopyOK(e)'
  <2>1. CASE seen'[e] = seen[e]
    BY <1>2, <1>3, <1>4, <2>1 DEF CopyOK, Recorded
  <2>2. CASE seen'[e] = wf'
    <3>1. wf'.version \in Nat /\ Recorded(seen[e])' = Recorded(wf)'
      BY <1>1, <2>2, DocumentFields DEF Recorded
    <3> QED
      BY <1>2, <2>2, <3>1 DEF CopyOK, EvidenceSound
  <2> QED
    BY <1>5, <2>1, <2>2
<1>6. CASE BeginTerminal(e) \/ BeginWithoutAgent(e) \/ VersionConflict(e)
           \/ FailWorkflow(e) \/ AdvanceToNextStage(e) \/ ExecuteDecision(e)
  <2>1. Dropped(e)
    BY <1>1, <1>6 DEF BeginTerminal, BeginWithoutAgent, VersionConflict, FailWorkflow,
       AdvanceToNextStage, ExecuteDecision, Commit, Return, Raise, Goto, Dropped
  <2> QED
    BY <2>1, DroppedKeeps
<1>7. CASE Begin(e)
  <2>1. /\ seen'[e] = wf /\ wf' = wf /\ pc'[e] = "reconcile" /\ left'[e] > 0
        /\ work'[e].stage \in AgentStages
    BY <1>1, <1>7 DEF Begin, Goto, Locals
  <2> QED
    BY <1>5, <2>1 DEF LocalsOK
<1>8. CASE Adopt(e)
  <2>1. PICK k \in CompletedRuns(work[e].stage) :
          k \notin Recorded(seen[e]) /\ work' = [work EXCEPT ![e].exec = k]
    BY <1>8 DEF Adopt
  <2>2. /\ seen' = seen /\ left' = left /\ execs' = execs /\ pc[e] # "idle"
        /\ pc'[e] \in {"advance", "evidence"}
        /\ work'[e].exec = k /\ work'[e].stage = work[e].stage
    BY <1>1, <1>8, <2>1 DEF Adopt, Goto, HandlerOf, Locals
  <2>3. Completed(k)'
    BY <2>1, <2>2 DEF CompletedRuns, Completed
  <2>4. Recorded(seen[e])' = Recorded(seen[e])
    BY <2>2 DEF Recorded
  <2> QED
    BY <1>2, <1>5, <2>1, <2>2, <2>3, <2>4 DEF LocalsOK
<1>9. CASE SkipWorkspace(e) \/ ReuseWorkspace(e)
  <2>1. /\ seen' = seen /\ left' = left /\ pc[e] # "idle" /\ pc'[e] \in {"claim", "reread"}
        /\ work'[e].stage = work[e].stage
    BY <1>1, <1>9 DEF SkipWorkspace, ReuseWorkspace, NothingToReconcile, Goto, Locals
  <2> QED
    BY <1>2, <1>5, <2>1 DEF LocalsOK
<1>10. CASE CloneWorkspace(e) \/ CloneFails(e)
  <2>1. CASE Raise(e)
    BY <1>1, <2>1, DroppedKeeps DEF Raise, Goto, Dropped
  <2>2. CASE UNCHANGED <<seen, work, left>> /\ (Goto(e, "reread") \/ Goto(e, "fail"))
    <3>1. pc[e] # "idle" /\ pc'[e] \in {"reread", "fail"}
      BY <1>1, <1>10, <2>2 DEF CloneWorkspace, CloneFails, NothingToReconcile, Goto
    <3> QED
      BY <1>2, <1>5, <2>2, <3>1 DEF LocalsOK
  <2> QED
    BY <1>10, <2>1, <2>2 DEF CloneWorkspace, CloneFails
<1>11. CASE Reread(e)
  <2>1. /\ seen'[e] = wf /\ wf' = wf /\ left' = left /\ pc[e] = "reread" /\ pc'[e] = "claim"
        /\ work'[e].stage = work[e].stage
    BY <1>1, <1>11 DEF Reread, Goto, Locals
  <2> QED
    BY <1>2, <1>5, <2>1 DEF LocalsOK
<1>12. CASE Claim(e)
  <2>1. /\ seen'[e] = wf' /\ left' = left /\ work' = work
        /\ pc[e] = "claim" /\ pc'[e] = "start"
    BY <1>1, <1>12 DEF Claim, Goto
  <2> QED
    BY <1>2, <1>5, <2>1 DEF LocalsOK
<1>13. CASE StartExecution(e)
  <2>1. PICK x : x.status = "RUNNING" /\ execs' = Append(execs, x)
    BY <1>13 DEF StartExecution
  <2>2. /\ seen' = seen /\ left' = left /\ pc[e] = "start" /\ pc'[e] = "run"
        /\ work'[e].stage = work[e].stage /\ work'[e].exec = Len(execs) + 1
    BY <1>1, <1>13 DEF StartExecution, Goto, Locals
  <2>3. Len(execs) + 1 \in DOMAIN execs' /\ execs'[Len(execs) + 1].status = "RUNNING"
    BY <1>1, <2>1
  <2> QED
    BY <1>2, <1>5, <2>2, <2>3 DEF LocalsOK
<1>14. CASE FinishExecution(e)
  <2>1. PICK report \in Reports(work[e].stage) :
          execs' = [execs EXCEPT ![work[e].exec] =
                      [@ EXCEPT !.status = "COMPLETED", !.verdict = report[1],
                                !.failures = report[2], !.tree = disk[Host[e]]]]
    BY <1>14 DEF FinishExecution
  <2>2. /\ seen' = seen /\ left' = left /\ work' = work
        /\ pc[e] = "run" /\ pc'[e] \in {"advance", "evidence"}
    BY <1>1, <1>14 DEF FinishExecution, Goto, HandlerOf
  <2>3. Completed(work[e].exec)'
    <3>1. work[e].exec \in DOMAIN execs /\ execs[work[e].exec] \in Executions
      BY <1>1, <1>2, <2>2 DEF LocalsOK
    <3> QED
      BY <1>1, <2>1, <2>2, <3>1 DEF Completed, Executions
  <2>4. work[e].exec \notin Recorded(seen[e])
    <3>1. ~Completed(work[e].exec)
      BY <1>2, <2>2 DEF LocalsOK, Completed
    <3> QED
      BY <1>2, <3>1 DEF CopyOK
  <2>5. Recorded(seen[e])' = Recorded(seen[e])
    BY <2>2 DEF Recorded
  <2> QED
    BY <1>2, <1>5, <2>2, <2>3, <2>4, <2>5 DEF LocalsOK
<1>15. CASE FailExecution(e)
  <2>1. /\ seen' = seen /\ left' = left /\ work' = work
        /\ pc[e] = "run" /\ pc'[e] = "fail"
    BY <1>1, <1>15 DEF FailExecution, Goto
  <2> QED
    BY <1>2, <1>5, <2>1 DEF LocalsOK
<1>16. CASE RecordEvidence(e)
  <2>1. /\ seen'[e] = wf' /\ left' = left /\ work' = work /\ execs' = execs
        /\ pc[e] = "evidence" /\ pc'[e] = "decide"
    BY <1>1, <1>16 DEF RecordEvidence, Goto
  <2> QED
    BY <1>2, <1>5, <2>1 DEF LocalsOK, Completed
<1>17. CASE HandleDecision(e)
  <2>1. PICK d : Acceptable(wf, d) /\ work' = [work EXCEPT ![e].decision = d]
    <3>1. Acceptable(wf, Plain("ESCALATE"))
      BY DEF Acceptable, CanTransition, Plain, IsRetry
    <3> QED
      BY <1>17, <3>1 DEF HandleDecision
  <2>2. /\ seen'[e] = wf /\ wf' = wf /\ left' = left /\ pc[e] = "decide" /\ pc'[e] = "record"
        /\ work'[e].stage = work[e].stage /\ work'[e].decision = d
    BY <1>1, <1>17, <2>1 DEF HandleDecision, Goto, Locals
  <2> QED
    BY <1>2, <1>5, <2>1, <2>2 DEF LocalsOK, Acceptable, WithinBudget
<1>18. CASE RecordDecision(e)
  <2>1. /\ seen'[e] = wf' /\ left' = left /\ work' = work
        /\ pc[e] = "record" /\ pc'[e] = "execute"
    BY <1>1, <1>18 DEF RecordDecision, Goto
  <2>2. wf'.stage = seen[e].stage /\ wf'.retries = seen[e].retries
    BY <1>1, <1>18 DEF RecordDecision, UpdateIfVersion, Documents
  <2> QED
    BY <1>2, <1>5, <2>1, <2>2 DEF LocalsOK, Acceptable, WithinBudget
<1> QED
  BY <1>6, <1>7, <1>8, <1>9, <1>10, <1>11, <1>12, <1>13, <1>14, <1>15, <1>16, <1>17, <1>18
     DEF Step

LEMMA LocalStep ==
  ASSUME IInv, [Next]_vars
  PROVE  \A f \in Executors : CopyOK(f)' /\ LocalsOK(f)'
<1> SUFFICES ASSUME NEW f \in Executors
             PROVE  CopyOK(f)' /\ LocalsOK(f)'
  OBVIOUS
<1>1. /\ TypeOK /\ pc \in [Executors -> Labels] /\ seen \in [Executors -> Documents]
      /\ work \in [Executors -> Locals] /\ left \in [Executors -> Nat]
  BY DEF IInv, TypeOK, Locals
<1>2. ASSUME NEW e \in Executors, Step(e)
      PROVE  CopyOK(f)' /\ LocalsOK(f)'
  BY <1>1, <1>2, OwnStep, OthersUntouched, UntouchedKeeps
<1>3. ASSUME NEW e \in Executors, NEW n \in CallSizes, Call(e, n)
      PROVE  Untouched(f)
  BY <1>1, <1>3 DEF Call, Untouched
<1>4. ASSUME NEW e \in Executors, Abort(e)
      PROVE  Untouched(f) \/ Dropped(f)
  BY <1>1, <1>4 DEF Abort, Raise, Goto, Untouched, Dropped
<1>5. ASSUME NEW i \in Instances, Restart(i)
      PROVE  Untouched(f) \/ Dropped(f)
  BY <1>1, <1>5 DEF Restart, Untouched, Dropped
<1>6. ASSUME UNCHANGED <<pc, seen, work, left>>
      PROVE  Untouched(f)
  BY <1>6 DEF Untouched
<1>7. RetryFailedWorkflow
      \/ (\E r \in Resolutions, s \in Strategies, b \in BOOLEAN : StartRemediation(r, s, b))
      \/ (\E o \in {"verification_in_progress", "verified"} : MirrorVerification(o))
      \/ UNCHANGED vars
      => UNCHANGED <<pc, seen, work, left>>
  BY DEF RetryFailedWorkflow, StartRemediation, MirrorVerification, Rewrite, vars
<1> QED
  BY <1>2, <1>3, <1>4, <1>5, <1>6, <1>7, UntouchedKeeps, DroppedKeeps DEF Next, Environment

LEMMA OneRunnerStep ==
  ASSUME IInv, [Next]_vars
  PROVE  OneRunner'
<1>1. /\ TypeOK /\ OneRunner /\ \A f \in Executors : pc[f] = "run" => work[f].exec \in DOMAIN execs
      /\ pc \in [Executors -> Labels] /\ work \in [Executors -> Locals] /\ execs \in Seq(Executions)
  BY DEF IInv, TypeOK, LocalsOK, Locals
\* Only StartExecution makes a request run.
<1>2. ASSUME \A f \in Executors : pc'[f] = "run" => pc[f] = "run" /\ work'[f].exec = work[f].exec
      PROVE  OneRunner'
  BY <1>1, <1>2 DEF OneRunner
<1>3. ASSUME NEW e \in Executors, StartExecution(e)
      PROVE  OneRunner'
  <2>1. /\ work'[e].exec = Len(execs) + 1
        /\ \A f \in Executors : f # e => pc'[f] = pc[f] /\ work'[f] = work[f]
    BY <1>1, <1>3 DEF StartExecution, Goto, Locals
  <2>2. \A f \in Executors : f # e /\ pc'[f] = "run" => work'[f].exec # Len(execs) + 1
    BY <1>1, <2>1
  <2> QED
    BY <1>1, <2>1, <2>2 DEF OneRunner
<1>4. ASSUME NEW e \in Executors, Step(e), ~StartExecution(e)
      PROVE  OneRunner'
  <2>1. pc'[e] # "run"
    BY <1>1, <1>4 DEF Step, BeginTerminal, BeginWithoutAgent, Begin, Adopt, SkipWorkspace,
       ReuseWorkspace, CloneWorkspace, CloneFails, Reread, Claim, FinishExecution, FailExecution,
       FailWorkflow, AdvanceToNextStage, RecordEvidence, HandleDecision, RecordDecision,
       ExecuteDecision, VersionConflict, Commit, Return, Raise, Goto, HandlerOf,
       NothingToReconcile
  <2> QED
    BY <1>1, <1>2, <1>4, <2>1, OthersUntouched DEF Untouched
<1>5. ASSUME Environment \/ UNCHANGED vars
      PROVE  \A f \in Executors : pc'[f] = "run" => pc[f] = "run" /\ work'[f].exec = work[f].exec
  <2>1. ASSUME NEW e \in Executors, Abort(e), NEW f \in Executors, pc'[f] = "run"
        PROVE  pc[f] = "run" /\ work'[f].exec = work[f].exec
    BY <1>1, <2>1 DEF Abort, Raise, Goto
  <2>2. ASSUME NEW i \in Instances, Restart(i), NEW f \in Executors, pc'[f] = "run"
        PROVE  pc[f] = "run" /\ work'[f].exec = work[f].exec
    BY <1>1, <2>2 DEF Restart
  <2>3. ASSUME UNCHANGED <<pc, work>>, NEW f \in Executors, pc'[f] = "run"
        PROVE  pc[f] = "run" /\ work'[f].exec = work[f].exec
    BY <2>3
  <2>4. \/ \E e \in Executors : Abort(e)
        \/ \E i \in Instances : Restart(i)
        \/ UNCHANGED <<pc, work>>
    BY <1>5 DEF Environment, Call, RetryFailedWorkflow, StartRemediation, MirrorVerification,
       Rewrite, vars
  <2> QED
    BY <2>1, <2>2, <2>3, <2>4
<1> QED
  BY <1>2, <1>3, <1>4, <1>5 DEF Next

(***************************************************************************)
(* The theorems.                                                           *)
(***************************************************************************)
LEMMA InitIInv == Init => IInv
<1> SUFFICES ASSUME Init
             PROVE  IInv
  OBVIOUS
<1>1. TypeOK
  BY FreshType DEF Init, TypeOK, Labels, NoDir
<1>2. /\ wf.version = 1 /\ wf.artifacts = << >> /\ \A s \in AgentStages : wf.retries[s] = 0
      /\ NewWorkflow(0).version = 0 /\ NewWorkflow(0).artifacts = << >>
  BY DEF Init, NewWorkflow
<1>3. EvidenceSound /\ RetryBudget
  BY <1>2, BudgetAssumption DEF EvidenceSound, RetryBudget, Recorded
<1>4. \A e \in Executors : CopyOK(e) /\ LocalsOK(e)
  BY <1>2 DEF Init, CopyOK, LocalsOK, Recorded
<1>5. OneRunner
  BY DEF Init, OneRunner
<1> QED
  BY <1>1, <1>2, <1>3, <1>4, <1>5 DEF IInv

LEMMA NextIInv == IInv /\ [Next]_vars => IInv'
  BY TypeStep, DocumentStep, LocalStep, OneRunnerStep DEF IInv

\* The invariant that ties every request's copy to the document's version is
\* inductive, for any number of requests and instances and any budgets.
THEOREM Invariance == Spec => []IInv
<1> QED
  BY InitIInv, NextIInv, PTL DEF Spec

\* The document, the executions and every request's locals keep their types.
THEOREM TypeCorrect == Spec => []TypeOK
<1>1. IInv => TypeOK
  BY DEF IInv
<1> QED
  BY <1>1, Invariance, PTL

\* No interleaving of requests retries a stage beyond its budget
\* (_check_retry_budget).
THEOREM BudgetKept == Spec => []RetryBudget
<1>1. IInv => RetryBudget
  BY DEF IInv
<1> QED
  BY <1>1, Invariance, PTL

\* Evidence is recorded once and only from completed executions, whatever was
\* aborted, adopted or raced (_reconcile_stage).
THEOREM EvidenceCorrect == Spec => []EvidenceSound
<1>1. IInv => EvidenceSound
  BY DEF IInv
<1> QED
  BY <1>1, Invariance, PTL

\* No write of the document loses what another request recorded in it
\* (update_if_version).
THEOREM NoLostUpdate == Spec => NothingLost
<1>1. ASSUME IInv, [Next]_vars
      PROVE  [LosesNothing]_vars
  <2>1. /\ wf \in Documents /\ wf.artifacts \in Seq(Nat) /\ wf.retries \in [AgentStages -> Nat]
        /\ wf.resolutions \in SUBSET Resolutions
    <3>1. wf \in Documents
      BY <1>1 DEF IInv, TypeOK
    <3> QED
      BY <3>1, DocumentFields
  <2>2. CASE wf' = wf
    BY <2>1, <2>2 DEF LosesNothing
  <2>3. CASE Evolves
    <3>1. /\ Len(wf.artifacts) <= Len(wf'.artifacts)
          /\ SubSeq(wf'.artifacts, 1, Len(wf.artifacts)) = wf.artifacts
      BY <2>1, <2>3 DEF Evolves, KeepsEvidence
    <3>2. \A s \in AgentStages : wf.retries[s] <= wf'.retries[s]
      <4>1. CASE wf'.retries = wf.retries
        BY <2>1, <4>1
      <4>2. ASSUME NEW t \in AgentStages, wf'.retries = [wf.retries EXCEPT ![t] = @ + 1]
            PROVE  \A s \in AgentStages : wf.retries[s] <= wf'.retries[s]
        BY <2>1, <4>2
      <4> QED
        BY <2>3, <4>1, <4>2 DEF Evolves, KeepsBudget
    <3> QED
      BY <2>3, <3>1, <3>2 DEF LosesNothing, Evolves
  <2> QED
    BY <1>1, <2>2, <2>3, WriteStep
<1> QED
  BY <1>1, Invariance, PTL DEF Spec, NothingLost

\* However late a decision is applied, the stage only moves along the
\* transition policy of the stage the document is in (handle_decision).
THEOREM MovesLegal == Spec => StageMovesLegal
<1>1. ASSUME IInv, [Next]_vars
      PROVE  [LegalMove]_vars
  <2>1. wf' = wf => LegalMove
    BY DEF LegalMove
  <2> QED
    BY <1>1, <2>1, WriteStep DEF Evolves
<1> QED
  BY <1>1, Invariance, PTL DEF Spec, StageMovesLegal
(***************************************************************************)
(* Who writes what.                                                        *)
(***************************************************************************)
Judged == {"TESTING", "DEPLOYMENT"}
Judging == {"evidence", "decide", "record", "execute"}

Cleared(f) == Dropped(f) /\ work'[f] = NoWork

LEMMA Ground ==
  ASSUME IInv
  PROVE  /\ wf \in Documents /\ wf.artifacts \in Seq(Nat)
         /\ wf.status \in WorkflowStatuses /\ wf.stage \in WorkflowStages
         /\ execs \in Seq(Executions) /\ Len(execs) \in Nat /\ DOMAIN execs = 1..Len(execs)
         /\ pc \in [Executors -> Labels] /\ work \in [Executors -> Locals]
         /\ seen \in [Executors -> Documents]
         /\ \A k \in Recorded(wf) : Completed(k)
<1>1. /\ wf \in Documents /\ execs \in Seq(Executions) /\ pc \in [Executors -> Labels]
      /\ work \in [Executors -> Locals] /\ seen \in [Executors -> Documents]
  BY DEF IInv, TypeOK, Locals
<1>2. /\ wf.artifacts \in Seq(Nat) /\ wf.status \in WorkflowStatuses
      /\ wf.stage \in WorkflowStages
  BY <1>1, DocumentFields
<1>3. \A k \in Recorded(wf) : Completed(k)
  BY DEF IInv, EvidenceSound
<1> QED
  BY <1>1, <1>2, <1>3

Handles(e) ==
  \/ CloneWorkspace(e) \/ Claim(e) \/ FailWorkflow(e) \/ AdvanceToNextStage(e)
  \/ RecordEvidence(e) \/ RecordDecision(e) \/ ExecuteDecision(e)

LEMMA Writers ==
  ASSUME [Next]_vars
  PROVE  \/ wf' = wf
         \/ \E e \in Executors : Handles(e)
         \/ RetryFailedWorkflow
         \/ \E r \in Resolutions, s \in Strategies, b \in BOOLEAN : StartRemediation(r, s, b)
         \/ \E outcome \in {"verification_in_progress", "verified"} : MirrorVerification(outcome)
<1>1. ASSUME NEW e \in Executors, Step(e) PROVE wf' = wf \/ Handles(e)
  BY <1>1 DEF Step, Handles, BeginTerminal, BeginWithoutAgent, Begin, Adopt, SkipWorkspace,
     ReuseWorkspace, CloneFails, Reread, StartExecution, FinishExecution, FailExecution,
     HandleDecision, VersionConflict
<1>2. ASSUME \/ \E e \in Executors, n \in CallSizes : Call(e, n)
             \/ \E e \in Executors : Abort(e)
             \/ \E i \in Instances : Restart(i)
             \/ UNCHANGED vars
      PROVE  wf' = wf
  BY <1>2 DEF Call, Abort, Restart, vars
<1> QED
  BY <1>1, <1>2 DEF Next, Environment

\* What each writer of the document makes of it.
LEMMA Written ==
  ASSUME IInv, NEW e \in Executors
  PROVE  /\ CloneWorkspace(e) /\ wf' # wf => /\ wf'.status = wf.status /\ wf'.stage = wf.stage
         /\ Claim(e) => seen[e] = wf /\ wf'.status = "RUNNING" /\ wf'.stage = wf.stage
         /\ FailWorkflow(e) => seen[e] = wf /\ wf'.status = "FAILED" /\ wf'.stage = wf.stage
         /\ AdvanceToNextStage(e) =>
              /\ seen[e] = wf /\ wf'.status # "ESCALATED"
              /\ wf'.artifacts = Append(wf.artifacts, work[e].exec)
         /\ RecordEvidence(e) => /\ seen[e] = wf /\ wf'.status = wf.status /\ wf'.stage = wf.stage
                                 /\ wf'.artifacts = Append(wf.artifacts, work[e].exec)
         /\ RecordDecision(e) => /\ seen[e] = wf /\ wf'.status = wf.status /\ wf'.stage = wf.stage
                                 /\ wf'.active = work[e].decision
         /\ ExecuteDecision(e) =>
              /\ seen[e] = wf /\ pc[e] = "execute"
              /\ wf'.status = Decided(wf, work[e].decision).status
              /\ wf'.stage = Decided(wf, work[e].decision).stage
              /\ wf'.artifacts = wf.artifacts
<1>1. wf \in Documents /\ seen[e] \in Documents /\ work[e].decision \in Decisions
  BY Ground, LocalTypes DEF IInv
<1>2. wf.version = seen[e].version => seen[e] = wf
  BY DEF IInv, CopyOK
<1>3. CloneWorkspace(e) /\ wf' # wf => /\ wf'.status = wf.status /\ wf'.stage = wf.stage
  BY <1>1, <1>2 DEF CloneWorkspace, UpdateIfVersion, Documents
<1>4. Claim(e) => seen[e] = wf /\ wf'.status = "RUNNING" /\ wf'.stage = wf.stage
  BY <1>1, <1>2 DEF Claim, UpdateIfVersion, Documents
<1>5. FailWorkflow(e) => seen[e] = wf /\ wf'.status = "FAILED" /\ wf'.stage = wf.stage
  BY <1>1, <1>2 DEF FailWorkflow, Commit, UpdateIfVersion, Documents
<1>6. AdvanceToNextStage(e) =>
        /\ seen[e] = wf /\ wf'.status # "ESCALATED"
        /\ wf'.artifacts = Append(wf.artifacts, work[e].exec)
  BY <1>1, <1>2 DEF AdvanceToNextStage, Commit, UpdateIfVersion, Documents
<1>7. RecordEvidence(e) => /\ seen[e] = wf /\ wf'.status = wf.status /\ wf'.stage = wf.stage
                           /\ wf'.artifacts = Append(wf.artifacts, work[e].exec)
  BY <1>1, <1>2 DEF RecordEvidence, UpdateIfVersion, Documents
<1>8. RecordDecision(e) => /\ seen[e] = wf /\ wf'.status = wf.status /\ wf'.stage = wf.stage
                           /\ wf'.active = work[e].decision
  BY <1>1, <1>2 DEF RecordDecision, UpdateIfVersion, Documents
<1>9. ASSUME ExecuteDecision(e)
      PROVE  /\ seen[e] = wf /\ pc[e] = "execute"
             /\ wf'.status = Decided(wf, work[e].decision).status
             /\ wf'.stage = Decided(wf, work[e].decision).stage
             /\ wf'.artifacts = wf.artifacts
  <2>1. /\ seen[e] = wf /\ pc[e] = "execute"
        /\ wf' = [Decided(wf, work[e].decision) EXCEPT !.version = wf.version + 1]
    BY <1>2, <1>9 DEF ExecuteDecision, Commit, UpdateIfVersion
  <2>2. Acceptable(wf, work[e].decision)
    BY <2>1 DEF IInv, LocalsOK
  <2>3. Decided(wf, work[e].decision) \in Documents
    BY <1>1, <2>2, DecidedType
  <2>4. Decided(wf, work[e].decision).artifacts = wf.artifacts
    BY <1>1 DEF Decided, Documents
  <2> QED
    BY <2>1, <2>3, <2>4 DEF Documents
<1> QED
  BY <1>3, <1>4, <1>5, <1>6, <1>7, <1>8, <1>9

\* The writers that are not requests.
LEMMA WrittenByOthers ==
  ASSUME IInv
  PROVE  /\ RetryFailedWorkflow =>
              /\ wf.status = "FAILED" /\ wf'.status = "PENDING" /\ wf'.stage = wf.stage
              /\ wf'.reopens > wf.reopens
         /\ \A r, s, b : StartRemediation(r, s, b) =>
              /\ wf.status = "COMPLETED"
              /\ wf.resolutions \subseteq wf'.resolutions /\ wf.resolutions # wf'.resolutions
         /\ \A outcome : MirrorVerification(outcome) =>
              /\ wf'.status = wf.status /\ wf'.stage = wf.stage
<1>1. wf \in Documents /\ wf.reopens \in Nat
  BY Ground, DocumentFields
<1>2. ASSUME NEW r, NEW s, NEW b, StartRemediation(r, s, b)
      PROVE  /\ wf.status = "COMPLETED"
             /\ wf.resolutions \subseteq wf'.resolutions /\ wf.resolutions # wf'.resolutions
  <2>1. wf.status = "COMPLETED" /\ r \notin wf.resolutions
    BY <1>2 DEF StartRemediation
  <2>2. wf'.resolutions = wf.resolutions \cup {r}
    BY <1>1, <1>2 DEF StartRemediation, Rewrite, Documents
  <2> QED
    BY <2>1, <2>2
<1>3. RetryFailedWorkflow =>
        /\ wf.status = "FAILED" /\ wf'.status = "PENDING" /\ wf'.stage = wf.stage
        /\ wf'.reopens > wf.reopens
  <2>1. RetryFailedWorkflow =>
          /\ wf.status = "FAILED" /\ wf'.status = "PENDING" /\ wf'.stage = wf.stage
          /\ wf'.reopens = wf.reopens + 1
    BY <1>1 DEF RetryFailedWorkflow, Rewrite, Documents
  <2> QED
    BY <1>1, <2>1
<1>4. \A outcome : MirrorVerification(outcome) =>
        /\ wf'.status = wf.status /\ wf'.stage = wf.stage
  BY <1>1 DEF MirrorVerification, Rewrite, Documents
<1> QED
  BY <1>2, <1>3, <1>4

\* An execution keeps its stage and input, and all of it once completed.
LEMMA RunsKept ==
  ASSUME IInv, [Next]_vars
  PROVE  /\ \A k \in DOMAIN execs : /\ k \in DOMAIN execs' /\ execs'[k].stage = execs[k].stage
                                    /\ execs'[k].input = execs[k].input
         /\ \A k : Completed(k) => Completed(k)' /\ execs'[k] = execs[k]
<1> DEFINE Goal == /\ \A k \in DOMAIN execs :
                        /\ k \in DOMAIN execs' /\ execs'[k].stage = execs[k].stage
                        /\ execs'[k].input = execs[k].input
                   /\ \A k : Completed(k) => Completed(k)' /\ execs'[k] = execs[k]
<1>1. execs \in Seq(Executions) /\ \A e \in Executors : pc[e] = "run" => RunsOn(e)
  BY Ground DEF IInv, LocalsOK, RunsOn
<1>2. CASE execs' = execs
  BY <1>2 DEF Completed
<1>3. ASSUME NEW e \in Executors, StartExecution(e)
      PROVE  Goal
  <2>1. PICK x : execs' = Append(execs, x)
    BY <1>3 DEF StartExecution
  <2>2. \A k \in DOMAIN execs : k \in DOMAIN execs' /\ execs'[k] = execs[k]
    BY <1>1, <2>1
  <2> QED
    BY <2>2 DEF Completed
<1>4. ASSUME NEW e \in Executors, FinishExecution(e) \/ FailExecution(e)
      PROVE  Goal
  <2>1. pc[e] = "run" /\ work[e].exec \in DOMAIN execs /\ ~Completed(work[e].exec)
    BY <1>1, <1>4 DEF FinishExecution, FailExecution, RunsOn, Completed
  <2>2. PICK x : /\ execs' = [execs EXCEPT ![work[e].exec] = x]
                 /\ x.stage = execs[work[e].exec].stage /\ x.input = execs[work[e].exec].input
    <3>1. execs[work[e].exec] \in Executions
      BY <1>1, <2>1
    <3>2. CASE FinishExecution(e)
      <4>1. PICK report \in Reports(work[e].stage) :
              execs' = [execs EXCEPT ![work[e].exec] =
                          [@ EXCEPT !.status = "COMPLETED", !.verdict = report[1],
                                    !.failures = report[2], !.tree = disk[Host[e]]]]
        BY <3>2 DEF FinishExecution
      <4> DEFINE y == [execs[work[e].exec] EXCEPT !.status = "COMPLETED", !.verdict = report[1],
                                                  !.failures = report[2], !.tree = disk[Host[e]]]
      <4>2. y.stage = execs[work[e].exec].stage /\ y.input = execs[work[e].exec].input
        BY <3>1 DEF Executions
      <4>3. execs' = [execs EXCEPT ![work[e].exec] = y]
        BY <4>1
      <4> QED
        BY <4>2, <4>3
    <3>3. CASE FailExecution(e)
      <4> DEFINE y == [execs[work[e].exec] EXCEPT !.status = "FAILED"]
      <4>1. y.stage = execs[work[e].exec].stage /\ y.input = execs[work[e].exec].input
        BY <3>1 DEF Executions
      <4>2. execs' = [execs EXCEPT ![work[e].exec] = y]
        BY <3>3 DEF FailExecution
      <4> QED
        BY <4>1, <4>2
    <3> QED
      BY <1>4, <3>2, <3>3
  <2>3. /\ DOMAIN execs' = DOMAIN execs
        /\ \A k \in DOMAIN execs : execs'[k] = IF k = work[e].exec THEN x ELSE execs[k]
    BY <1>1, <2>1, <2>2
  <2> QED
    BY <2>1, <2>2, <2>3 DEF Completed
<1> QED
  BY <1>2, <1>3, <1>4, ExecWriters

\* The evidence and the decisions on record only grow.
LEMMA RecordsGrow ==
  ASSUME IInv, [Next]_vars
  PROVE  Recorded(wf) \subseteq Recorded(wf)' /\ decisions \subseteq decisions'
<1>1. wf.artifacts \in Seq(Nat)
  BY Ground
<1>2. \/ wf'.artifacts = wf.artifacts
      \/ \E k : wf'.artifacts = Append(wf.artifacts, k)
  BY WriteStep DEF Evolves, KeepsEvidence
<1>3. Recorded(wf) \subseteq Recorded(wf)'
  <2>1. ASSUME NEW i \in DOMAIN wf.artifacts
        PROVE  i \in DOMAIN wf'.artifacts /\ wf'.artifacts[i] = wf.artifacts[i]
    BY <1>1, <1>2
  <2> QED
    BY <2>1 DEF Recorded
<1>4. decisions \subseteq decisions'
  <2>1. \A e \in Executors : Step(e) => decisions \subseteq decisions'
    BY DEF Step, BeginTerminal, BeginWithoutAgent, Begin, Adopt, SkipWorkspace, ReuseWorkspace,
       CloneWorkspace, CloneFails, Reread, Claim, StartExecution, FinishExecution, FailExecution,
       FailWorkflow, AdvanceToNextStage, RecordEvidence, HandleDecision, RecordDecision,
       ExecuteDecision, VersionConflict, Commit
  <2>2. Environment => decisions' = decisions
    BY DEF Environment, Call, Abort, Restart, RetryFailedWorkflow, StartRemediation,
       MirrorVerification, Rewrite
  <2> QED
    BY <2>1, <2>2 DEF Next, vars
<1> QED
  BY <1>3, <1>4

(***************************************************************************)
(* Where a request's knowledge comes from. A copy that is not terminal     *)
(* stays the request's until it reads or writes again (Unstopped); its     *)
(* input and its execution are of the stage it drives (Made); its decision *)
(* was taken on a recorded execution that calls for it (Weighed).          *)
(***************************************************************************)
Unstopped(e) ==
  /\ pc[e] \in {"reconcile", "fail", "advance", "start", "run"} => ~IsTerminal(seen[e])
  /\ pc[e] = "claim" /\ work[e].stage \notin StagesRequiringWorkspace => ~IsTerminal(seen[e])

Made(e) ==
  /\ Recorded(seen[e]) \subseteq Recorded(wf)
  /\ pc[e] = "idle" => work[e].input = 0
  /\ pc[e] = "reread" => work[e].stage \in StagesRequiringWorkspace
  /\ work[e].input # 0 => /\ work[e].input \in Recorded(wf)
                          /\ execs[work[e].input].stage = InputStage[work[e].stage]
  /\ pc[e] = "run" => /\ execs[work[e].exec].stage = work[e].stage
                      /\ execs[work[e].exec].input = work[e].input
  /\ pc[e] = "advance" => work[e].stage \notin Judged
  /\ pc[e] \in Judging => work[e].stage \in Judged
  /\ pc[e] \in Judging \cup {"advance"} => /\ Completed(work[e].exec)
                                           /\ execs[work[e].exec].stage = work[e].stage

MovesWith(k, d) ==
  d.action \in {"CONTINUE", "COMPLETE"} =>
    execs[k].verdict = "ok" \/ (LeftToAgent(k) /\ d \in Proposals)

Weighed(e) ==
  /\ pc[e] \in {"decide", "record", "execute"} => work[e].exec \in Recorded(wf)
  /\ pc[e] \in {"record", "execute"} => /\ work[e].decision \in decisions
                                        /\ MovesWith(work[e].exec, work[e].decision)
  /\ pc[e] = "execute" => seen[e].active = work[e].decision

Origin(e) == Unstopped(e) /\ Made(e) /\ Weighed(e)

\* Only tests and deployments complete with anything but success.
Products ==
  \A k \in DOMAIN execs : Completed(k) /\ execs[k].stage \notin Judged => execs[k].verdict = "ok"

OriginInv ==
  /\ \A e \in Executors : Origin(e)
  /\ Products
  /\ Provenance

LEMMA OriginKept ==
  ASSUME IInv, OriginInv, [Next]_vars, NEW f \in Executors, Untouched(f)
  PROVE  Origin(f)'
<1>1. Origin(f) /\ LocalsOK(f)
  BY DEF OriginInv, IInv
<1>2. Unstopped(f)'
  BY <1>1 DEF Origin, Unstopped, Untouched, IsTerminal
<1>3. Made(f)'
  <2>1. Recorded(seen[f])' \subseteq Recorded(wf)'
    BY <1>1, RecordsGrow DEF Origin, Made, Recorded, Untouched
  <2>2. ASSUME work[f].input # 0
        PROVE  work[f].input \in Recorded(wf)' /\ execs'[work[f].input].stage = InputStage[work[f].stage]
    BY <1>1, <2>2, RecordsGrow, RunsKept, Ground DEF Origin, Made
  <2>3. ASSUME pc[f] = "run"
        PROVE  /\ execs'[work[f].exec].stage = work[f].stage
               /\ execs'[work[f].exec].input = work[f].input
    BY <1>1, <2>3, RunsKept DEF Origin, Made, LocalsOK
  <2>4. ASSUME pc[f] \in Judging \cup {"advance"}
        PROVE  Completed(work[f].exec)' /\ execs'[work[f].exec].stage = work[f].stage
    <3>1. Completed(work[f].exec) /\ execs[work[f].exec].stage = work[f].stage
      BY <1>1, <2>4 DEF Origin, Made
    <3>2. Completed(work[f].exec)' /\ execs'[work[f].exec] = execs[work[f].exec]
      <4> DEFINE k == work[f].exec
      <4> HIDE DEF k
      <4>1. Completed(k) => execs'[k] = execs[k] /\ k \in DOMAIN execs' /\ execs'[k].status = "COMPLETED"
        BY RunsKept DEF Completed
      <4>2. k = work'[f].exec
        BY DEF k, Untouched
      <4> QED
        BY <3>1, <4>1, <4>2 DEF Completed, k
    <3> QED
      BY <3>1, <3>2
  <2> QED
    BY <1>1, <2>1, <2>2, <2>3, <2>4 DEF Origin, Made, Untouched, Completed
<1>4. Weighed(f)'
  <2>1. ASSUME pc[f] \in {"record", "execute"}
        PROVE  MovesWith(work[f].exec, work[f].decision)'
    <3>1. execs'[work[f].exec] = execs[work[f].exec]
      BY <1>1, <2>1, RunsKept DEF Origin, Made, Judging
    <3> QED
      BY <1>1, <2>1, <3>1 DEF Origin, Weighed, MovesWith, LeftToAgent, Untouched
  <2>2. /\ pc[f] \in {"decide", "record", "execute"} => work[f].exec \in Recorded(wf)'
        /\ pc[f] \in {"record", "execute"} => work[f].decision \in decisions'
    BY <1>1, RecordsGrow DEF Origin, Weighed
  <2> QED
    BY <1>1, <2>1, <2>2 DEF Origin, Weighed, Untouched
<1> QED
  BY <1>2, <1>3, <1>4 DEF Origin

LEMMA ClearedRests ==
  ASSUME IInv, NEW f \in Executors, Cleared(f)
  PROVE  Origin(f)'
<1>1. /\ pc'[f] = "idle" /\ work'[f].input = 0 /\ seen'[f].artifacts = << >>
  BY DEF Cleared, Dropped, NoWork, NewWorkflow
<1>2. Recorded(seen[f])' = {}
  BY <1>1 DEF Recorded
<1> QED
  BY <1>1, <1>2 DEF Origin, Unstopped, Made, Weighed, Judging

\* The decision that is weighed: the table continues after success only.
LEMMA ProposalMoves ==
  ASSUME NEW e \in Executors, work[e].stage \in Judged, execs[work[e].exec].stage = work[e].stage,
         NEW d \in ProposedDecisions(e)
  PROVE  MovesWith(work[e].exec, d)
<1>1. /\ \A c : DeploymentDeterministicAction(c).action \notin {"CONTINUE", "COMPLETE"}
      /\ \A g : IsDeterministic(g) => DeterministicAction(g).action \notin {"CONTINUE", "COMPLETE"}
  <2>1. \A c : DeploymentDeterministicAction(c).action \notin {"CONTINUE", "COMPLETE"}
    BY DEF DeploymentDeterministicAction, Toward, Plain
  <2>2. \A g : IsDeterministic(g) => DeterministicAction(g).action \notin {"CONTINUE", "COMPLETE"}
    BY DEF IsDeterministic, DeterministicAction, TestRouting, Toward, Plain
  <2> QED
    BY <2>1, <2>2
<1>2. Plain("ESCALATE").action = "ESCALATE"
  BY DEF Plain
<1> QED
  BY <1>1, <1>2 DEF ProposedDecisions, MovesWith, LeftToAgent, Judged

\* The input that is taken is recorded, and of the stage before.
LEMMA InputIsRecorded ==
  ASSUME NEW doc, NEW s, NEW a, IsInput(doc, s, a), a # 0
  PROVE  a \in Recorded(doc) /\ execs[a].stage = InputStage[s]
<1>1. PICK i \in DOMAIN doc.artifacts : /\ execs[doc.artifacts[i]].stage = InputStage[s]
                                        /\ a = doc.artifacts[i]
  BY DEF IsInput
<1> QED
  BY <1>1 DEF Recorded

(***************************************************************************)
(* The steps of a request keep what it knows.                              *)
(***************************************************************************)
\* Reads of the document, and the reuse of what is there.
LEMMA ReadsKeep ==
  ASSUME IInv, OriginInv, [Next]_vars, NEW e \in Executors,
         Begin(e) \/ Adopt(e) \/ SkipWorkspace(e) \/ ReuseWorkspace(e) \/ Reread(e)
  PROVE  Origin(e)'
<1>1. Origin(e) /\ pc \in [Executors -> Labels] /\ work \in [Executors -> Locals]
      /\ seen \in [Executors -> Documents]
  BY Ground DEF OriginInv
<1>2. wf' = wf /\ execs' = execs
  BY DEF Begin, Adopt, SkipWorkspace, ReuseWorkspace, Reread
<1>3. CASE Begin(e)
  <2>1. /\ pc'[e] = "reconcile" /\ seen'[e] = wf /\ ~IsTerminal(wf) /\ work'[e].input = 0
    BY <1>1, <1>3 DEF Begin, Goto, Locals, Origin, Made
  <2>2. Recorded(seen[e])' = Recorded(wf)'
    BY <1>2, <2>1 DEF Recorded
  <2> QED
    BY <2>1, <2>2 DEF Origin, Unstopped, Made, Weighed, Judging, IsTerminal
<1>4. CASE Adopt(e)
  <2>1. PICK k \in CompletedRuns(work[e].stage) : work' = [work EXCEPT ![e].exec = k]
    BY <1>4 DEF Adopt
  <2>2. /\ pc[e] = "reconcile" /\ pc'[e] = HandlerOf(work[e].stage) /\ seen' = seen
        /\ work'[e].stage = work[e].stage /\ work'[e].input = work[e].input
        /\ work'[e].exec = k
    BY <1>1, <1>4, <2>1 DEF Adopt, Goto, Locals
  <2>3. Completed(k)' /\ execs'[k].stage = work[e].stage
    BY <1>2, <2>1 DEF CompletedRuns, Completed
  <2>4. Unstopped(e)'
    BY <1>1, <2>2 DEF Origin, Unstopped, HandlerOf, IsTerminal
  <2>5. Made(e)'
    <3>1. Recorded(seen[e])' \subseteq Recorded(wf)'
      BY <1>1, <1>2, <2>2 DEF Origin, Made, Recorded
    <3>2. work'[e].input # 0 => /\ work'[e].input \in Recorded(wf)'
                                /\ execs'[work'[e].input].stage = InputStage[work'[e].stage]
      BY <1>1, <1>2, <2>2 DEF Origin, Made, Recorded
    <3>3. Completed(work[e].exec)' /\ execs'[work'[e].exec].stage = work'[e].stage
      BY <2>2, <2>3 DEF Completed
    <3>4. /\ pc'[e] \in {"advance", "evidence"}
          /\ pc'[e] = "advance" => work'[e].stage \notin Judged
          /\ pc'[e] = "evidence" => work'[e].stage \in Judged
      BY <2>2 DEF HandlerOf, Judged
    <3> QED
      BY <3>1, <3>2, <3>3, <3>4 DEF Made, Judging
  <2> QED
    BY <2>2, <2>4, <2>5 DEF Origin, Weighed, HandlerOf
<1>5. CASE SkipWorkspace(e)
  <2>1. PICK a : IsInput(seen[e], work[e].stage, a) /\ work' = [work EXCEPT ![e].input = a]
    BY <1>5 DEF SkipWorkspace
  <2>2. /\ pc[e] = "reconcile" /\ pc'[e] = "claim" /\ seen' = seen
        /\ work'[e].stage = work[e].stage /\ work'[e].input = a
    BY <1>1, <1>5, <2>1 DEF SkipWorkspace, NothingToReconcile, Goto, Locals
  <2>3. Recorded(seen[e])' = Recorded(seen[e]) /\ Recorded(wf)' = Recorded(wf)
    BY <1>2, <2>2 DEF Recorded
  <2>4. a # 0 => a \in Recorded(wf) /\ execs[a].stage = InputStage[work[e].stage]
    BY <1>1, <2>1, InputIsRecorded DEF Origin, Made
  <2> QED
    BY <1>1, <1>2, <2>2, <2>3, <2>4 DEF Origin, Unstopped, Made, Weighed, Judging, IsTerminal
<1>6. CASE ReuseWorkspace(e)
  <2>1. /\ pc'[e] = "reread" /\ seen' = seen /\ work' = work
        /\ work[e].stage \in StagesRequiringWorkspace
    BY <1>1, <1>6 DEF ReuseWorkspace, Goto
  <2>2. Recorded(seen[e])' = Recorded(seen[e]) /\ Recorded(wf)' = Recorded(wf)
    BY <1>2, <2>1 DEF Recorded
  <2> QED
    BY <1>1, <1>2, <2>1, <2>2 DEF Origin, Unstopped, Made, Weighed, Judging
<1>7. CASE Reread(e)
  <2>1. PICK a : IsInput(wf, work[e].stage, a) /\ work' = [work EXCEPT ![e].input = a]
    BY <1>7 DEF Reread
  <2>2. /\ pc[e] = "reread" /\ pc'[e] = "claim" /\ seen'[e] = wf
        /\ work'[e].stage = work[e].stage /\ work'[e].input = a
    BY <1>1, <1>7, <2>1 DEF Reread, Goto, Locals
  <2>3. Recorded(seen[e])' = Recorded(wf) /\ Recorded(wf)' = Recorded(wf)
    BY <1>2, <2>2 DEF Recorded
  <2>4. a # 0 => a \in Recorded(wf) /\ execs[a].stage = InputStage[work[e].stage]
    BY <2>1, InputIsRecorded
  <2>5. work[e].stage \in StagesRequiringWorkspace
    BY <1>1, <2>2 DEF Origin, Made
  <2> QED
    BY <1>1, <1>2, <2>2, <2>3, <2>4, <2>5
       DEF Origin, Unstopped, Made, Weighed, Judging, IsTerminal
<1> QED
  BY <1>3, <1>4, <1>5, <1>6, <1>7

\* The workspace is cloned, the document claimed, or the request has failed.
LEMMA ClaimsKeep ==
  ASSUME IInv, OriginInv, [Next]_vars, NEW e \in Executors,
         CloneWorkspace(e) \/ CloneFails(e) \/ Claim(e) \/ FailExecution(e)
  PROVE  Origin(e)'
<1>1. /\ Origin(e) /\ pc \in [Executors -> Labels] /\ work \in [Executors -> Locals]
      /\ seen \in [Executors -> Documents]
      /\ work[e].input # 0 => Completed(work[e].input)
  <2>1. Origin(e) /\ work[e].input # 0 => Completed(work[e].input)
    BY Ground DEF Origin, Made
  <2> QED
    BY <2>1, Ground DEF OriginInv
\* The input stays what it was, whatever else is recorded meanwhile.
<1>2. ASSUME work' = work, Recorded(seen[e])' \subseteq Recorded(wf)',
             pc'[e] \in {"reread", "fail", "start"},
             pc'[e] = "reread" => work[e].stage \in StagesRequiringWorkspace
      PROVE  Made(e)'
  BY <1>1, <1>2, RecordsGrow, RunsKept DEF Origin, Made, Judging
<1>3. ASSUME seen' = seen
      PROVE  Recorded(seen[e])' \subseteq Recorded(wf)'
  BY <1>1, <1>3, RecordsGrow DEF Origin, Made, Recorded
<1>4. CASE CloneWorkspace(e) \/ CloneFails(e)
  <2>1. pc[e] = "reconcile" /\ work[e].stage \in StagesRequiringWorkspace
    BY <1>4 DEF CloneWorkspace, CloneFails, NothingToReconcile
  <2>2. CASE Raise(e)
    BY <1>1, <2>2, ClearedRests DEF Raise, Goto, Cleared, Dropped
  <2>3. CASE UNCHANGED <<seen, work>> /\ (Goto(e, "reread") \/ Goto(e, "fail"))
    <3>1. pc'[e] \in {"reread", "fail"} /\ work' = work /\ seen' = seen
      BY <1>1, <2>3 DEF Goto
    <3>2. ~IsTerminal(seen[e])'
      BY <1>1, <2>1, <3>1 DEF Origin, Unstopped, IsTerminal
    <3> QED
      BY <1>2, <1>3, <2>1, <3>1, <3>2 DEF Origin, Unstopped, Weighed
  <2> QED
    BY <1>4, <2>2, <2>3 DEF CloneWorkspace, CloneFails
<1>5. CASE Claim(e)
  <2>1. /\ pc[e] = "claim" /\ pc'[e] = "start" /\ work' = work /\ seen'[e] = wf'
    BY <1>1, <1>5 DEF Claim, Goto
  <2>2. Recorded(seen[e])' = Recorded(wf)'
    BY <2>1 DEF Recorded
  <2>3. ~IsTerminal(seen[e])'
    BY <1>5, <2>1, Written DEF IsTerminal, TerminalStatuses
  <2> QED
    BY <1>2, <2>1, <2>2, <2>3 DEF Origin, Unstopped, Weighed
<1>6. CASE FailExecution(e)
  <2>1. /\ pc[e] = "run" /\ pc'[e] = "fail" /\ work' = work /\ seen' = seen
    BY <1>1, <1>6 DEF FailExecution, Goto
  <2>2. ~IsTerminal(seen[e])'
    BY <1>1, <2>1 DEF Origin, Unstopped, IsTerminal
  <2> QED
    BY <1>2, <1>3, <2>1, <2>2 DEF Origin, Unstopped, Weighed
<1> QED
  BY <1>4, <1>5, <1>6

LEMMA RunsKeep ==
  ASSUME IInv, OriginInv, [Next]_vars, NEW e \in Executors,
         StartExecution(e) \/ FinishExecution(e)
  PROVE  Origin(e)'
<1>1. /\ Origin(e) /\ LocalsOK(e) /\ pc \in [Executors -> Labels] /\ work \in [Executors -> Locals]
      /\ seen \in [Executors -> Documents] /\ execs \in Seq(Executions)
      /\ work[e].input # 0 => Completed(work[e].input)
  <2>1. Origin(e) /\ work[e].input # 0 => Completed(work[e].input)
    BY Ground DEF Origin, Made
  <2> QED
    BY <2>1, Ground DEF OriginInv, IInv
<1>2. wf' = wf /\ seen' = seen
  BY DEF StartExecution, FinishExecution
<1>3. Recorded(seen[e])' \subseteq Recorded(wf)'
  BY <1>1, <1>2 DEF Origin, Made, Recorded
<1>4. work[e].input # 0 => /\ work[e].input \in Recorded(wf)'
                           /\ execs'[work[e].input].stage = InputStage[work[e].stage]
  BY <1>1, RecordsGrow, RunsKept DEF Origin, Made
<1>5. CASE StartExecution(e)
  <2>1. /\ pc[e] = "start" /\ pc'[e] = "run" /\ work'[e].exec = Len(execs) + 1
        /\ work'[e].stage = work[e].stage /\ work'[e].input = work[e].input
    BY <1>1, <1>5 DEF StartExecution, Goto, Locals
  <2>2. PICK x : execs' = Append(execs, x) /\ x.stage = work[e].stage /\ x.input = work[e].input
    BY <1>5 DEF StartExecution
  <2>3. execs'[Len(execs) + 1] = x
    BY <1>1, <2>2
  <2> QED
    BY <1>1, <1>2, <1>3, <1>4, <2>1, <2>2, <2>3
       DEF Origin, Unstopped, Made, Weighed, Judging, IsTerminal
<1>6. CASE FinishExecution(e)
  <2>1. /\ pc[e] = "run" /\ pc'[e] = HandlerOf(work[e].stage) /\ work' = work
    BY <1>1, <1>6 DEF FinishExecution, Goto
  <2>2. Completed(work[e].exec)' /\ execs'[work[e].exec].stage = work[e].stage
    <3>1. work[e].exec \in DOMAIN execs /\ execs[work[e].exec].stage = work[e].stage
      BY <1>1, <2>1 DEF Origin, Made, LocalsOK
    <3>2. LocalsOK(e)' /\ pc'[e] \in {"advance", "evidence"}
      BY <2>1, LocalStep DEF HandlerOf
    <3> QED
      BY <3>1, <3>2, RunsKept DEF LocalsOK
  <2>3. execs'[work'[e].exec].stage = work'[e].stage
    BY <2>1, <2>2
  <2>4. /\ pc'[e] \in {"advance", "evidence"}
        /\ pc'[e] = "advance" => work'[e].stage \notin Judged
        /\ pc'[e] = "evidence" => work'[e].stage \in Judged
    BY <2>1 DEF HandlerOf, Judged
  <2>5. Made(e)'
    BY <1>3, <1>4, <2>1, <2>2, <2>3, <2>4 DEF Made, Judging
  <2> QED
    BY <1>1, <1>2, <2>1, <2>4, <2>5 DEF Origin, Unstopped, Weighed, IsTerminal
<1> QED
  BY <1>5, <1>6

\* From the evidence over the decision to its record: the execution is the same.
LEMMA DecisionsKeep ==
  ASSUME IInv, OriginInv, [Next]_vars, NEW e \in Executors,
         RecordEvidence(e) \/ HandleDecision(e) \/ RecordDecision(e)
  PROVE  Origin(e)'
<1> DEFINE k == work[e].exec
<1>1. /\ Origin(e) /\ pc \in [Executors -> Labels] /\ work \in [Executors -> Locals]
      /\ wf.artifacts \in Seq(Nat) /\ k \in Nat
      /\ work[e].input # 0 => Completed(work[e].input)
  <2>1. Origin(e) /\ work[e].input # 0 => Completed(work[e].input)
    BY Ground DEF Origin, Made
  <2> QED
    BY <2>1, Ground, LocalTypes DEF OriginInv, IInv
<1>2. /\ pc[e] \in {"evidence", "decide", "record"} /\ pc'[e] \in {"decide", "record", "execute"}
      /\ execs' = execs /\ seen'[e] = wf'
      /\ work'[e].stage = work[e].stage /\ work'[e].input = work[e].input /\ work'[e].exec = k
  BY <1>1, Ground DEF RecordEvidence, HandleDecision, RecordDecision, Goto, Locals
<1>3. Completed(k) /\ execs[k].stage = work[e].stage /\ work[e].stage \in Judged
  BY <1>1, <1>2 DEF Origin, Made, Judging
<1>4. Made(e)'
  <2>1. Recorded(seen[e])' \subseteq Recorded(wf)'
    BY <1>2 DEF Recorded
  <2>2. work[e].input # 0 => /\ work[e].input \in Recorded(wf)'
                             /\ execs[work[e].input].stage = InputStage[work[e].stage]
    BY <1>1, RecordsGrow DEF Origin, Made
  <2>3. Completed(work[e].exec)'
    BY <1>2, <1>3 DEF Completed
  <2> QED
    BY <1>2, <1>3, <2>1, <2>2, <2>3 DEF Made, Judging
<1>5. CASE RecordEvidence(e)
  <2>1. wf'.artifacts = Append(wf.artifacts, k)
    BY <1>5, Written
  <2>2. k \in Recorded(wf)'
    <3>1. /\ Len(wf.artifacts) + 1 \in DOMAIN wf'.artifacts
          /\ wf'.artifacts[Len(wf.artifacts) + 1] = k
      BY <1>1, <2>1
    <3> QED
      BY <3>1 DEF Recorded
  <2>3. pc'[e] = "decide"
    BY <1>1, <1>5 DEF RecordEvidence, Goto
  <2> QED
    BY <1>2, <1>4, <2>2, <2>3 DEF Origin, Unstopped, Weighed
<1>6. CASE HandleDecision(e)
  <2>1. PICK p \in ProposedDecisions(e) :
          LET d == IF Acceptable(wf, p) THEN p ELSE Plain("ESCALATE")
          IN  decisions' = decisions \cup {d} /\ work' = [work EXCEPT ![e].decision = d]
    BY <1>6 DEF HandleDecision
  <2> DEFINE d == IF Acceptable(wf, p) THEN p ELSE Plain("ESCALATE")
  <2>2. MovesWith(k, d)
    <3>1. MovesWith(k, p)
      BY <1>3, ProposalMoves
    <3>2. MovesWith(k, Plain("ESCALATE"))
      BY DEF MovesWith, Plain
    <3> QED
      BY <3>1, <3>2
  <2>3. /\ d \in decisions' /\ work'[e].decision = d /\ pc[e] = "decide" /\ pc'[e] = "record"
        /\ k \in Recorded(wf)'
    BY <1>1, <1>6, <2>1, RecordsGrow DEF HandleDecision, Goto, Locals, Origin, Weighed
  <2> HIDE DEF d
  <2>4. MovesWith(work[e].exec, work[e].decision)'
    BY <1>2, <2>2, <2>3 DEF MovesWith, LeftToAgent
  <2> QED
    BY <1>2, <1>4, <2>3, <2>4 DEF Origin, Unstopped, Weighed
<1>7. CASE RecordDecision(e)
  <2>1. /\ pc[e] = "record" /\ pc'[e] = "execute" /\ work' = work
        /\ wf'.active = work[e].decision /\ decisions' = decisions
    BY <1>1, <1>7, Written DEF RecordDecision, Goto
  <2>2. /\ k \in Recorded(wf)' /\ work[e].decision \in decisions
        /\ MovesWith(k, work[e].decision)
    BY <1>1, <2>1, RecordsGrow DEF Origin, Weighed
  <2>3. MovesWith(work[e].exec, work[e].decision)'
    BY <1>2, <2>1, <2>2 DEF MovesWith, LeftToAgent
  <2> QED
    BY <1>2, <1>4, <2>1, <2>2, <2>3 DEF Origin, Unstopped, Weighed
<1> QED
  BY <1>5, <1>6, <1>7

LEMMA OriginStep ==
  ASSUME IInv, OriginInv, [Next]_vars
  PROVE  \A f \in Executors : Origin(f)'
<1> SUFFICES ASSUME NEW f \in Executors
             PROVE  Origin(f)'
  OBVIOUS
<1>1. /\ TypeOK /\ pc \in [Executors -> Labels] /\ seen \in [Executors -> Documents]
      /\ work \in [Executors -> Locals] /\ left \in [Executors -> Nat]
  BY Ground DEF IInv, TypeOK
<1>2. ASSUME NEW e \in Executors, Step(e)
      PROVE  Origin(f)'
  <2>1. CASE f # e
    BY <1>1, <1>2, <2>1, OthersUntouched, OriginKept
  <2>2. CASE BeginTerminal(e) \/ BeginWithoutAgent(e) \/ VersionConflict(e)
             \/ FailWorkflow(e) \/ AdvanceToNextStage(e) \/ ExecuteDecision(e)
    <3>1. Cleared(e)
      BY <1>1, <2>2 DEF BeginTerminal, BeginWithoutAgent, VersionConflict, FailWorkflow,
         AdvanceToNextStage, ExecuteDecision, Commit, Return, Raise, Goto, Cleared, Dropped
    <3> QED
      BY <2>1, <3>1, ClearedRests
  <2> QED
    BY <1>2, <2>1, <2>2, ReadsKeep, ClaimsKeep, RunsKeep, DecisionsKeep DEF Step
<1>3. ASSUME NEW e \in Executors, NEW n \in CallSizes, Call(e, n)
      PROVE  Untouched(f)
  BY <1>1, <1>3 DEF Call, Untouched
<1>4. ASSUME NEW e \in Executors, Abort(e)
      PROVE  Untouched(f) \/ Cleared(f)
  BY <1>1, <1>4 DEF Abort, Raise, Goto, Untouched, Cleared, Dropped
<1>5. ASSUME NEW i \in Instances, Restart(i)
      PROVE  Untouched(f) \/ Cleared(f)
  BY <1>1, <1>5 DEF Restart, Untouched, Cleared, Dropped
<1>6. RetryFailedWorkflow
      \/ (\E r \in Resolutions, s \in Strategies, b \in BOOLEAN : StartRemediation(r, s, b))
      \/ (\E o \in {"verification_in_progress", "verified"} : MirrorVerification(o))
      \/ UNCHANGED vars
      => Untouched(f)
  BY DEF RetryFailedWorkflow, StartRemediation, MirrorVerification, Rewrite, vars, Untouched
<1> QED
  BY <1>2, <1>3, <1>4, <1>5, <1>6, OriginKept, ClearedRests DEF Next, Environment

(***************************************************************************)
(* What executions worked from, and what is live.                          *)
(***************************************************************************)
LEMMA LiveWriters ==
  ASSUME [Next]_vars
  PROVE  \/ live' = live
         \/ \E e \in Executors : /\ pc[e] = "run" /\ work[e].stage = "DEPLOYMENT"
                                 /\ live' = work[e].input
<1>1. ASSUME NEW e \in Executors, FinishExecution(e) \/ FailExecution(e) \/ Abort(e)
      PROVE  live' = live \/ (pc[e] = "run" /\ work[e].stage = "DEPLOYMENT" /\ live' = work[e].input)
  BY <1>1 DEF FinishExecution, FailExecution, Abort, PartialEffect
<1>2. ASSUME NEW i \in Instances, Restart(i)
      PROVE  \/ live' = live
             \/ \E e \in Executors : /\ pc[e] = "run" /\ work[e].stage = "DEPLOYMENT"
                                     /\ live' = work[e].input
  BY <1>2 DEF Restart
<1>3. ASSUME NEW e \in Executors, Step(e)
      PROVE  live' = live \/ FinishExecution(e) \/ FailExecution(e)
  BY <1>3 DEF Step, BeginTerminal, BeginWithoutAgent, Begin, Adopt, SkipWorkspace, ReuseWorkspace,
     CloneWorkspace, CloneFails, Reread, Claim, StartExecution,
     FailWorkflow, AdvanceToNextStage, RecordEvidence, HandleDecision, RecordDecision,
     ExecuteDecision, VersionConflict, Commit
<1> QED
  BY <1>1, <1>2, <1>3 DEF Next, Environment, Call, RetryFailedWorkflow, StartRemediation,
     MirrorVerification, Rewrite, vars

\* The executions that are there after a step: those before it, or one more.
LEMMA RunCases ==
  ASSUME IInv, [Next]_vars, NEW k \in DOMAIN execs'
  PROVE  \/ k \in DOMAIN execs /\ (Completed(k)' => Completed(k))
         \/ /\ k \in DOMAIN execs
            /\ \E e \in Executors : k = work[e].exec /\ pc[e] = "run" /\ FinishExecution(e)
         \/ /\ k = Len(execs) + 1 /\ ~Completed(k)'
            /\ \E e \in Executors : /\ execs'[k].stage = work[e].stage
                                    /\ execs'[k].input = work[e].input
<1>1. execs \in Seq(Executions) /\ \A e \in Executors : pc[e] = "run" => RunsOn(e)
  BY Ground DEF IInv, LocalsOK, RunsOn
<1>2. CASE execs' = execs
  BY <1>2 DEF Completed
<1>3. ASSUME NEW e \in Executors, StartExecution(e)
      PROVE  \/ k \in DOMAIN execs /\ (Completed(k)' => Completed(k))
             \/ /\ k = Len(execs) + 1 /\ ~Completed(k)'
                /\ execs'[k].stage = work[e].stage /\ execs'[k].input = work[e].input
  <2>1. PICK x : /\ execs' = Append(execs, x) /\ x.status = "RUNNING"
                 /\ x.stage = work[e].stage /\ x.input = work[e].input
    BY <1>3 DEF StartExecution
  <2>2. k \in DOMAIN execs => execs'[k] = execs[k]
    BY <1>1, <2>1
  <2>3. k \notin DOMAIN execs => k = Len(execs) + 1 /\ execs'[k] = x
    BY <1>1, <2>1
  <2> QED
    BY <2>1, <2>2, <2>3 DEF Completed
<1>4. ASSUME NEW e \in Executors, FinishExecution(e) \/ FailExecution(e)
      PROVE  \/ k \in DOMAIN execs /\ (Completed(k)' => Completed(k))
             \/ k \in DOMAIN execs /\ k = work[e].exec /\ pc[e] = "run" /\ FinishExecution(e)
  <2>1. PICK x : execs' = [execs EXCEPT ![work[e].exec] = x]
    BY <1>4 DEF FinishExecution, FailExecution
  <2>2. pc[e] = "run" /\ work[e].exec \in DOMAIN execs
    BY <1>1, <1>4 DEF FinishExecution, FailExecution, RunsOn
  <2>3. k \in DOMAIN execs /\ (k # work[e].exec => execs'[k] = execs[k])
    BY <1>1, <2>1
  <2>4. CASE FailExecution(e) /\ k = work[e].exec
    <3>1. execs' = [execs EXCEPT ![k] = [execs[k] EXCEPT !.status = "FAILED"]]
      BY <2>4 DEF FailExecution
    <3>2. execs[k] \in Executions /\ k \in DOMAIN execs
      BY <1>1, <2>3
    <3>3. execs'[k].status = "FAILED"
      BY <1>1, <3>1, <3>2 DEF Executions
    <3> QED
      BY <2>3, <3>3 DEF Completed
  <2> QED
    BY <1>4, <2>2, <2>3, <2>4 DEF Completed
<1> QED
  BY <1>2, <1>3, <1>4, ExecWriters

\* A run that is finished was given its input, and reports what its stage can.
LEMMA Finishing ==
  ASSUME IInv, OriginInv, NEW e \in Executors, FinishExecution(e), pc[e] = "run"
  PROVE  LET k == work[e].exec
         IN  /\ execs[k].stage = work[e].stage /\ execs[k].input = work[e].input
             /\ InputStage[execs[k].stage] # NoStage => execs[k].input # 0
             /\ execs[k].stage \notin Judged => execs'[k].verdict = "ok"
<1> DEFINE k == work[e].exec
<1>1. /\ execs \in Seq(Executions) /\ k \in DOMAIN execs /\ execs[k] \in Executions
      /\ execs[k].stage = work[e].stage /\ execs[k].input = work[e].input
  BY Ground DEF IInv, LocalsOK, OriginInv, Origin, Made
<1>2. InputStage[execs[k].stage] # NoStage => execs[k].input # 0
  BY <1>1 DEF FinishExecution, HasInput
<1>3. PICK report \in Reports(work[e].stage) :
        execs' = [execs EXCEPT ![work[e].exec] =
                    [@ EXCEPT !.status = "COMPLETED", !.verdict = report[1],
                              !.failures = report[2], !.tree = disk[Host[e]]]]
  BY DEF FinishExecution
<1>4. execs'[k].verdict = report[1]
  BY <1>1, <1>3 DEF Executions
<1>5. work[e].stage \notin Judged => report[1] = "ok"
  BY <1>3 DEF Reports, Judged
<1> QED
  BY <1>1, <1>2, <1>4, <1>5

LEMMA ProvenanceStep ==
  ASSUME IInv, OriginInv, [Next]_vars
  PROVE  Products' /\ Provenance'
<1>1. /\ Products /\ Provenance /\ Len(execs) \in Nat /\ DOMAIN execs = 1..Len(execs)
      /\ \A k \in Recorded(wf) : k \in DOMAIN execs
  BY Ground DEF OriginInv, Completed
<1>2. Products'
  <2> SUFFICES ASSUME NEW k \in DOMAIN execs', Completed(k)', execs'[k].stage \notin Judged
               PROVE  execs'[k].verdict = "ok"
    BY DEF Products
  <2>1. k \in DOMAIN execs => execs'[k].stage = execs[k].stage
    BY RunsKept
  <2>2. CASE k \in DOMAIN execs /\ Completed(k)
    BY <1>1, <2>1, <2>2, RunsKept DEF Products
  <2>3. ASSUME NEW e \in Executors, k = work[e].exec, pc[e] = "run", FinishExecution(e),
               k \in DOMAIN execs
        PROVE  execs'[k].verdict = "ok"
    BY <2>1, <2>3, Finishing
  <2> QED
    BY <2>2, <2>3, RunCases
<1>3. ASSUME NEW k \in DOMAIN execs', Completed(k)', InputStage[execs'[k].stage] # NoStage
      PROVE  execs'[k].input # 0
  <2>1. k \in DOMAIN execs => execs'[k].stage = execs[k].stage /\ execs'[k].input = execs[k].input
    BY RunsKept
  <2>2. CASE k \in DOMAIN execs /\ Completed(k)
    BY <1>1, <1>3, <2>1, <2>2 DEF Provenance
  <2>3. ASSUME NEW e \in Executors, k = work[e].exec, pc[e] = "run", FinishExecution(e),
               k \in DOMAIN execs
        PROVE  execs'[k].input # 0
    BY <1>3, <2>1, <2>3, Finishing
  <2> QED
    BY <1>3, <2>2, <2>3, RunCases
<1>4. ASSUME NEW k \in DOMAIN execs', execs'[k].input # 0
      PROVE  /\ execs'[k].input \in Recorded(wf)' /\ execs'[k].input < k
             /\ execs'[execs'[k].input].stage = InputStage[execs'[k].stage]
  <2>1. CASE k \in DOMAIN execs
    <3>1. execs'[k].stage = execs[k].stage /\ execs'[k].input = execs[k].input
      BY <2>1, RunsKept
    <3>2. /\ execs[k].input \in Recorded(wf) /\ execs[k].input < k
          /\ execs[execs[k].input].stage = InputStage[execs[k].stage]
      BY <1>1, <1>4, <2>1, <3>1 DEF Provenance
    <3> QED
      BY <1>1, <3>1, <3>2, RunsKept, RecordsGrow
  <2>2. ASSUME NEW e \in Executors, k = Len(execs) + 1,
               execs'[k].stage = work[e].stage, execs'[k].input = work[e].input
        PROVE  /\ execs'[k].input \in Recorded(wf)' /\ execs'[k].input < k
               /\ execs'[execs'[k].input].stage = InputStage[execs'[k].stage]
    <3>1. /\ work[e].input \in Recorded(wf)
          /\ execs[work[e].input].stage = InputStage[work[e].stage]
      BY <1>4, <2>2 DEF OriginInv, Origin, Made
    <3>2. work[e].input \in 1..Len(execs)
      BY <1>1, <3>1
    <3> QED
      BY <1>1, <2>2, <3>1, <3>2, RunsKept, RecordsGrow
  <2> QED
    BY <2>1, <2>2, RunCases
<1>5. ASSUME live' # 0
      PROVE  \E k \in DOMAIN execs' : execs'[k].stage = "DEPLOYMENT" /\ execs'[k].input = live'
  <2>1. CASE live' = live
    BY <1>1, <1>5, <2>1, RunsKept DEF Provenance
  <2>2. ASSUME NEW e \in Executors, pc[e] = "run", work[e].stage = "DEPLOYMENT",
               live' = work[e].input
        PROVE  \E k \in DOMAIN execs' : execs'[k].stage = "DEPLOYMENT" /\ execs'[k].input = live'
    <3>1. /\ work[e].exec \in DOMAIN execs /\ execs[work[e].exec].stage = "DEPLOYMENT"
          /\ execs[work[e].exec].input = live'
      BY <2>2 DEF IInv, LocalsOK, OriginInv, Origin, Made
    <3> QED
      BY <3>1, RunsKept
  <2> QED
    BY <2>1, <2>2, LiveWriters
<1> QED
  BY <1>2, <1>3, <1>4, <1>5 DEF Provenance

LEMMA InitOrigin == Init => OriginInv
<1> SUFFICES ASSUME Init
             PROVE  OriginInv
  OBVIOUS
<1>1. /\ execs = << >> /\ live = 0 /\ wf.artifacts = << >>
      /\ \A e \in Executors : pc[e] = "idle" /\ work[e].input = 0 /\ seen[e].artifacts = << >>
  BY DEF Init, NewWorkflow, NoWork
<1>2. \A e \in Executors : Origin(e)
  BY <1>1 DEF Origin, Unstopped, Made, Weighed, Recorded, Judging
<1>3. DOMAIN execs = {}
  BY <1>1
<1> QED
  BY <1>1, <1>2, <1>3 DEF OriginInv, Products, Provenance

LEMMA Origins == Spec => [](IInv /\ OriginInv)
<1>1. Init => IInv /\ OriginInv
  BY InitIInv, InitOrigin
<1>2. IInv /\ OriginInv /\ [Next]_vars => (IInv /\ OriginInv)'
  <2> SUFFICES ASSUME IInv, OriginInv, [Next]_vars
               PROVE  IInv' /\ OriginInv'
    OBVIOUS
  <2>1. \A e \in Executors : Origin(e)'
    BY OriginStep
  <2> QED
    BY <2>1, NextIInv, ProvenanceStep DEF OriginInv
<1> QED
  BY <1>1, <1>2, PTL DEF Spec

(***************************************************************************)
(* What follows for any requests that race.                                *)
(***************************************************************************)
\* Every execution, and what is live, goes back to recorded artifacts of the
\* stages before (_resolve_input_artifact_id), however requests race and die.
THEOREM ProvenanceKept == Spec => []Provenance
<1>1. OriginInv => Provenance
  BY DEF OriginInv
<1> QED
  BY <1>1, Origins, PTL

\* A stopped workflow runs again by hand, by a new resolution, or by a request
\* that read it after it stopped; no result on an older read revives it.
THEOREM NothingRevives == Spec => ResultsReviveNothing
<1>1. IInv /\ OriginInv /\ [Next]_vars => [LeftKnowingly]_vars
  <2> SUFFICES ASSUME IInv, OriginInv, [Next]_vars,
                      IsTerminal(wf), wf'.status # wf.status, ~LeftByHand
               PROVE  LeftKnowingly
    BY DEF LeftKnowingly, LeftByHand
  <2>1. PICK e \in Executors : Handles(e)
    BY Writers, WrittenByOthers DEF LeftByHand
  <2>2. pc \in [Executors -> Labels] /\ Unstopped(e) /\ Weighed(e)
    BY Ground DEF OriginInv, Origin
  <2>3. CASE Claim(e)
    <3>1. pc[e] = "claim" /\ pc'[e] = "start" /\ seen[e] = wf
      BY <2>2, <2>3, Written DEF Claim, Goto
    <3>2. work[e].stage \in StagesRequiringWorkspace
      BY <2>2, <3>1 DEF Unstopped
    <3> QED
      BY <3>1, <3>2 DEF LeftKnowingly
  <2>4. CASE FailWorkflow(e) \/ AdvanceToNextStage(e)
    <3>1. pc[e] \in {"fail", "advance"} /\ seen[e] = wf
      BY <2>4, Written DEF FailWorkflow, AdvanceToNextStage
    <3> QED
      BY <2>2, <3>1 DEF Unstopped
  <2>5. CASE ExecuteDecision(e)
    <3>1. pc[e] = "execute" /\ seen[e] = wf /\ pc'[e] = "idle"
      BY <2>2, <2>5, Written DEF ExecuteDecision, Commit, Return, Goto
    <3>2. wf.active = work[e].decision
      BY <2>2, <3>1 DEF Weighed
    <3> QED
      BY <3>1, <3>2 DEF LeftKnowingly
  <2>6. ~CloneWorkspace(e) /\ ~RecordEvidence(e) /\ ~RecordDecision(e)
    BY Written
  <2> QED
    BY <2>1, <2>3, <2>4, <2>5, <2>6 DEF Handles
<1> QED
  BY <1>1, Origins, PTL DEF Spec, ResultsReviveNothing

\* A workflow is escalated by its active decision, which is on record, or by a
\* resolution (handle_decision, start_remediation_from_resolution).
THEOREM EscalationsOnRecord == Spec => EscalationsRecorded
<1>1. IInv /\ OriginInv /\ [Next]_vars => [Escalates]_vars
  <2> SUFFICES ASSUME IInv, OriginInv, [Next]_vars,
                      wf'.status = "ESCALATED", wf.status # "ESCALATED",
                      wf.resolutions = wf'.resolutions
               PROVE  wf.active.action = "ESCALATE" /\ wf.active \in decisions
    BY DEF Escalates
  <2>1. PICK e \in Executors : ExecuteDecision(e)
    BY Writers, Written, WrittenByOthers DEF Handles
  <2>2. /\ seen[e] = wf /\ pc[e] = "execute"
        /\ Decided(wf, work[e].decision).status = "ESCALATED"
    BY <2>1, Written
  <2>3. /\ wf.active = work[e].decision /\ work[e].decision \in decisions
        /\ Acceptable(wf, work[e].decision)
    BY <2>2 DEF IInv, LocalsOK, OriginInv, Origin, Weighed
  <2>4. wf \in Documents
    BY Ground
  <2>5. work[e].decision.action \notin {"CONTINUE", "COMPLETE", "RETRY", "REPLAN", "FAIL"}
    BY <2>2, <2>4 DEF Decided, IsRetry, Documents
  <2> QED
    BY <2>3, <2>5 DEF Acceptable, CanTransition, IsRetry
<1> QED
  BY <1>1, Origins, PTL DEF Spec, EscalationsRecorded

\* A retry leads nowhere forward.
LEMMA RetryTurnsBack ==
  ASSUME NEW s \in WorkflowStages, NEW t \in AllowedRetryTargets[s],
         t \in {NextStage[s], "COMPLETED"} \ {s}
  PROVE  FALSE
  BY DEF WorkflowStages, AgentStages, AllowedRetryTargets, NextStage

\* A workflow moves on only by evidence: recorded with the move, or weighed by
\* a recorded decision (_advance_to_next_stage, _handle_testing_result,
\* _handle_deployment_result).
THEOREM EvidenceMoves == Spec => MovedOnByEvidence
<1>1. IInv /\ OriginInv /\ [Next]_vars => [EvidenceMovesIt]_vars
  <2> SUFFICES ASSUME IInv, OriginInv, [Next]_vars,
                      MovesOn
               PROVE  EvidenceMovesIt
    BY DEF EvidenceMovesIt
  <2>1. /\ wf \in Documents /\ wf.stage \in WorkflowStages /\ wf.artifacts \in Seq(Nat)
        /\ pc \in [Executors -> Labels]
    BY Ground
  <2>2. PICK e \in Executors : AdvanceToNextStage(e) \/ ExecuteDecision(e)
    BY Writers, Written, WrittenByOthers DEF Handles, MovesOn
  <2> DEFINE k == work[e].exec
  <2>3. /\ LocalsOK(e) /\ Made(e) /\ Weighed(e) /\ Products /\ k \in Nat /\ pc'[e] # pc[e]
    BY <2>1, <2>2, LocalTypes
       DEF IInv, OriginInv, Origin, AdvanceToNextStage, ExecuteDecision, Commit, Return, Goto
  <2>4. CASE AdvanceToNextStage(e)
    <3>1. pc[e] = "advance" /\ seen[e] = wf /\ wf'.artifacts = Append(wf.artifacts, k)
      BY <2>4, Written DEF AdvanceToNextStage
    <3>2. /\ Completed(k) /\ k \notin Recorded(wf) /\ execs[k].stage \notin Judged
      BY <2>3, <3>1 DEF LocalsOK, Made, Judging
    <3>3. execs[k].verdict = "ok"
      BY <2>3, <3>2 DEF Products, Completed
    <3>4. k \in Recorded(wf')
      <4>1. /\ Len(wf.artifacts) + 1 \in DOMAIN wf'.artifacts
            /\ wf'.artifacts[Len(wf.artifacts) + 1] = k
        BY <2>1, <2>3, <3>1
      <4> QED
        BY <4>1 DEF Recorded
    <3> QED
      BY <2>3, <3>1, <3>2, <3>3, <3>4 DEF EvidenceMovesIt, BacksMove, Judged
  <2>5. CASE ExecuteDecision(e)
    <3>1. /\ pc[e] = "execute" /\ seen[e] = wf
          /\ wf'.stage = Decided(wf, work[e].decision).stage /\ wf'.artifacts = wf.artifacts
      BY <2>5, Written
    <3>2. /\ Completed(k) /\ execs[k].stage \in Judged /\ k \in Recorded(wf)
          /\ wf.active = work[e].decision /\ work[e].decision \in decisions
          /\ MovesWith(k, work[e].decision) /\ Acceptable(wf, work[e].decision)
      BY <2>3, <3>1 DEF LocalsOK, Made, Weighed, Judging
    <3>3. ~IsRetry(work[e].decision)
      <4> SUFFICES ASSUME IsRetry(work[e].decision)
                   PROVE  FALSE
        OBVIOUS
      <4>1. work[e].decision.target \in AllowedRetryTargets[wf.stage]
        BY <3>2 DEF Acceptable, CanTransition, IsRetry
      <4>2. wf'.stage = work[e].decision.target
        BY <2>1, <3>1 DEF Decided, IsRetry, Documents
      <4> QED
        BY <2>1, <4>1, <4>2, RetryTurnsBack DEF MovesOn
    <3>4. work[e].decision.action \in {"CONTINUE", "COMPLETE"}
      BY <2>1, <3>1, <3>3 DEF Decided, MovesOn, Documents
    <3>5. k \in Recorded(wf')
      BY <3>1, <3>2 DEF Recorded
    <3> QED
      BY <2>3, <3>1, <3>2, <3>4, <3>5 DEF EvidenceMovesIt, BacksMove, MovesWith, Judged
  <2> QED
    BY <2>2, <2>4, <2>5
<1> QED
  BY <1>1, Origins, PTL DEF Spec, MovedOnByEvidence
=============================================================================
