--------------------------- MODULE AgentExecution ---------------------------
(***************************************************************************)
(* What the five agents of the delivery loop do between two writes of the  *)
(* orchestrator: open an execution record, read the input artifact, let a  *)
(* model work with tools, check what it did, save the product, close the   *)
(* record. Each write may fail, with or without having landed, and the     *)
(* process may stop; a stage is then run again, with a new record, on the  *)
(* same workspace and the same issue tracker.                              *)
(*                                                                         *)
(* Source: app/agents/{planning,architecture,codegen,testing,deployment}.py,*)
(* app/agent_runtime/base.py, app/core/jira_client.py.                     *)
(***************************************************************************)
EXTENDS Naturals, Sequences, FiniteSets

CONSTANTS
  Tasks,       \* what a model may plan
  Files,       \* what a model may change
  MaxRuns,     \* bound: runs of agents
  MaxFaults    \* bound: failing writes and crashes

ASSUME AgentBounds ==
  /\ IsFiniteSet(Tasks) /\ IsFiniteSet(Files)
  /\ MaxRuns \in Nat /\ MaxFaults \in Nat

VARIABLES
  executions,   \* sequence of [agent, status, artifact]
  artifacts,    \* sequence of [type, parent, by, tasks, keys, files, verdict]
  stories,      \* the issues in the tracker: sequence of [task, by]
  workspace,    \* files that differ from the checkout
  run,          \* the agent at work: [agent, step, input, product]
  faults

vars == <<executions, artifacts, stories, workspace, run, faults>>

Product == [planning |-> "PLAN", architecture |-> "ARCHITECTURE", codegen |-> "CODE_CHANGE",
            testing |-> "TEST_RESULT", deployment |-> "DEPLOYMENT"]
Agents == DOMAIN Product
\* The type of the artifact each of them consumes.
Input == [planning |-> "none", architecture |-> "PLAN", codegen |-> "ARCHITECTURE",
          testing |-> "CODE_CHANGE", deployment |-> "CODE_CHANGE"]

Blank == [type |-> "none", parent |-> 0, by |-> 0, tasks |-> {}, keys |-> {},
          files |-> {}, verdict |-> "none"]
Idle == [agent |-> "none", step |-> "idle", input |-> 0, product |-> Blank]
Current == Len(executions)   \* the record of the run, once it is created

Init ==
  /\ executions = <<>> /\ artifacts = <<>> /\ stories = <<>>
  /\ workspace = {} /\ run = Idle /\ faults = 0

OfType(type) == {i \in DOMAIN artifacts : artifacts[i].type = type}
\* _resolve_input_artifact_id: the newest of the type; 0 if there is none.
Newest(set) == IF set = {} THEN 0 ELSE CHOOSE i \in set : \A j \in set : j <= i

Step(label) == run' = [run EXCEPT !.step = label]
Fault == faults < MaxFaults /\ faults' = faults + 1

(***************************************************************************)
(* A run                                                                   *)
(***************************************************************************)
\* The orchestrator dispatches a stage; _perform creates its record.
Begin(a) ==
  /\ run.step = "idle" /\ Len(executions) < MaxRuns
  /\ executions' = Append(executions, [agent |-> a, status |-> "RUNNING", artifact |-> 0])
  /\ run' = [agent |-> a, step |-> "input", input |-> Newest(OfType(Input[a])),
             product |-> Blank]
  /\ UNCHANGED <<artifacts, stories, workspace, faults>>

\* No input artifact: the run fails before any model is asked.
ReadInput ==
  /\ run.step = "input"
  /\ IF Input[run.agent] # "none" /\ run.input = 0 THEN Step("failing")
     ELSE run' = [run EXCEPT !.step = "think",
            !.product = [Blank EXCEPT !.type = Product[run.agent], !.parent = run.input,
                                      !.by = Current]]
  /\ UNCHANGED <<executions, artifacts, stories, workspace, faults>>

Thinks(a) == run.step = "think" /\ run.agent = a

\* The model failed, timed out, said nothing, or what it said does not parse.
ThinkInVain ==
  /\ run.step = "think" /\ run.agent # "codegen"
  /\ Step("failing")
  /\ UNCHANGED <<executions, artifacts, stories, workspace, faults>>

\* A valid plan has tasks. The issues are created from it, not by the model.
Plan ==
  /\ Thinks("planning")
  /\ \E tasks \in SUBSET Tasks \ {{}} :
       run' = [run EXCEPT !.step = "work", !.product.tasks = tasks]
  /\ UNCHANGED <<executions, artifacts, stories, workspace, faults>>

\* _create_jira_stories, one call per task, in some order; the first failure
\* fails the run, and the stories made so far stay.
Storied == {stories[k].task : k \in run.product.keys}
CreateStory ==
  /\ run.step = "work"
  /\ \/ /\ run.product.tasks = Storied
        /\ Step("save") /\ UNCHANGED stories
     \/ \E t \in run.product.tasks \ Storied :
          /\ stories' = Append(stories, [task |-> t, by |-> Current])
          /\ run' = [run EXCEPT !.product.keys = @ \cup {Len(stories) + 1}]
  /\ UNCHANGED <<executions, artifacts, workspace, faults>>

LoseStory ==
  /\ run.step = "work" /\ run.product.tasks # Storied
  /\ Fault
  /\ \/ UNCHANGED stories
     \/ \E t \in run.product.tasks \ Storied :
          stories' = Append(stories, [task |-> t, by |-> Current])
  /\ Step("failing")
  /\ UNCHANGED <<executions, artifacts, workspace>>

\* The design must have one entry for each task of the plan (validate_task_coverage);
\* its files are the scope of the change.
DesignAnything ==   \* fault: the coverage is not checked
  /\ Thinks("architecture")
  /\ \E tasks \in SUBSET Tasks, files \in SUBSET Files :
       run' = [run EXCEPT !.step = "save", !.product.tasks = tasks, !.product.files = files]
  /\ UNCHANGED <<executions, artifacts, stories, workspace, faults>>

Design ==
  /\ Thinks("architecture")
  /\ \E tasks \in SUBSET Tasks, files \in SUBSET Files :
       IF tasks = artifacts[run.input].tasks
       THEN run' = [run EXCEPT !.step = "save", !.product.tasks = tasks,
                                                !.product.files = files]
       ELSE Step("failing")
  /\ UNCHANGED <<executions, artifacts, stories, workspace, faults>>

\* write_file refuses what is outside the scope of the design.
Writes(wanted, scope) == wanted \cap scope

\* The model writes files, then answers or does not. The product lists what
\* differs from the snapshot taken before, which must be within the scope.
ImplementAsClaimed ==   \* fault: the product lists what the model says
  /\ Thinks("codegen")
  /\ \E wanted, claimed \in SUBSET Files :
       /\ workspace' = workspace \cup Writes(wanted, artifacts[run.input].files)
       /\ run' = [run EXCEPT !.step = "save", !.product.files = claimed]
  /\ UNCHANGED <<executions, artifacts, stories, faults>>

Implement ==
  /\ Thinks("codegen")
  /\ \E wanted \in SUBSET Files :
       LET scope == artifacts[run.input].files
           written == Writes(wanted, scope) IN
       /\ workspace' = workspace \cup written
       /\ \/ /\ written \subseteq scope
             /\ run' = [run EXCEPT !.step = "save", !.product.files = written]
          \/ Step("failing")
  /\ UNCHANGED <<executions, artifacts, stories, faults>>

\* A verdict is that of the test runs, of which there must be one: an error
\* outweighs a failure, a failure a pass.
TestVerdict(results) ==
  CASE "error" \in results -> "error"
    [] "error" \notin results /\ "failed" \in results -> "failed"
    [] OTHER -> "passed"

RunTests ==
  /\ Thinks("testing")
  /\ \E results \in SUBSET {"passed", "failed", "error"} :
       IF results = {} THEN Step("failing")
       ELSE run' = [run EXCEPT !.step = "save", !.product.verdict = TestVerdict(results)]
  /\ UNCHANGED <<executions, artifacts, stories, workspace, faults>>

\* The verdict is that of the last attempt to deploy, of which there must be one.
DeployService ==
  /\ Thinks("deployment")
  /\ \/ \E verdict \in {"succeeded", "failed", "error"} :
          run' = [run EXCEPT !.step = "save", !.product.verdict = verdict]
     \/ Step("failing")   \* NO_DEPLOYMENT_ATTEMPTED
  /\ UNCHANGED <<executions, artifacts, stories, workspace, faults>>

Save ==
  /\ run.step = "save"
  /\ artifacts' = Append(artifacts, run.product)
  /\ Step("report")
  /\ UNCHANGED <<executions, stories, workspace, faults>>

\* The artifact may be there although the call failed. Four agents fail the
\* run; planning does not catch the exception and leaves its record open.
LoseSave ==
  /\ run.step = "save"
  /\ Fault
  /\ artifacts' \in {artifacts, Append(artifacts, run.product)}
  /\ IF run.agent = "planning" THEN run' = Idle ELSE Step("failing")
  /\ UNCHANGED <<executions, stories, workspace>>

CloseAs(status, artifact) ==
  executions' = [executions EXCEPT ![Current].status = status, ![Current].artifact = artifact]

Report ==
  /\ run.step = "report"
  /\ CloseAs("COMPLETED", Len(artifacts))
  /\ run' = Idle
  /\ UNCHANGED <<artifacts, stories, workspace, faults>>

ForgetFailure ==   \* fault: the record is not closed
  /\ run.step = "failing"
  /\ run' = Idle
  /\ UNCHANGED <<executions, artifacts, stories, workspace, faults>>

RecordFailure ==
  /\ run.step = "failing"
  /\ CloseAs("FAILED", 0)
  /\ run' = Idle
  /\ UNCHANGED <<artifacts, stories, workspace, faults>>

\* A crash, or an update of the record that raises: whatever was done stays.
Abort ==
  /\ run.step # "idle"
  /\ Fault
  /\ run' = Idle
  /\ UNCHANGED <<executions, artifacts, stories, workspace>>

Work ==
  \/ ReadInput \/ ThinkInVain \/ Plan \/ CreateStory \/ Design \/ Implement \/ RunTests
  \/ DeployService \/ Save \/ Report \/ RecordFailure

Next == (\E a \in Agents : Begin(a)) \/ Work \/ LoseStory \/ LoseSave \/ Abort

Spec == Init /\ [][Next]_vars

-----------------------------------------------------------------------------
Types == {Product[a] : a \in Agents} \cup {"none"}
Verdicts == {"none", "passed", "failed", "error", "succeeded"}
ArtifactSet == [type : Types, parent : Nat, by : Nat, tasks : SUBSET Tasks,
                keys : SUBSET Nat, files : SUBSET Files, verdict : Verdicts]

TypeOK ==
  /\ executions \in Seq([agent : Agents, status : {"RUNNING", "COMPLETED", "FAILED"},
                         artifact : 0..Len(artifacts)])
  /\ artifacts \in Seq(ArtifactSet)
  /\ stories \in Seq([task : Tasks, by : DOMAIN executions])
  /\ workspace \subseteq Files
  /\ run \in [agent : Agents \cup {"none"}, input : 0..Len(artifacts), product : ArtifactSet,
              step : {"idle", "input", "think", "work", "save", "report", "failing"}]
  /\ faults \in 0..MaxFaults

\* A completed execution names its own product, made from an artifact of the type
\* it consumes: a plan each task of which has one story of this run, a design that
\* covers its plan, a change within the files of its design.
CompletedIsDone ==
  \A e \in DOMAIN executions : executions[e].status = "COMPLETED" =>
    LET i == executions[e].artifact IN
    /\ i # 0
    /\ LET p == artifacts[i]  source == artifacts[p.parent] IN
       /\ p.by = e /\ p.type = Product[executions[e].agent]
       /\ p.type # "PLAN" => p.parent \in 1..(i - 1) /\ source.type = Input[executions[e].agent]
       /\ p.type = "PLAN" =>
            \A t \in p.tasks : Cardinality({k \in p.keys : stories[k] = [task |-> t, by |-> e]}) = 1
       /\ p.type = "ARCHITECTURE" => p.tasks = source.tasks
       /\ p.type = "CODE_CHANGE" => p.files \subseteq source.files

\* No more records are left open than there were faults; nor are there more
\* artifacts that no completed execution names.
Open == {e \in DOMAIN executions : executions[e].status = "RUNNING"}
Orphans == {i \in DOMAIN artifacts :
              \A e \in DOMAIN executions : executions[e].artifact # i}
OnlyFaultsLeaveTraces ==
  run.step = "idle" => Cardinality(Open) <= faults /\ Cardinality(Orphans) <= faults

\* Runs that did not complete are the only source of leftovers: of a story that no
\* plan names, and of a changed file that no code artifact lists, which the next
\* codegen run takes for part of the checkout.
LeftoversAreRetries ==
  /\ \A k \in DOMAIN stories :
       \/ \E i \in OfType("PLAN") : k \in artifacts[i].keys
       \/ executions[stories[k].by].status # "COMPLETED"
  /\ \/ workspace \subseteq UNION {artifacts[i].files : i \in OfType("CODE_CHANGE")}
     \/ \E e \in DOMAIN executions :
          executions[e].agent = "codegen" /\ executions[e].status # "COMPLETED"

\* "One story per task, no exceptions" (planning.py, lines 333-334).
OneStoryPerTask ==
  \A k, l \in DOMAIN stories : k # l => stories[k].task # stories[l].task

\* The code artifacts list what was really changed ("verify the real filesystem").
ListsEveryChange ==
  run.step = "idle" => workspace \subseteq UNION {artifacts[i].files : i \in OfType("CODE_CHANGE")}
=============================================================================
