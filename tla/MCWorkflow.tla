----------------------------- MODULE MCWorkflow -----------------------------
(***************************************************************************)
(* Values for the constants of Workflow and a start in the middle of a     *)
(* workflow, for the runs where two requests race.                         *)
(***************************************************************************)
EXTENDS Workflow, TLC

CONSTANTS e1, e2, i1, r1

Requests == Permutations({e1, e2})

OnOneInstance == [e \in Executors |-> i1]

\* The defaults of app/config.py. Planning has no entry, which is 0.
DefaultRetries == [PLANNING |-> 0, ARCHITECTURE |-> 1, CODEGEN |-> 2,
                   TESTING |-> 2, DEPLOYMENT |-> 2]
OneRetry == [PLANNING |-> 0, ARCHITECTURE |-> 1, CODEGEN |-> 1,
             TESTING |-> 1, DEPLOYMENT |-> 1]

\* One failure per route of TestRouting, and one the table does not decide.
RaceTestFailures == {{"ARCHITECTURE_DEFECT"}, {"TEST_DEFECT"}, {"CODE_DEFECT", "TEST_DEFECT"}}
BuildFailure == {"BUILD_FAILURE"}
TwoTestFailures == {{"CODE_DEFECT"}, {"CODE_DEFECT", "TEST_DEFECT"}}
AllTestFailures == {{"CODE_DEFECT"}, {"ARCHITECTURE_DEFECT"}, {"TEST_DEFECT"},
                    {"UNKNOWN"}, {"CODE_DEFECT", "TEST_DEFECT"}}
AllDeployFailures == {"NETWORK_FAILURE", "BUILD_FAILURE", "NONE"}

\* An LlmAgent that asks for a retry the policy knows, one it does not know and
\* an action it does not support.
CautiousProposals == {Toward("RETRY", "CODEGEN"), Toward("RETRY", "PLANNING"),
                      Plain("ROLLBACK"), Plain("FAIL")}
\* One whose only wrong answer is to call the workflow done.
RashProposals == {Toward("RETRY", "PLANNING"), Plain("ROLLBACK"), Plain("COMPLETE")}
\* One that also waves a failed run through.
AnyProposals == CautiousProposals \cup {Plain("CONTINUE"), Plain("COMPLETE")}

\* The state after Planning, Architecture and Codegen were stepped on i1.
Finished(stage, input, tree) ==
  [stage |-> stage, input |-> input, status |-> "COMPLETED", verdict |-> "ok",
   failures |-> {}, tree |-> tree]

InitAtTesting ==
  /\ wf = [NewWorkflow(8) EXCEPT !.stage = "TESTING", !.artifacts = <<1, 2, 3>>,
                                 !.workspace = TRUE]
  /\ execs = << Finished("PLANNING", 0, 0), Finished("ARCHITECTURE", 1, 0),
                Finished("CODEGEN", 2, 0) >>
  /\ decisions = {}
  /\ pc = [e \in Executors |-> "idle"]
  /\ seen = [e \in Executors |-> NewWorkflow(0)]
  /\ work = [e \in Executors |-> NoWork]
  /\ left = [e \in Executors |-> 0]
  /\ disk = [[i \in Instances |-> NoDir] EXCEPT ![i1] = 3]
  /\ live = 0
  /\ calls = 0
  /\ disturbances = 0

SpecAtTesting == InitAtTesting /\ [][Next]_vars
=============================================================================
