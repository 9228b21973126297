------------------------ MODULE AgentExecutionProofs -------------------------
(***************************************************************************)
(* Proofs about AgentExecution, for any tasks, files, runs and faults. The *)
(* invariant says of every step of a run what it has done so far; what is  *)
(* stored only grows, except that a record is closed once.                 *)
(***************************************************************************)
EXTENDS AgentExecution, TLAPS, FiniteSetTheorems, SequenceTheorems, WellFoundedInduction

USE AgentBounds

-----------------------------------------------------------------------------
(* The invariant. *)

\* The product p of a run e of the agent a is complete, given what is stored.
Made(p, a, e, made, told) ==
  /\ p.by = e /\ p.type = Product[a]
  /\ p.keys \subseteq DOMAIN told
  /\ a # "planning" => /\ p.parent \in DOMAIN made /\ p.keys = {}
                       /\ made[p.parent].type = Input[a]
  /\ a = "planning" =>
       \A t \in p.tasks : Cardinality({k \in p.keys : told[k] = [task |-> t, by |-> e]}) = 1
  /\ a = "architecture" => p.tasks = made[p.parent].tasks
  /\ a = "codegen" => p.files \subseteq made[p.parent].files

\* The record of the run at work is open and the last one; the input is of its type.
RunOpen ==
  run.step # "idle" =>
    /\ run.agent \in Agents /\ Current # 0
    /\ executions[Current].agent = run.agent
    /\ executions[Current].status = "RUNNING" /\ executions[Current].artifact = 0
    /\ run.input # 0 => artifacts[run.input].type = Input[run.agent]

\* What the run has made so far is its own. The stories it created are the keys.
Begun ==
  /\ run.step = "input" => run.product = Blank
  /\ run.step \in {"think", "work", "save", "report"} =>
       /\ Input[run.agent] # "none" => run.input # 0
       /\ run.product.type = Product[run.agent]
       /\ run.product.parent = run.input /\ run.product.by = Current
  /\ run.step = "think" => run.product.keys = {}
  /\ run.step = "work" =>
       /\ run.agent = "planning"
       /\ \A k \in run.product.keys :
            /\ k \in DOMAIN stories /\ stories[k].by = Current
            /\ \A l \in run.product.keys : k # l => stories[k].task # stories[l].task
  /\ run.step \in {"input", "think", "work", "save", "report"} =>
       \A k \in DOMAIN stories : stories[k].by = Current => k \in run.product.keys

Finished ==
  /\ run.step \in {"save", "report"} => Made(run.product, run.agent, Current, artifacts, stories)
  /\ run.step = "report" =>
       /\ Len(artifacts) # 0 /\ artifacts[Len(artifacts)] = run.product
       /\ run.input < Len(artifacts)

\* A closed record names its product, made from an older artifact.
Closed ==
  \A e \in DOMAIN executions :
    /\ executions[e].status # "COMPLETED" => executions[e].artifact = 0
    /\ executions[e].status = "COMPLETED" =>
         LET i == executions[e].artifact IN
         /\ i # 0 /\ Made(artifacts[i], executions[e].agent, e, artifacts, stories)
         /\ executions[e].agent # "planning" => artifacts[i].parent < i

\* The run at work is not yet a leftover.
AtWork == IF run.step = "idle" THEN {} ELSE {Current}
Saved == IF run.step = "report" THEN {Len(artifacts)} ELSE {}
FewTraces == Cardinality(Open \ AtWork) <= faults /\ Cardinality(Orphans \ Saved) <= faults

\* Where the stories and the changes come from.
Told ==
  \A k \in DOMAIN stories :
    \/ \E i \in OfType("PLAN") : k \in artifacts[i].keys
    \/ executions[stories[k].by].status # "COMPLETED"

Listed == UNION {artifacts[i].files : i \in OfType("CODE_CHANGE")}
Mine ==
  IF run.agent = "codegen" /\ run.step \in {"save", "report"} THEN run.product.files ELSE {}
ChangesKnown ==
  \/ workspace \subseteq Listed \cup Mine
  \/ \E e \in DOMAIN executions :
       /\ executions[e].agent = "codegen" /\ executions[e].status # "COMPLETED"
       /\ e = Current => run.step \in {"idle", "failing"}

AgentInv ==
  /\ TypeOK /\ RunOpen /\ Begun /\ Finished /\ Closed /\ FewTraces /\ Told /\ ChangesKnown

-----------------------------------------------------------------------------
(* Sequences, records and the newest artifact. *)

Kept(before, after) ==
  DOMAIN before \subseteq DOMAIN after /\ \A i \in DOMAIN before : after[i] = before[i]

LEMMA AppendKeeps ==
  ASSUME NEW S, NEW q \in Seq(S), NEW x \in S
  PROVE  /\ Append(q, x) \in Seq(S) /\ Len(Append(q, x)) = Len(q) + 1
         /\ Kept(q, Append(q, x))
         /\ DOMAIN Append(q, x) = DOMAIN q \cup {Len(q) + 1}
         /\ Append(q, x)[Len(q) + 1] = x
         /\ Len(q) + 1 \notin DOMAIN q
  BY LenProperties, AppendProperties DEF Kept

\* A nonempty set of positions has a greatest one: the intervals above them are
\* finite sets, one of which is smallest.
LEMMA NewestIsIn ==
  ASSUME NEW n \in Nat, NEW set \in SUBSET (1..n), set # {}
  PROVE  Newest(set) \in set
<1> DEFINE T == {x..n : x \in set}
           R == StrictSubsetOrdering(1..n)
<1>1. IsFiniteSet(1..n) BY FS_Interval
<1>2. T \subseteq FiniteSubsetsOf(1..n) /\ T # {}
  <2>1. ASSUME NEW x \in set PROVE x..n \subseteq 1..n /\ IsFiniteSet(x..n)
    BY <1>1, FS_Subset
  <2>2. QED BY <2>1 DEF FiniteSubsetsOf
<1>3. PICK m \in T : \A y \in T : <<y, m>> \notin R
  BY <1>2, FS_StrictSubsetOrderingWellFounded, WFMin
<1>4. PICK x \in set : m = x..n BY <1>3
<1>5. \A y \in set : y <= x
  <2> SUFFICES ASSUME NEW y \in set, y > x PROVE FALSE OBVIOUS
  <2>1. y..n \subseteq x..n /\ y..n # x..n OBVIOUS
  <2>2. y..n \in T OBVIOUS
  <2>3. QED BY <1>1, <1>2, <1>3, <1>4, <2>1, <2>2 DEF StrictSubsetOrdering, FiniteSubsetsOf
<1>6. QED BY <1>5 DEF Newest

Steps == {"idle", "input", "think", "work", "save", "report", "failing"}
RunSet(n) ==
  [agent : Agents \cup {"none"}, input : 0..n, product : ArtifactSet, step : Steps]
ExecutionSet(n) ==
  [agent : Agents, status : {"RUNNING", "COMPLETED", "FAILED"}, artifact : 0..n]
StorySet == [task : Tasks, by : DOMAIN executions]

LEMMA Typed ==
  TypeOK <=> /\ executions \in Seq(ExecutionSet(Len(artifacts))) /\ artifacts \in Seq(ArtifactSet)
             /\ stories \in Seq(StorySet) /\ workspace \subseteq Files
             /\ run \in RunSet(Len(artifacts)) /\ faults \in 0..MaxFaults
  BY DEF TypeOK, ExecutionSet, StorySet, RunSet, Steps

LEMMA Elements ==
  ASSUME TypeOK
  PROVE  /\ Len(executions) \in Nat /\ DOMAIN executions = 1..Len(executions)
         /\ Len(artifacts) \in Nat /\ DOMAIN artifacts = 1..Len(artifacts)
         /\ Len(stories) \in Nat /\ DOMAIN stories = 1..Len(stories)
         /\ \A e \in DOMAIN executions : executions[e] \in ExecutionSet(Len(artifacts))
         /\ \A i \in DOMAIN artifacts : artifacts[i] \in ArtifactSet
         /\ \A k \in DOMAIN stories :
              stories[k] \in StorySet /\ stories[k].by \in DOMAIN executions
<1>1. /\ executions \in Seq(ExecutionSet(Len(artifacts))) /\ artifacts \in Seq(ArtifactSet)
      /\ stories \in Seq(StorySet)
  BY Typed
<1>2. /\ Len(executions) \in Nat /\ DOMAIN executions = 1..Len(executions)
      /\ Len(artifacts) \in Nat /\ DOMAIN artifacts = 1..Len(artifacts)
      /\ Len(stories) \in Nat /\ DOMAIN stories = 1..Len(stories)
  BY <1>1, LenProperties
<1>3. /\ \A e \in DOMAIN executions : executions[e] \in ExecutionSet(Len(artifacts))
      /\ \A i \in DOMAIN artifacts : artifacts[i] \in ArtifactSet
      /\ \A k \in DOMAIN stories : stories[k] \in StorySet
  BY <1>1, <1>2, ElementOfSeq
<1>4. QED BY <1>2, <1>3 DEF StorySet

LEMMA Names ==
  /\ Blank \in ArtifactSet /\ Idle \in RunSet(0)
  /\ Blank.type = "none" /\ Blank.keys = {} /\ Blank.tasks = {} /\ Blank.files = {}
  /\ Idle.agent = "none" /\ Idle.step = "idle" /\ Idle.input = 0 /\ Idle.product = Blank
  /\ \A a \in Agents : Product[a] \in Types /\ Input[a] \in Types
  /\ \A a \in Agents : Input[a] = "none" <=> a = "planning"
  /\ \A a \in Agents : Product[a] = "PLAN" <=> a = "planning"
  /\ \A a \in Agents : Product[a] = "ARCHITECTURE" <=> a = "architecture"
  /\ \A a \in Agents : Product[a] = "CODE_CHANGE" <=> a = "codegen"
  /\ {"planning", "architecture", "codegen", "testing", "deployment"} = Agents
  BY DEF Blank, Idle, ArtifactSet, RunSet, Steps, Types, Verdicts, Agents, Product, Input

-----------------------------------------------------------------------------
(* What each step does to the run. *)

RunIs(agent, step, input, product) ==
  run'.agent = agent /\ run'.step = step /\ run'.input = input /\ run'.product = product

LEMMA StepIs ==
  ASSUME TypeOK, NEW l \in Steps, Step(l)
  PROVE  RunIs(run.agent, l, run.input, run.product) /\ run' \in RunSet(Len(artifacts))
  BY Typed DEF Step, RunIs, RunSet

LEMMA IdleIs ==
  ASSUME run' = Idle
  PROVE  RunIs("none", "idle", 0, Blank)
  BY Names DEF RunIs

\* The run goes on with the same product, but for its contents.
SameBut(label) ==
  /\ run' \in RunSet(Len(artifacts))
  /\ run'.agent = run.agent /\ run'.step = label /\ run'.input = run.input
  /\ run'.product.type = run.product.type /\ run'.product.parent = run.product.parent
  /\ run'.product.by = run.product.by /\ run'.product.keys = run.product.keys

LEMMA StepSame ==
  ASSUME TypeOK, NEW l \in Steps, Step(l)
  PROVE  SameBut(l) /\ run'.product = run.product
  BY StepIs DEF SameBut, RunIs

LEMMA TasksSame ==
  ASSUME TypeOK, NEW l \in Steps, NEW T \in SUBSET Tasks,
         run' = [run EXCEPT !.step = l, !.product.tasks = T]
  PROVE  SameBut(l) /\ run'.product.tasks = T
<1>1. run \in RunSet(Len(artifacts)) BY Typed
<1>2. /\ run'.agent = run.agent /\ run'.step = l /\ run'.input = run.input
      /\ run'.product = [run.product EXCEPT !.tasks = T]
  BY <1>1 DEF RunSet
<1>3. run.product \in ArtifactSet BY <1>1 DEF RunSet
<1>4. [run.product EXCEPT !.tasks = T] \in ArtifactSet BY <1>3 DEF ArtifactSet
<1>5. run' \in RunSet(Len(artifacts)) BY <1>1, <1>4 DEF RunSet
<1>6. QED BY <1>2, <1>3, <1>5 DEF SameBut, ArtifactSet

LEMMA FilesSame ==
  ASSUME TypeOK, NEW l \in Steps, NEW F \in SUBSET Files,
         run' = [run EXCEPT !.step = l, !.product.files = F]
  PROVE  SameBut(l) /\ run'.product.files = F
<1>1. run \in RunSet(Len(artifacts)) BY Typed
<1>2. /\ run'.agent = run.agent /\ run'.step = l /\ run'.input = run.input
      /\ run'.product = [run.product EXCEPT !.files = F]
  BY <1>1 DEF RunSet
<1>3. run.product \in ArtifactSet BY <1>1 DEF RunSet
<1>4. [run.product EXCEPT !.files = F] \in ArtifactSet BY <1>3 DEF ArtifactSet
<1>5. run' \in RunSet(Len(artifacts)) BY <1>1, <1>4 DEF RunSet
<1>6. QED BY <1>2, <1>3, <1>5 DEF SameBut, ArtifactSet

LEMMA DesignSame ==
  ASSUME TypeOK, NEW l \in Steps, NEW T \in SUBSET Tasks, NEW F \in SUBSET Files,
         run' = [run EXCEPT !.step = l, !.product.tasks = T, !.product.files = F]
  PROVE  SameBut(l) /\ run'.product.tasks = T
<1>1. run \in RunSet(Len(artifacts)) BY Typed
<1> DEFINE p == [run.product EXCEPT !.tasks = T]
           q == [p EXCEPT !.files = F]
<1>2. run.product \in ArtifactSet BY <1>1 DEF RunSet
<1>3. run' = [run EXCEPT !.step = l, !.product = q] BY <1>1 DEF RunSet
<1>4. /\ p \in ArtifactSet /\ p.type = run.product.type /\ p.parent = run.product.parent
      /\ p.by = run.product.by /\ p.keys = run.product.keys /\ p.tasks = T
  BY <1>2 DEF ArtifactSet
<1> HIDE DEF p
<1>5. /\ q \in ArtifactSet /\ q.type = p.type /\ q.parent = p.parent
      /\ q.by = p.by /\ q.keys = p.keys /\ q.tasks = p.tasks
  BY <1>4 DEF ArtifactSet
<1> HIDE DEF q
<1>6. /\ run'.agent = run.agent /\ run'.step = l /\ run'.input = run.input
      /\ run'.product = q /\ run' \in RunSet(Len(artifacts))
  BY <1>1, <1>3, <1>5 DEF RunSet
<1>7. QED BY <1>4, <1>5, <1>6 DEF SameBut

LEMMA VerdictSame ==
  ASSUME TypeOK, NEW l \in Steps, NEW v \in Verdicts,
         run' = [run EXCEPT !.step = l, !.product.verdict = v]
  PROVE  SameBut(l)
<1>1. run \in RunSet(Len(artifacts)) BY Typed
<1>2. /\ run'.agent = run.agent /\ run'.step = l /\ run'.input = run.input
      /\ run'.product = [run.product EXCEPT !.verdict = v]
  BY <1>1 DEF RunSet
<1>3. run.product \in ArtifactSet BY <1>1 DEF RunSet
<1>4. [run.product EXCEPT !.verdict = v] \in ArtifactSet BY <1>3 DEF ArtifactSet
<1>5. run' \in RunSet(Len(artifacts)) BY <1>1, <1>4 DEF RunSet
<1>6. QED BY <1>2, <1>3, <1>5 DEF SameBut, ArtifactSet

\* What a model's answer makes of the run.
Answered ==
  \/ SameBut("failing")
  \/ run.agent = "planning" /\ SameBut("work")
  \/ run.agent = "architecture" /\ SameBut("save")
     /\ run'.product.tasks = artifacts[run.input].tasks
  \/ run.agent = "codegen" /\ SameBut("save")
     /\ run'.product.files \subseteq artifacts[run.input].files
     /\ workspace' = workspace \cup run'.product.files
  \/ run.agent \in {"testing", "deployment"} /\ SameBut("save")

LEMMA Answers ==
  ASSUME TypeOK, Begun,
         ThinkInVain \/ Plan \/ Design \/ Implement \/ RunTests \/ DeployService
  PROVE  /\ run.step = "think" /\ UNCHANGED <<executions, artifacts, stories, faults>>
         /\ Answered /\ workspace' \subseteq Files
         /\ run.agent # "codegen" => workspace' = workspace
<1>1. workspace \subseteq Files BY Typed
<1>2. CASE ThinkInVain
  BY <1>1, <1>2, StepSame DEF ThinkInVain, Answered, Steps
<1>3. CASE Plan
  <2>1. PICK tasks \in SUBSET Tasks \ {{}} :
          run' = [run EXCEPT !.step = "work", !.product.tasks = tasks]
    BY <1>3 DEF Plan
  <2>2. SameBut("work") BY <2>1, TasksSame DEF Steps
  <2>3. QED BY <1>1, <1>3, <2>2 DEF Plan, Thinks, Answered
<1>4. CASE Design
  <2>1. PICK tasks \in SUBSET Tasks, files \in SUBSET Files :
          IF tasks = artifacts[run.input].tasks
          THEN run' = [run EXCEPT !.step = "save", !.product.tasks = tasks, !.product.files = files]
          ELSE Step("failing")
    BY <1>4 DEF Design
  <2>2. SameBut("failing") \/ (SameBut("save") /\ run'.product.tasks = artifacts[run.input].tasks)
    BY <2>1, DesignSame, StepSame DEF Steps
  <2>3. QED BY <1>1, <1>4, <2>2 DEF Design, Thinks, Answered
<1>5. CASE Implement
  <2>1. run.input \in DOMAIN artifacts
    <3>1. run.input # 0 BY <1>5, Names DEF Implement, Thinks, Begun
    <3>2. QED BY <3>1, Typed, Elements DEF RunSet
  <2>2. artifacts[run.input].files \subseteq Files
    BY <2>1, Elements DEF ArtifactSet
  <2>3. PICK written \in SUBSET artifacts[run.input].files :
          /\ workspace' = workspace \cup written
          /\ \/ run' = [run EXCEPT !.step = "save", !.product.files = written]
             \/ Step("failing")
    <3>1. PICK wanted \in SUBSET Files :
            LET written == Writes(wanted, artifacts[run.input].files) IN
            /\ workspace' = workspace \cup written
            /\ \/ run' = [run EXCEPT !.step = "save", !.product.files = written]
               \/ Step("failing")
      BY <1>5 DEF Implement
    <3>2. Writes(wanted, artifacts[run.input].files) \subseteq artifacts[run.input].files
      BY DEF Writes
    <3>3. QED BY <3>1, <3>2
  <2>4. SameBut("failing") \/ (SameBut("save") /\ run'.product.files = written)
    BY <2>2, <2>3, FilesSame, StepSame DEF Steps
  <2>5. QED BY <1>1, <1>5, <2>2, <2>3, <2>4 DEF Implement, Thinks, Answered
<1>6. CASE RunTests
  <2>1. PICK results \in SUBSET {"passed", "failed", "error"} :
          IF results = {} THEN Step("failing")
          ELSE run' = [run EXCEPT !.step = "save", !.product.verdict = TestVerdict(results)]
    BY <1>6 DEF RunTests
  <2>2. TestVerdict(results) \in Verdicts BY DEF TestVerdict, Verdicts
  <2>3. SameBut("failing") \/ SameBut("save")
    BY <2>1, <2>2, VerdictSame, StepSame DEF Steps
  <2>4. QED BY <1>1, <1>6, <2>3 DEF RunTests, Thinks, Answered
<1>7. CASE DeployService
  <2>1. SameBut("failing") \/ SameBut("save")
    <3>1. CASE Step("failing") BY <3>1, StepSame DEF Steps
    <3>2. ASSUME NEW verdict \in {"succeeded", "failed", "error"},
                 run' = [run EXCEPT !.step = "save", !.product.verdict = verdict]
          PROVE SameBut("save")
      <4>1. verdict \in Verdicts BY DEF Verdicts
      <4>2. QED BY <3>2, <4>1, VerdictSame DEF Steps
    <3>3. QED BY <1>7, <3>1, <3>2 DEF DeployService
  <2>2. QED BY <1>1, <1>7, <2>1 DEF DeployService, Thinks, Answered
<1>8. QED BY <1>2, <1>3, <1>4, <1>5, <1>6, <1>7

-----------------------------------------------------------------------------
(* What lasts while the stores grow. *)

LEMMA TypedNext ==
  TypeOK' <=> /\ executions' \in Seq(ExecutionSet(Len(artifacts'))) /\ artifacts' \in Seq(ArtifactSet)
              /\ stories' \in Seq([task : Tasks, by : DOMAIN executions'])
              /\ workspace' \subseteq Files
              /\ run' \in RunSet(Len(artifacts')) /\ faults' \in 0..MaxFaults
  BY DEF TypeOK, ExecutionSet, RunSet, Steps

LEMMA MadeFrame ==
  ASSUME NEW p, NEW a, NEW e, NEW made, NEW told,
         Kept(artifacts, made), Kept(stories, told), Made(p, a, e, artifacts, stories)
  PROVE  Made(p, a, e, made, told)
<1>1. \A k \in p.keys : told[k] = stories[k] BY DEF Made, Kept
<1>2. ASSUME NEW t
      PROVE  {k \in p.keys : told[k] = [task |-> t, by |-> e]}
               = {k \in p.keys : stories[k] = [task |-> t, by |-> e]}
  BY <1>1
<1>3. a # "planning" => made[p.parent] = artifacts[p.parent] /\ p.parent \in DOMAIN made
  BY DEF Made, Kept
<1>4. p.keys \subseteq DOMAIN told BY DEF Made, Kept
<1>5. a \in {"architecture", "codegen"} => a # "planning" OBVIOUS
<1>6. QED BY <1>2, <1>3, <1>4, <1>5 DEF Made

LEMMA ClosedFrame ==
  ASSUME TypeOK, Closed, executions' = executions,
         Kept(artifacts, artifacts'), Kept(stories, stories')
  PROVE  Closed'
<1> SUFFICES ASSUME NEW e \in DOMAIN executions, executions[e].status = "COMPLETED"
             PROVE  LET i == executions[e].artifact IN
                    /\ i # 0 /\ Made(artifacts'[i], executions[e].agent, e, artifacts', stories')
                    /\ executions[e].agent # "planning" => artifacts'[i].parent < i
  BY DEF Closed
<1> DEFINE i == executions[e].artifact
<1>1. /\ i # 0 /\ Made(artifacts[i], executions[e].agent, e, artifacts, stories)
      /\ executions[e].agent # "planning" => artifacts[i].parent < i
  BY DEF Closed
<1>2. i \in DOMAIN artifacts BY <1>1, Elements DEF ExecutionSet
<1>3. artifacts'[i] = artifacts[i] BY <1>2 DEF Kept
<1>4. Made(artifacts[i], executions[e].agent, e, artifacts', stories') BY <1>1, MadeFrame
<1>5. QED BY <1>1, <1>3, <1>4

LEMMA OfTypeFrame ==
  ASSUME NEW type, Kept(artifacts, artifacts')
  PROVE  OfType(type) \subseteq OfType(type)' /\ \A i \in OfType(type) : artifacts'[i] = artifacts[i]
  BY DEF OfType, Kept

LEMMA ToldFrame ==
  ASSUME Told, executions' = executions, stories' = stories, Kept(artifacts, artifacts')
  PROVE  Told'
<1>1. OfType("PLAN") \subseteq OfType("PLAN")'
      /\ \A i \in OfType("PLAN") : artifacts'[i] = artifacts[i]
  BY OfTypeFrame
<1>2. QED BY <1>1 DEF Told

LEMMA ListedFrame ==
  ASSUME Kept(artifacts, artifacts')
  PROVE  Listed \subseteq Listed'
<1>1. OfType("CODE_CHANGE") \subseteq OfType("CODE_CHANGE")'
      /\ \A i \in OfType("CODE_CHANGE") : artifacts'[i] = artifacts[i]
  BY OfTypeFrame
<1>2. QED BY <1>1 DEF Listed

\* A fault leaves at most one open record and one artifact behind; nothing else does.
LEMMA TracesStep ==
  ASSUME TypeOK, FewTraces, NEW x, NEW y,
         \/ /\ faults' = faults
            /\ (Open \ AtWork)' \subseteq Open \ AtWork
            /\ (Orphans \ Saved)' \subseteq Orphans \ Saved
         \/ /\ faults' = faults + 1
            /\ (Open \ AtWork)' \subseteq (Open \ AtWork) \cup {x}
            /\ (Orphans \ Saved)' \subseteq (Orphans \ Saved) \cup {y}
  PROVE  FewTraces'
<1> DEFINE A == Open \ AtWork  B == Orphans \ Saved
<1>1. IsFiniteSet(A) /\ IsFiniteSet(B)
  <2>1. IsFiniteSet(1..Len(executions)) /\ IsFiniteSet(1..Len(artifacts))
    BY Elements, FS_Interval
  <2>2. A \subseteq 1..Len(executions) /\ B \subseteq 1..Len(artifacts)
    BY Elements DEF Open, Orphans
  <2>3. QED BY <2>1, <2>2, FS_Subset
<1>2. faults \in Nat /\ Cardinality(A) <= faults /\ Cardinality(B) <= faults
  BY Typed DEF FewTraces
<1> DEFINE C == A'  D == B'
<1>3. FewTraces' <=> Cardinality(C) <= faults' /\ Cardinality(D) <= faults'
  BY DEF FewTraces
<1>4. \/ faults' = faults /\ C \subseteq A /\ D \subseteq B
      \/ faults' = faults + 1 /\ C \subseteq A \cup {x} /\ D \subseteq B \cup {y}
  OBVIOUS
<1> HIDE DEF A, B, C, D
<1>5. CASE faults' = faults /\ C \subseteq A /\ D \subseteq B
  <2>1. Cardinality(C) <= Cardinality(A) /\ Cardinality(D) <= Cardinality(B)
    BY <1>1, <1>5, FS_Subset
  <2>2. /\ Cardinality(A) \in Nat /\ Cardinality(B) \in Nat
        /\ Cardinality(C) \in Nat /\ Cardinality(D) \in Nat
    BY <1>1, <1>5, FS_Subset, FS_CardinalityType
  <2>3. QED BY <1>2, <1>3, <1>5, <2>1, <2>2
<1>6. CASE faults' = faults + 1 /\ C \subseteq A \cup {x} /\ D \subseteq B \cup {y}
  <2>1. /\ IsFiniteSet(A \cup {x}) /\ Cardinality(A \cup {x}) <= faults + 1
        /\ IsFiniteSet(B \cup {y}) /\ Cardinality(B \cup {y}) <= faults + 1
    <3>1. Cardinality(A) \in Nat /\ Cardinality(B) \in Nat BY <1>1, FS_CardinalityType
    <3>2. /\ IsFiniteSet(A \cup {x}) /\ Cardinality(A \cup {x}) \in {Cardinality(A), Cardinality(A) + 1}
          /\ IsFiniteSet(B \cup {y}) /\ Cardinality(B \cup {y}) \in {Cardinality(B), Cardinality(B) + 1}
      BY <1>1, FS_AddElement
    <3>3. QED BY <1>2, <3>1, <3>2
  <2>2. /\ IsFiniteSet(C) /\ Cardinality(C) <= Cardinality(A \cup {x})
        /\ IsFiniteSet(D) /\ Cardinality(D) <= Cardinality(B \cup {y})
    BY <1>6, <2>1, FS_Subset
  <2>3. /\ Cardinality(A \cup {x}) \in Nat /\ Cardinality(B \cup {y}) \in Nat
        /\ Cardinality(C) \in Nat /\ Cardinality(D) \in Nat
    BY <2>1, <2>2, FS_CardinalityType
  <2>4. QED BY <1>2, <1>3, <1>6, <2>1, <2>2, <2>3
<1>7. QED BY <1>4, <1>5, <1>6

-----------------------------------------------------------------------------
(* The steps, one by one. *)

LEMMA KeptSelf == ASSUME NEW q PROVE Kept(q, q)
  BY DEF Kept

\* A step that only moves the run along.
LEMMA RunOnly ==
  ASSUME AgentInv, UNCHANGED <<executions, artifacts, stories, faults>>,
         run.step \notin {"idle", "report"}, run'.step \notin {"idle", "report"},
         run'.agent = run.agent, run'.input = run.input
  PROVE  RunOpen' /\ Closed' /\ FewTraces' /\ Told'
<1>1. RunOpen' BY DEF AgentInv, RunOpen, Current
<1>2. Closed' /\ Told' BY KeptSelf, ClosedFrame, ToldFrame DEF AgentInv
<1>3. (Open \ AtWork)' = Open \ AtWork /\ (Orphans \ Saved)' = Orphans \ Saved
  BY DEF Open, AtWork, Orphans, Saved, Current
<1>4. FewTraces' BY <1>3, TracesStep DEF AgentInv
<1>5. QED BY <1>1, <1>2, <1>4

LEMMA BeginStep ==
  ASSUME AgentInv, NEW a \in Agents, Begin(a)
  PROVE  AgentInv'
<1> DEFINE x == [agent |-> a, status |-> "RUNNING", artifact |-> 0]
<1>1. TypeOK /\ executions \in Seq(ExecutionSet(Len(artifacts))) /\ Len(executions) \in Nat
      /\ DOMAIN executions = 1..Len(executions) /\ Len(artifacts) \in Nat
  BY Typed, Elements DEF AgentInv
<1>2. x \in ExecutionSet(Len(artifacts)) /\ x.agent = a /\ x.status = "RUNNING" /\ x.artifact = 0
  BY <1>1 DEF ExecutionSet
<1>3. executions' = Append(executions, x) /\ run.step = "idle"
      /\ UNCHANGED <<artifacts, stories, workspace, faults>>
  BY DEF Begin
<1> HIDE DEF x
<1>4. /\ executions' \in Seq(ExecutionSet(Len(artifacts)))
      /\ Current' = Current + 1 /\ Current' \in DOMAIN executions'
      /\ DOMAIN executions' = DOMAIN executions \cup {Current'} /\ Current' \notin DOMAIN executions
      /\ executions'[Current'] = x /\ \A e \in DOMAIN executions : executions'[e] = executions[e]
  BY <1>1, <1>2, <1>3, AppendKeeps DEF Kept, Current
<1> DEFINE input == Newest(OfType(Input[a]))
<1>5. input \in 0..Len(artifacts) /\ (input # 0 => artifacts[input].type = Input[a])
  <2>1. OfType(Input[a]) \in SUBSET (1..Len(artifacts)) BY <1>1, Elements DEF OfType
  <2>2. CASE OfType(Input[a]) = {} BY <1>1, <2>2 DEF Newest
  <2>3. CASE OfType(Input[a]) # {}
    <3>1. input \in OfType(Input[a]) BY <1>1, <2>1, <2>3, NewestIsIn
    <3>2. QED BY <2>1, <3>1 DEF OfType
  <2>4. QED BY <2>2, <2>3
<1>6. /\ run'.agent = a /\ run'.step = "input" /\ run'.input = input /\ run'.product = Blank
      /\ run' \in RunSet(Len(artifacts))
  BY <1>5, Names DEF Begin, RunSet, Steps
<1> HIDE DEF input
<1>7. TypeOK'
  <2>1. StorySet \subseteq [task : Tasks, by : DOMAIN executions'] BY <1>4 DEF StorySet
  <2>2. stories \in Seq([task : Tasks, by : DOMAIN executions'])
    BY <1>1, <2>1, Typed, SeqMonotonic
  <2>3. QED BY <1>1, <1>3, <1>4, <1>6, <2>2, Typed, TypedNext
<1>8. RunOpen' BY <1>1, <1>2, <1>3, <1>4, <1>5, <1>6 DEF RunOpen
<1>9. Begun'
  <2>1. \A k \in DOMAIN stories : stories[k].by # Current'
    BY <1>1, <1>4, Elements
  <2>2. stories' = stories BY <1>3
  <2>3. QED BY <1>6, <2>1, <2>2 DEF Begun
<1>10. Finished' BY <1>6 DEF Finished
<1>11. Closed'
  <2>1. /\ executions'[Current'].status # "COMPLETED" /\ executions'[Current'].artifact = 0
        /\ artifacts' = artifacts /\ stories' = stories
    BY <1>2, <1>3, <1>4
  <2>2. QED BY <1>4, <2>1 DEF AgentInv, Closed
<1>12. FewTraces'
  <2>1. (Open \ AtWork)' \subseteq Open \ AtWork
    BY <1>2, <1>3, <1>4, <1>6 DEF Open, AtWork
  <2>2. (Orphans \ Saved)' \subseteq Orphans \ Saved
    BY <1>3, <1>4, <1>6 DEF Orphans, Saved
  <2>3. QED BY <1>1, <1>3, <2>1, <2>2, TracesStep DEF AgentInv
<1>13. Told'
  <2>1. \A k \in DOMAIN stories : stories[k].by \in DOMAIN executions BY <1>1, Elements
  <2>2. QED BY <1>3, <1>4, <2>1 DEF AgentInv, Told, OfType
<1>14. ChangesKnown'
  <2>1. Listed' = Listed BY <1>3 DEF Listed, OfType
  <2>2. Mine = {} BY <1>3 DEF Mine
  <2>3. QED BY <1>3, <1>4, <2>1, <2>2 DEF AgentInv, ChangesKnown
<1>15. QED BY <1>7, <1>8, <1>9, <1>10, <1>11, <1>12, <1>13, <1>14 DEF AgentInv

\* A run that fails before it saved anything.
LEMMA FailingStep ==
  ASSUME AgentInv, UNCHANGED <<executions, artifacts, stories, faults>>,
         run.step \notin {"idle", "report"}, SameBut("failing"),
         workspace' \subseteq Files, run.agent # "codegen" => workspace' = workspace
  PROVE  AgentInv'
<1>1. TypeOK' BY Typed, TypedNext DEF AgentInv, SameBut, StorySet
<1>2. run'.step = "failing" /\ run'.agent = run.agent /\ run'.input = run.input
  BY DEF SameBut
<1>3. RunOpen' /\ Closed' /\ FewTraces' /\ Told' BY <1>2, RunOnly
<1>4. Begun' /\ Finished' BY <1>2 DEF Begun, Finished
<1>5. ChangesKnown'
  <2>1. Listed' = Listed BY DEF Listed, OfType
  <2>2. run.agent # "codegen" => Mine = {} /\ Mine' = {} BY <1>2 DEF Mine
  <2>3. Current' = Current /\ Current \in DOMAIN executions
        /\ executions[Current].agent = run.agent /\ executions[Current].status = "RUNNING"
    BY Elements DEF AgentInv, RunOpen, Current
  <2>4. CASE run.agent = "codegen" BY <1>2, <2>3, <2>4 DEF ChangesKnown
  <2>5. CASE run.agent # "codegen" BY <1>2, <2>1, <2>2, <2>3, <2>5 DEF AgentInv, ChangesKnown
  <2>6. QED BY <2>4, <2>5
<1>6. QED BY <1>1, <1>3, <1>4, <1>5 DEF AgentInv

LEMMA ReadInputStep ==
  ASSUME AgentInv, ReadInput
  PROVE  AgentInv'
<1>1. TypeOK /\ run.step = "input" /\ run \in RunSet(Len(artifacts)) /\ run.agent \in Agents
      /\ workspace \subseteq Files
      /\ UNCHANGED <<executions, artifacts, stories, workspace, faults>>
  BY Typed DEF AgentInv, ReadInput, RunOpen
<1>2. CASE Step("failing")
  <2>1. SameBut("failing") BY <1>1, <1>2, StepSame DEF Steps
  <2>2. QED BY <1>1, <2>1, FailingStep
<1>3. CASE ~Step("failing")
  <2> DEFINE p == [Blank EXCEPT !.type = Product[run.agent], !.parent = run.input, !.by = Current]
  <2>1. (Input[run.agent] # "none" => run.input # 0)
        /\ run' = [run EXCEPT !.step = "think", !.product = p]
    BY <1>3 DEF ReadInput
  <2>2. Product[run.agent] \in Types /\ run.input \in Nat /\ Current \in Nat
    BY <1>1, Names, Elements DEF RunSet, Current
  <2>3. /\ p \in ArtifactSet /\ p.type = Product[run.agent] /\ p.parent = run.input
        /\ p.by = Current /\ p.keys = {}
    BY <2>2 DEF Blank, ArtifactSet, Types, Verdicts
  <2> HIDE DEF p
  <2>4. /\ run'.agent = run.agent /\ run'.step = "think" /\ run'.input = run.input
        /\ run'.product = p /\ run' \in RunSet(Len(artifacts))
    BY <1>1, <2>1, <2>3 DEF RunSet, Steps
  <2>5. TypeOK' BY <1>1, <2>4, Typed, TypedNext DEF StorySet
  <2>6. RunOpen' /\ Closed' /\ FewTraces' /\ Told' BY <1>1, <2>4, RunOnly
  <2>7. Begun'
    <3>1. \A k \in DOMAIN stories : stories[k].by # Current
      BY <1>1, Names DEF AgentInv, Begun
    <3>2. Current' = Current /\ stories' = stories BY <1>1 DEF Current
    <3>3. QED BY <2>1, <2>3, <2>4, <3>1, <3>2 DEF Begun
  <2>8. Finished' BY <2>4 DEF Finished
  <2>9. ChangesKnown'
    <3>1. Listed' = Listed /\ Mine' = {} /\ Mine = {} /\ Current' = Current
      BY <1>1, <2>4 DEF Listed, OfType, Mine, Current
    <3>2. QED BY <1>1, <2>4, <3>1 DEF AgentInv, ChangesKnown
  <2>10. QED BY <2>5, <2>6, <2>7, <2>8, <2>9 DEF AgentInv
<1>4. QED BY <1>2, <1>3

LEMMA AnswerStep ==
  ASSUME AgentInv, ThinkInVain \/ Plan \/ Design \/ Implement \/ RunTests \/ DeployService
  PROVE  AgentInv'
<1>1. TypeOK /\ Begun /\ run \in RunSet(Len(artifacts)) /\ run.agent \in Agents
  BY Answers, Typed DEF AgentInv, RunOpen
<1>2. /\ run.step = "think" /\ UNCHANGED <<executions, artifacts, stories, faults>>
      /\ Answered /\ workspace' \subseteq Files
      /\ run.agent # "codegen" => workspace' = workspace
  BY <1>1, Answers
<1>3. CASE SameBut("failing") BY <1>2, <1>3, FailingStep
<1>4. CASE ~SameBut("failing")
  <2>1. \/ SameBut("work") /\ run'.step = "work" /\ run.agent = "planning"
        \/ SameBut("save") /\ run'.step = "save" /\ run.agent \in Agents \ {"planning"}
    BY <1>2, <1>4, Names DEF Answered, SameBut
  <2>2. /\ run' \in RunSet(Len(artifacts)) /\ run'.agent = run.agent /\ run'.input = run.input
        /\ run'.product.type = run.product.type /\ run'.product.parent = run.product.parent
        /\ run'.product.by = run.product.by /\ run'.product.keys = run.product.keys
    BY <2>1 DEF SameBut
  <2>3. TypeOK' BY <1>1, <1>2, <2>2, Typed, TypedNext DEF StorySet
  <2>4. RunOpen' /\ Closed' /\ FewTraces' /\ Told' BY <1>2, <2>1, <2>2, RunOnly
  <2>5. Current' = Current /\ stories' = stories /\ artifacts' = artifacts
    BY <1>2 DEF Current
  <2>6. /\ Input[run.agent] # "none" => run.input # 0
        /\ run.product.type = Product[run.agent] /\ run.product.parent = run.input
        /\ run.product.by = Current /\ run.product.keys = {}
        /\ \A k \in DOMAIN stories : stories[k].by # Current
    BY <1>1, <1>2 DEF Begun
  <2>7. Begun' BY <2>1, <2>2, <2>5, <2>6 DEF Begun
  <2>8. Finished'
    <3>1. CASE run'.step = "work" BY <3>1 DEF Finished
    <3>2. CASE run'.step = "save" /\ run.agent \in Agents \ {"planning"}
      <4>1. run.input \in DOMAIN artifacts /\ artifacts[run.input].type = Input[run.agent]
        BY <1>1, <1>2, <2>6, <3>2, Names, Elements DEF AgentInv, RunOpen, RunSet
      <4>2. /\ run.agent = "architecture" => run'.product.tasks = artifacts[run.input].tasks
            /\ run.agent = "codegen" => run'.product.files \subseteq artifacts[run.input].files
        BY <1>2, <1>4 DEF Answered
      <4>3. Made(run'.product, run.agent, Current, artifacts, stories)
        BY <2>2, <2>6, <3>2, <4>1, <4>2 DEF Made
      <4>4. QED BY <2>2, <2>5, <3>2, <4>3 DEF Finished
    <3>3. QED BY <2>1, <3>1, <3>2
  <2>9. ChangesKnown'
    <3>1. Listed' = Listed /\ Mine = {} /\ Current' = Current
      BY <1>2, <2>5 DEF Listed, OfType, Mine
    <3>2. CASE run.agent = "codegen"
      <4>1. workspace' = workspace \cup run'.product.files /\ Mine' = run'.product.files
        BY <1>2, <1>4, <2>1, <2>2, <3>2 DEF Answered, Mine
      <4>2. QED BY <1>2, <3>1, <4>1 DEF AgentInv, ChangesKnown
    <3>3. CASE run.agent # "codegen"
      <4>1. Mine' = {} /\ workspace' = workspace BY <1>2, <2>2, <3>3 DEF Mine
      <4>2. QED BY <1>2, <3>1, <4>1 DEF AgentInv, ChangesKnown
    <3>4. QED BY <3>2, <3>3
  <2>10. QED BY <2>3, <2>4, <2>7, <2>8, <2>9 DEF AgentInv
<1>5. QED BY <1>3, <1>4

\* A new story is by the run at work, which is open; it changes nothing else.
LEMMA StoryAdded ==
  ASSUME AgentInv, run.step = "work", NEW t \in Tasks,
         stories' = Append(stories, [task |-> t, by |-> Current]),
         UNCHANGED <<executions, artifacts, workspace>>
  PROVE  /\ stories' \in Seq([task : Tasks, by : DOMAIN executions'])
         /\ Len(stories) \in Nat /\ Kept(stories, stories')
         /\ DOMAIN stories' = DOMAIN stories \cup {Len(stories) + 1}
         /\ stories'[Len(stories) + 1].task = t /\ stories'[Len(stories) + 1].by = Current
         /\ Closed' /\ Told'
<1> DEFINE x == [task |-> t, by |-> Current]  n == Len(stories) + 1
<1>1. TypeOK /\ RunOpen /\ Closed /\ Told /\ stories \in Seq(StorySet) BY Typed DEF AgentInv
<1>2. Current \in DOMAIN executions /\ executions[Current].status # "COMPLETED"
  BY <1>1, Elements DEF RunOpen, Current
<1>3. x \in StorySet /\ x.task = t /\ x.by = Current BY <1>2 DEF StorySet
<1> HIDE DEF x, n
<1>4. stories' = Append(stories, x) BY DEF x
<1>5. /\ stories' \in Seq(StorySet) /\ Kept(stories, stories')
      /\ DOMAIN stories' = DOMAIN stories \cup {n} /\ stories'[n] = x
  BY <1>1, <1>3, <1>4, AppendKeeps DEF n
<1>6. Closed' BY <1>1, <1>5, KeptSelf, ClosedFrame
<1>7. Told'
  <2>1. OfType("PLAN")' = OfType("PLAN") BY DEF OfType
  <2>2. \A k \in DOMAIN stories : stories'[k] = stories[k] BY <1>5 DEF Kept
  <2>3. stories'[n].by = Current BY <1>3, <1>5
  <2>4. QED BY <1>1, <1>2, <1>5, <2>1, <2>2, <2>3 DEF Told
<1>8. Len(stories) \in Nat BY <1>1, Elements
<1>9. QED BY <1>3, <1>5, <1>6, <1>7, <1>8 DEF StorySet, n

LEMMA CreateStoryStep ==
  ASSUME AgentInv, CreateStory
  PROVE  AgentInv'
<1>1. /\ TypeOK /\ run.step = "work" /\ run \in RunSet(Len(artifacts)) /\ run.agent = "planning"
      /\ UNCHANGED <<executions, artifacts, workspace, faults>>
      /\ Begun /\ RunOpen
  BY Typed DEF AgentInv, CreateStory, Begun
<1>2. /\ run.product \in ArtifactSet /\ run.product.tasks \subseteq Tasks
      /\ run.product.type = "PLAN" /\ run.product.parent = run.input /\ run.product.by = Current
      /\ run.product.keys \subseteq DOMAIN stories
      /\ \A k \in run.product.keys :
           /\ stories[k].by = Current
           /\ \A l \in run.product.keys : k # l => stories[k].task # stories[l].task
      /\ \A k \in DOMAIN stories : stories[k].by = Current => k \in run.product.keys
  BY <1>1, Names DEF Begun, RunSet, ArtifactSet
<1>3. Current' = Current BY <1>1 DEF Current
<1>4. CASE run.product.tasks = Storied /\ Step("save") /\ UNCHANGED stories
  <2>1. SameBut("save") /\ run'.product = run.product BY <1>1, <1>4, StepSame DEF Steps
  <2>2. run'.agent = run.agent /\ run'.input = run.input /\ run'.step = "save"
        /\ run' \in RunSet(Len(artifacts))
    BY <2>1 DEF SameBut
  <2>3. TypeOK' BY <1>1, <1>4, <2>2, Typed, TypedNext DEF StorySet
  <2>4. RunOpen' /\ Closed' /\ FewTraces' /\ Told' BY <1>1, <1>4, <2>2, RunOnly
  <2>5. Begun' BY <1>1, <1>2, <1>3, <1>4, <2>1, <2>2 DEF Begun
  <2>6. Finished'
    <3>1. ASSUME NEW t \in run.product.tasks
          PROVE Cardinality({k \in run.product.keys : stories[k] = [task |-> t, by |-> Current]}) = 1
      <4>1. PICK k \in run.product.keys : stories[k].task = t BY <1>4 DEF Storied
      <4>2. \A l \in run.product.keys : stories[l] \in StorySet BY <1>1, <1>2, Elements
      <4>3. \A l \in run.product.keys :
              stories[l] = [task |-> t, by |-> Current] <=> stories[l].task = t
        BY <1>2, <4>2 DEF StorySet
      <4>4. {l \in run.product.keys : stories[l] = [task |-> t, by |-> Current]} = {k}
        BY <1>2, <4>1, <4>3
      <4>5. QED BY <4>4, FS_Singleton
    <3>2. Made(run.product, run.agent, Current, artifacts, stories)
      BY <1>1, <1>2, <3>1, Names DEF Made
    <3>3. QED BY <1>1, <1>3, <1>4, <2>1, <2>2, <3>2 DEF Finished
  <2>7. ChangesKnown'
    <3>1. Listed' = Listed /\ Mine = {} /\ Mine' = {}
      BY <1>1, <2>2 DEF Listed, OfType, Mine
    <3>2. QED BY <1>1, <1>3, <2>2, <3>1 DEF AgentInv, ChangesKnown
  <2>8. QED BY <2>3, <2>4, <2>5, <2>6, <2>7 DEF AgentInv
<1>5. ASSUME NEW t \in run.product.tasks \ Storied,
             stories' = Append(stories, [task |-> t, by |-> Current]),
             run' = [run EXCEPT !.product.keys = @ \cup {Len(stories) + 1}]
      PROVE AgentInv'
  <2> DEFINE n == Len(stories) + 1
  <2>1. /\ stories' \in Seq([task : Tasks, by : DOMAIN executions'])
        /\ Len(stories) \in Nat /\ Kept(stories, stories')
        /\ DOMAIN stories' = DOMAIN stories \cup {n}
        /\ stories'[n].task = t /\ stories'[n].by = Current
        /\ Closed' /\ Told'
    <3>1. t \in Tasks BY <1>2, <1>5
    <3>2. QED BY <1>1, <1>5, <3>1, StoryAdded
  <2> DEFINE p == [run.product EXCEPT !.keys = run.product.keys \cup {n}]
  <2>2. /\ run'.agent = run.agent /\ run'.step = run.step /\ run'.input = run.input
        /\ run'.product = p
    BY <1>1, <1>5 DEF RunSet
  <2>3. n \in Nat /\ n \notin DOMAIN stories BY <1>1, <2>1, Elements
  <2>4. /\ p \in ArtifactSet /\ p.type = run.product.type /\ p.parent = run.product.parent
        /\ p.by = run.product.by /\ p.tasks = run.product.tasks
        /\ p.keys = run.product.keys \cup {n}
    BY <1>2, <2>3 DEF ArtifactSet
  <2>5. run' \in RunSet(Len(artifacts))
    <3> HIDE DEF p, n
    <3>1. run' = [run EXCEPT !.product = p] BY <1>1, <1>5 DEF RunSet, p, n
    <3>2. QED BY <1>1, <2>4, <3>1 DEF RunSet
  <2> HIDE DEF p, n
  <2>6. TypeOK' BY <1>1, <2>1, <2>5, Typed, TypedNext
  <2>7. RunOpen' BY <1>1, <1>3, <2>2 DEF RunOpen
  <2>8. FewTraces'
    <3>1. (Open \ AtWork)' = Open \ AtWork /\ (Orphans \ Saved)' = Orphans \ Saved
      BY <1>1, <2>2 DEF Open, AtWork, Orphans, Saved, Current
    <3>2. QED BY <1>1, <3>1, TracesStep DEF AgentInv
  <2>9. Begun'
    <3>1. \A k \in DOMAIN stories : stories'[k] = stories[k] BY <2>1 DEF Kept
    <3>2. \A k \in run.product.keys : stories[k].task # t
      BY <1>5 DEF Storied
    <3>3. \A k \in p.keys : /\ k \in DOMAIN stories' /\ stories'[k].by = Current
                            /\ \A l \in p.keys : k # l => stories'[k].task # stories'[l].task
      BY <1>2, <2>1, <2>4, <3>1, <3>2
    <3>4. \A k \in DOMAIN stories' : stories'[k].by = Current => k \in p.keys
      BY <1>2, <2>1, <2>4, <3>1
    <3>5. /\ Input[run.agent] # "none" => run.input # 0
          /\ p.type = Product[run.agent] /\ p.parent = run.input /\ p.by = Current
      BY <1>1, <2>4 DEF Begun
    <3>6. QED BY <1>1, <1>3, <2>2, <3>3, <3>4, <3>5 DEF Begun
  <2>10. Finished' BY <1>1, <2>2 DEF Finished
  <2>11. ChangesKnown'
    <3>1. Listed' = Listed /\ Mine = {} /\ Mine' = {}
      BY <1>1, <2>2 DEF Listed, OfType, Mine
    <3>2. QED BY <1>1, <1>3, <2>2, <3>1 DEF AgentInv, ChangesKnown
  <2>12. QED BY <2>1, <2>6, <2>7, <2>8, <2>9, <2>10, <2>11 DEF AgentInv
<1>6. QED BY <1>4, <1>5 DEF CreateStory

LEMMA LoseStoryStep ==
  ASSUME AgentInv, LoseStory
  PROVE  AgentInv'
<1>1. /\ TypeOK /\ run.step = "work" /\ run \in RunSet(Len(artifacts)) /\ run.agent = "planning"
      /\ UNCHANGED <<executions, artifacts, workspace>> /\ RunOpen
      /\ run.product.tasks \subseteq Tasks
  BY Typed DEF AgentInv, LoseStory, Begun, RunSet, ArtifactSet
<1>2. faults' = faults + 1 /\ faults' \in 0..MaxFaults
  BY Typed DEF AgentInv, LoseStory, Fault
<1>3. SameBut("failing") BY <1>1, StepSame DEF LoseStory, Steps
<1>4. /\ run'.step = "failing" /\ run'.agent = run.agent /\ run'.input = run.input
      /\ run' \in RunSet(Len(artifacts)) /\ Current' = Current
  BY <1>1, <1>3 DEF SameBut, Current
<1>5. stories' \in Seq([task : Tasks, by : DOMAIN executions']) /\ Closed' /\ Told'
  <2>1. CASE UNCHANGED stories
    BY <1>1, <2>1, Typed, KeptSelf, ClosedFrame, ToldFrame DEF AgentInv, StorySet
  <2>2. ASSUME NEW t \in run.product.tasks \ Storied,
               stories' = Append(stories, [task |-> t, by |-> Current])
        PROVE stories' \in Seq([task : Tasks, by : DOMAIN executions']) /\ Closed' /\ Told'
    BY <1>1, <2>2, StoryAdded
  <2>3. QED BY <2>1, <2>2 DEF LoseStory
<1>6. TypeOK' BY <1>1, <1>2, <1>4, <1>5, Typed, TypedNext
<1>7. RunOpen' BY <1>1, <1>4 DEF RunOpen
<1>8. Begun' /\ Finished' BY <1>4 DEF Begun, Finished
<1>9. FewTraces'
  <2>1. (Open \ AtWork)' = Open \ AtWork /\ (Orphans \ Saved)' = Orphans \ Saved
    BY <1>1, <1>4 DEF Open, AtWork, Orphans, Saved
  <2>2. QED BY <1>1, <1>2, <2>1, TracesStep DEF AgentInv
<1>10. ChangesKnown'
  <2>1. Listed' = Listed /\ Mine = {} /\ Mine' = {}
    BY <1>1, <1>4 DEF Listed, OfType, Mine
  <2>2. QED BY <1>1, <1>4, <2>1 DEF AgentInv, ChangesKnown
<1>11. QED BY <1>5, <1>6, <1>7, <1>8, <1>9, <1>10 DEF AgentInv

\* The product is saved: whatever else is stored keeps its meaning.
LEMMA ArtifactAdded ==
  ASSUME AgentInv, run.step = "save",
         artifacts' \in {artifacts, Append(artifacts, run.product)},
         UNCHANGED <<executions, stories>>
  PROVE  /\ artifacts' \in Seq(ArtifactSet) /\ Kept(artifacts, artifacts')
         /\ Len(artifacts) \in Nat /\ Len(artifacts') \in {Len(artifacts), Len(artifacts) + 1}
         /\ executions' \in Seq(ExecutionSet(Len(artifacts')))
         /\ stories' \in Seq([task : Tasks, by : DOMAIN executions'])
         /\ run \in RunSet(Len(artifacts'))
         /\ Closed' /\ Told' /\ Listed \subseteq Listed'
<1>1. /\ TypeOK /\ Closed /\ Told /\ run \in RunSet(Len(artifacts)) /\ artifacts \in Seq(ArtifactSet)
      /\ executions \in Seq(ExecutionSet(Len(artifacts))) /\ stories \in Seq(StorySet)
      /\ Len(artifacts) \in Nat
  BY Typed, Elements DEF AgentInv
<1>2. run.product \in ArtifactSet BY <1>1 DEF RunSet
<1>3. /\ artifacts' \in Seq(ArtifactSet) /\ Kept(artifacts, artifacts')
      /\ Len(artifacts') \in {Len(artifacts), Len(artifacts) + 1}
  <2>1. CASE artifacts' = artifacts BY <1>1, <2>1, KeptSelf
  <2>2. CASE artifacts' = Append(artifacts, run.product) BY <1>1, <1>2, <2>2, AppendKeeps
  <2>3. QED BY <2>1, <2>2
<1>4. 0..Len(artifacts) \subseteq 0..Len(artifacts') BY <1>1, <1>3
<1>5. ExecutionSet(Len(artifacts)) \subseteq ExecutionSet(Len(artifacts'))
      /\ RunSet(Len(artifacts)) \subseteq RunSet(Len(artifacts'))
  BY <1>4 DEF ExecutionSet, RunSet
<1>6. executions' \in Seq(ExecutionSet(Len(artifacts'))) BY <1>1, <1>5, SeqMonotonic
<1>7. Closed' /\ Told' /\ Listed \subseteq Listed'
  BY <1>1, <1>3, KeptSelf, ClosedFrame, ToldFrame, ListedFrame
<1>8. QED BY <1>1, <1>3, <1>5, <1>6, <1>7 DEF StorySet

LEMMA SaveStep ==
  ASSUME AgentInv, Save
  PROVE  AgentInv'
<1>1. /\ TypeOK /\ run.step = "save" /\ run \in RunSet(Len(artifacts)) /\ run.agent \in Agents
      /\ artifacts' = Append(artifacts, run.product)
      /\ UNCHANGED <<executions, stories, workspace, faults>>
      /\ Begun /\ Finished /\ RunOpen
      /\ artifacts \in Seq(ArtifactSet) /\ Len(artifacts) \in Nat
  BY Typed, Elements DEF AgentInv, Save, RunOpen
<1>2. SameBut("report") /\ run'.product = run.product
  BY <1>1, StepSame DEF Save, Steps
<1>3. /\ run'.step = "report" /\ run'.agent = run.agent /\ run'.input = run.input
      /\ Current' = Current
  BY <1>1, <1>2 DEF SameBut, Current
<1>4. run' = [run EXCEPT !.step = "report"] BY DEF Save, Step
<1>5. /\ artifacts' \in Seq(ArtifactSet) /\ Kept(artifacts, artifacts')
      /\ executions' \in Seq(ExecutionSet(Len(artifacts')))
      /\ stories' \in Seq([task : Tasks, by : DOMAIN executions'])
      /\ run \in RunSet(Len(artifacts'))
      /\ Closed' /\ Told' /\ Listed \subseteq Listed'
  BY <1>1, ArtifactAdded
<1>6. /\ Len(artifacts') = Len(artifacts) + 1
      /\ DOMAIN artifacts' = DOMAIN artifacts \cup {Len(artifacts')}
      /\ artifacts'[Len(artifacts')] = run.product
  BY <1>1, AppendKeeps DEF RunSet
<1>7. TypeOK'
  <2>1. run' \in RunSet(Len(artifacts')) BY <1>4, <1>5 DEF RunSet, Steps
  <2>2. QED BY <1>1, <1>5, <2>1, Typed, TypedNext
<1>8. RunOpen'
  <2>1. run.input # 0 => run.input \in DOMAIN artifacts BY <1>1, Elements DEF RunSet
  <2>2. QED BY <1>1, <1>3, <1>5, <2>1 DEF RunOpen, Kept
<1>9. Begun' BY <1>1, <1>2, <1>3 DEF Begun
<1>10. Finished'
  <2>1. Made(run.product, run.agent, Current, artifacts', stories')
    BY <1>1, <1>5, KeptSelf, MadeFrame DEF Finished
  <2>2. run.input < Len(artifacts') BY <1>1, <1>6 DEF RunSet
  <2>3. QED BY <1>1, <1>2, <1>3, <1>6, <2>1, <2>2 DEF Finished
<1>11. FewTraces'
  <2>1. (Open \ AtWork)' = Open \ AtWork
    BY <1>1, <1>3 DEF Open, AtWork
  <2>2. Saved' = {Len(artifacts')} /\ Saved = {}
    BY <1>1, <1>3 DEF Saved
  <2>3. Orphans' \subseteq Orphans \cup {Len(artifacts')}
    BY <1>1, <1>6 DEF Orphans
  <2>4. (Orphans \ Saved)' \subseteq Orphans \ Saved
    BY <2>2, <2>3
  <2>5. QED BY <1>1, <2>1, <2>4, TracesStep DEF AgentInv
<1>12. ChangesKnown'
  <2>1. Mine' = Mine BY <1>1, <1>2, <1>3 DEF Mine
  <2>2. QED BY <1>1, <1>3, <1>5, <2>1 DEF AgentInv, ChangesKnown
<1>13. QED BY <1>5, <1>7, <1>8, <1>9, <1>10, <1>11, <1>12 DEF AgentInv

LEMMA LoseSaveStep ==
  ASSUME AgentInv, LoseSave
  PROVE  AgentInv'
<1>1. /\ TypeOK /\ run.step = "save" /\ run \in RunSet(Len(artifacts)) /\ run.agent \in Agents
      /\ artifacts' \in {artifacts, Append(artifacts, run.product)}
      /\ UNCHANGED <<executions, stories, workspace>>
      /\ RunOpen /\ artifacts \in Seq(ArtifactSet) /\ Len(artifacts) \in Nat
  BY Typed, Elements DEF AgentInv, LoseSave, RunOpen
<1>2. faults' = faults + 1 /\ faults' \in 0..MaxFaults
  BY Typed DEF AgentInv, LoseSave, Fault
<1>3. /\ artifacts' \in Seq(ArtifactSet) /\ Kept(artifacts, artifacts')
      /\ executions' \in Seq(ExecutionSet(Len(artifacts')))
      /\ stories' \in Seq([task : Tasks, by : DOMAIN executions'])
      /\ run \in RunSet(Len(artifacts'))
      /\ Len(artifacts') \in {Len(artifacts), Len(artifacts) + 1}
      /\ Closed' /\ Told' /\ Listed \subseteq Listed'
  BY <1>1, ArtifactAdded
<1>4. \/ run.agent = "planning" /\ run' = Idle /\ run'.step = "idle"
      \/ run.agent # "planning" /\ run' = [run EXCEPT !.step = "failing"] /\ run'.step = "failing"
         /\ run'.agent = run.agent /\ run'.input = run.input
  <2>1. CASE run.agent = "planning" BY <2>1, Names DEF LoseSave
  <2>2. CASE run.agent # "planning"
    <3>1. Step("failing") BY <2>2 DEF LoseSave
    <3>2. SameBut("failing") BY <1>1, <3>1, StepSame DEF Steps
    <3>3. QED BY <2>2, <3>1, <3>2 DEF Step, SameBut
  <2>3. QED BY <2>1, <2>2
<1>5. run' \in RunSet(Len(artifacts')) /\ Current' = Current /\ Len(artifacts') \in Nat
  <2>1. Idle \in RunSet(Len(artifacts')) BY <1>1, <1>3, Names DEF RunSet
  <2>2. [run EXCEPT !.step = "failing"] \in RunSet(Len(artifacts')) BY <1>3 DEF RunSet, Steps
  <2>3. run' \in RunSet(Len(artifacts')) BY <1>4, <2>1, <2>2
  <2>4. Len(artifacts') \in Nat BY <1>1, <1>3
  <2>5. QED BY <1>1, <2>3, <2>4 DEF Current
<1>6. TypeOK' BY <1>1, <1>2, <1>3, <1>5, Typed, TypedNext
<1>7. RunOpen'
  <2>1. run.input # 0 => run.input \in DOMAIN artifacts BY <1>1, Elements DEF RunSet
  <2>2. QED BY <1>1, <1>3, <1>4, <1>5, <2>1 DEF RunOpen, Kept
<1>8. Begun' /\ Finished' BY <1>4 DEF Begun, Finished
<1>9. FewTraces'
  <2>1. (Open \ AtWork)' \subseteq (Open \ AtWork) \cup {Current}
    BY <1>1, <1>5 DEF Open, AtWork
  <2>2. DOMAIN artifacts' \subseteq DOMAIN artifacts \cup {Len(artifacts) + 1}
    BY <1>1, AppendKeeps DEF RunSet
  <2>3. (Orphans \ Saved)' \subseteq (Orphans \ Saved) \cup {Len(artifacts) + 1}
    BY <1>1, <1>4, <2>2 DEF Orphans, Saved
  <2>4. QED BY <1>1, <1>2, <2>1, <2>3, TracesStep DEF AgentInv
<1>10. ChangesKnown'
  <2>1. Current \in DOMAIN executions /\ executions[Current].agent = run.agent
        /\ executions[Current].status = "RUNNING"
    BY <1>1, Elements DEF RunOpen, Current
  <2>2. CASE run.agent = "codegen"
    BY <1>1, <1>4, <1>5, <2>1, <2>2 DEF ChangesKnown
  <2>3. CASE run.agent # "codegen"
    <3>1. Mine = {} BY <2>3 DEF Mine
    <3>2. QED BY <1>1, <1>3, <1>4, <1>5, <2>1, <2>3, <3>1 DEF AgentInv, ChangesKnown
  <2>4. QED BY <2>2, <2>3
<1>11. QED BY <1>3, <1>6, <1>7, <1>8, <1>9, <1>10 DEF AgentInv

\* Closing the record of the run, and no other.
LEMMA CloseIs ==
  ASSUME AgentInv, run.step # "idle", NEW status \in {"COMPLETED", "FAILED"},
         NEW artifact \in 0..Len(artifacts), CloseAs(status, artifact)
  PROVE  /\ executions' \in Seq(ExecutionSet(Len(artifacts)))
         /\ DOMAIN executions' = DOMAIN executions /\ Current' = Current
         /\ Current \in DOMAIN executions
         /\ executions'[Current].agent = executions[Current].agent
         /\ executions'[Current].status = status /\ executions'[Current].artifact = artifact
         /\ \A e \in DOMAIN executions : e # Current => executions'[e] = executions[e]
<1>1. /\ TypeOK /\ executions \in Seq(ExecutionSet(Len(artifacts))) /\ Len(executions) \in Nat
      /\ DOMAIN executions = 1..Len(executions)
      /\ executions \in [1..Len(executions) -> ExecutionSet(Len(artifacts))]
  BY Typed, Elements, LenProperties DEF AgentInv
<1>2. Current \in DOMAIN executions BY <1>1 DEF AgentInv, RunOpen, Current
<1> DEFINE ex == executions  i == Current
           closed == [ex EXCEPT ![i].status = status, ![i].artifact = artifact]
<1>3. executions' = closed BY DEF CloseAs
<1> HIDE DEF i
<1>4. /\ closed \in [1..Len(executions) -> ExecutionSet(Len(artifacts))]
      /\ closed[i].agent = executions[i].agent /\ closed[i].status = status
      /\ closed[i].artifact = artifact
      /\ \A e \in DOMAIN executions : e # i => closed[e] = executions[e]
  BY <1>1, <1>2 DEF ExecutionSet, i
<1> HIDE DEF closed
<1>5. closed \in Seq(ExecutionSet(Len(artifacts))) BY <1>1, <1>4, SeqDef
<1>6. Len(closed) = Len(executions) /\ DOMAIN closed = DOMAIN executions
  <2>1. DOMAIN closed = 1..Len(executions) BY <1>4
  <2>2. Len(closed) \in Nat /\ DOMAIN closed = 1..Len(closed) BY <1>5, LenProperties
  <2>3. QED BY <1>1, <2>1, <2>2
<1>7. QED BY <1>2, <1>3, <1>4, <1>5, <1>6 DEF Current, i

LEMMA ReportStep ==
  ASSUME AgentInv, Report
  PROVE  AgentInv'
<1>1. /\ TypeOK /\ run.step = "report" /\ run \in RunSet(Len(artifacts)) /\ run.agent \in Agents
      /\ UNCHANGED <<artifacts, stories, workspace, faults>>
      /\ Begun /\ Finished /\ RunOpen /\ Closed /\ Told
      /\ Len(artifacts) \in Nat
      /\ run' = Idle /\ run'.step = "idle"
  BY Typed, Elements, Names DEF AgentInv, Report, RunOpen
<1> DEFINE n == Len(artifacts)
<1>2. /\ n # 0 /\ artifacts[n] = run.product /\ run.input < n /\ n \in DOMAIN artifacts
      /\ Made(run.product, run.agent, Current, artifacts, stories)
      /\ executions[Current].agent = run.agent
      /\ run.product.type = Product[run.agent] /\ run.product.parent = run.input
      /\ \A k \in DOMAIN stories : stories[k].by = Current => k \in run.product.keys
  BY <1>1, Elements DEF Finished, RunOpen, Begun
<1>3. /\ executions' \in Seq(ExecutionSet(n))
      /\ DOMAIN executions' = DOMAIN executions /\ Current' = Current
      /\ Current \in DOMAIN executions
      /\ executions'[Current].agent = executions[Current].agent
      /\ executions'[Current].status = "COMPLETED" /\ executions'[Current].artifact = n
      /\ \A e \in DOMAIN executions : e # Current => executions'[e] = executions[e]
  BY <1>1, CloseIs DEF Report
<1> HIDE DEF n
<1>4. TypeOK'
  <2>1. run' \in RunSet(Len(artifacts')) BY <1>1, Names DEF RunSet
  <2>2. QED BY <1>1, <1>3, <2>1, Typed, TypedNext DEF StorySet, n
<1>5. RunOpen' /\ Begun' /\ Finished' BY <1>1 DEF RunOpen, Begun, Finished
<1>6. Closed'
  <2>1. ASSUME NEW e \in DOMAIN executions
        PROVE  /\ executions'[e].status # "COMPLETED" => executions'[e].artifact = 0
               /\ executions'[e].status = "COMPLETED" =>
                    LET i == executions'[e].artifact IN
                    /\ i # 0 /\ Made(artifacts[i], executions'[e].agent, e, artifacts, stories)
                    /\ executions'[e].agent # "planning" => artifacts[i].parent < i
    <3>1. CASE e = Current BY <1>2, <1>3, <3>1
    <3>2. CASE e # Current BY <1>1, <1>3, <3>2 DEF Closed
    <3>3. QED BY <3>1, <3>2
  <2>2. QED BY <1>1, <1>3, <2>1 DEF Closed
<1>7. FewTraces'
  <2>1. (Open \ AtWork)' \subseteq Open \ AtWork
    BY <1>1, <1>3 DEF Open, AtWork
  <2>2. n \notin Orphans'
    BY <1>3 DEF Orphans
  <2>3. Orphans' \subseteq Orphans \cup {n}
    BY <1>1, <1>3 DEF RunOpen, Orphans
  <2>4. Saved = {n} BY <1>1 DEF Saved, n
  <2>5. (Orphans \ Saved)' \subseteq Orphans \ Saved
    BY <2>2, <2>3, <2>4
  <2>6. QED BY <1>1, <2>1, <2>5, TracesStep DEF AgentInv
<1>8. Told'
  <2>1. \A k \in DOMAIN stories : stories[k].by = Current => \E i \in OfType("PLAN") : k \in artifacts[i].keys
    <3> SUFFICES ASSUME NEW k \in DOMAIN stories, stories[k].by = Current
                 PROVE  \E i \in OfType("PLAN") : k \in artifacts[i].keys
      OBVIOUS
    <3>1. k \in run.product.keys BY <1>2
    <3>2. run.agent = "planning" BY <1>1, <1>2, <3>1 DEF Made
    <3>3. run.product.type = "PLAN" BY <1>1, <1>2, <3>2, Names
    <3>4. n \in OfType("PLAN") /\ k \in artifacts[n].keys BY <1>2, <3>1, <3>3 DEF OfType
    <3>5. QED BY <3>4
  <2>2. OfType("PLAN")' = OfType("PLAN") BY <1>1 DEF OfType
  <2>3. \A k \in DOMAIN stories : stories[k].by \in DOMAIN executions BY <1>1, Elements
  <2>4. QED BY <1>1, <1>3, <2>1, <2>2, <2>3 DEF Told
<1>9. ChangesKnown'
  <2>1. Listed' = Listed /\ Mine' = {} BY <1>1 DEF Listed, OfType, Mine
  <2>2. Mine \subseteq Listed
    <3>1. CASE run.agent = "codegen"
      <4>1. n \in OfType("CODE_CHANGE") BY <1>1, <1>2, <3>1, Names DEF OfType
      <4>2. QED BY <1>1, <1>2, <3>1, <4>1 DEF Mine, Listed
    <3>2. CASE run.agent # "codegen" BY <3>2 DEF Mine
    <3>3. QED BY <3>1, <3>2
  <2>3. QED BY <1>1, <1>3, <2>1, <2>2 DEF AgentInv, ChangesKnown
<1>10. QED BY <1>4, <1>5, <1>6, <1>7, <1>8, <1>9 DEF AgentInv

LEMMA RecordFailureStep ==
  ASSUME AgentInv, RecordFailure
  PROVE  AgentInv'
<1>1. /\ TypeOK /\ run.step = "failing" /\ Closed /\ Told /\ RunOpen
      /\ UNCHANGED <<artifacts, stories, workspace, faults>>
      /\ Len(artifacts) \in Nat
      /\ run' = Idle /\ run'.step = "idle"
  BY Elements, Names DEF AgentInv, RecordFailure
<1>2. /\ executions' \in Seq(ExecutionSet(Len(artifacts)))
      /\ DOMAIN executions' = DOMAIN executions /\ Current' = Current
      /\ Current \in DOMAIN executions
      /\ executions'[Current].agent = executions[Current].agent
      /\ executions'[Current].status = "FAILED" /\ executions'[Current].artifact = 0
      /\ \A e \in DOMAIN executions : e # Current => executions'[e] = executions[e]
  BY <1>1, CloseIs DEF RecordFailure
<1>3. executions[Current].artifact = 0 /\ executions[Current].status = "RUNNING"
  BY <1>1 DEF RunOpen
<1>4. TypeOK'
  <2>1. run' \in RunSet(Len(artifacts')) BY <1>1, Names DEF RunSet
  <2>2. QED BY <1>1, <1>2, <2>1, Typed, TypedNext DEF StorySet
<1>5. RunOpen' /\ Begun' /\ Finished' BY <1>1 DEF RunOpen, Begun, Finished
<1>6. Closed' BY <1>1, <1>2 DEF Closed
<1>7. FewTraces'
  <2>1. (Open \ AtWork)' \subseteq Open \ AtWork
    BY <1>1, <1>2 DEF Open, AtWork
  <2>2. (Orphans \ Saved)' \subseteq Orphans \ Saved
    BY <1>1, <1>2, <1>3 DEF Orphans, Saved
  <2>3. QED BY <1>1, <2>1, <2>2, TracesStep DEF AgentInv
<1>8. Told'
  <2>1. OfType("PLAN")' = OfType("PLAN") BY <1>1 DEF OfType
  <2>2. \A k \in DOMAIN stories : stories[k].by \in DOMAIN executions BY <1>1, Elements
  <2>3. QED BY <1>1, <1>2, <1>3, <2>1, <2>2 DEF Told
<1>9. ChangesKnown'
  <2>1. Listed' = Listed /\ Mine' = {} /\ Mine = {} BY <1>1 DEF Listed, OfType, Mine
  <2>2. QED BY <1>1, <1>2, <1>3, <2>1 DEF AgentInv, ChangesKnown
<1>10. QED BY <1>4, <1>5, <1>6, <1>7, <1>8, <1>9 DEF AgentInv

LEMMA AbortStep ==
  ASSUME AgentInv, Abort
  PROVE  AgentInv'
<1>1. /\ TypeOK /\ run.step # "idle" /\ Closed /\ Told /\ RunOpen
      /\ UNCHANGED <<executions, artifacts, stories, workspace>>
      /\ run' = Idle /\ run'.step = "idle" /\ Current' = Current
  BY Names DEF AgentInv, Abort, Current
<1>2. faults' = faults + 1 /\ faults' \in 0..MaxFaults
  BY Typed DEF AgentInv, Abort, Fault
<1>3. TypeOK'
  <2>1. run' \in RunSet(Len(artifacts')) BY <1>1, Names, Elements DEF RunSet
  <2>2. QED BY <1>1, <1>2, <2>1, Typed, TypedNext DEF StorySet
<1>4. RunOpen' /\ Begun' /\ Finished' BY <1>1 DEF RunOpen, Begun, Finished
<1>5. Closed' /\ Told' BY <1>1, KeptSelf, ClosedFrame, ToldFrame
<1>6. FewTraces'
  <2>1. (Open \ AtWork)' \subseteq (Open \ AtWork) \cup {Current}
    BY <1>1 DEF Open, AtWork
  <2>2. (Orphans \ Saved)' \subseteq (Orphans \ Saved) \cup {Len(artifacts)}
    BY <1>1 DEF Orphans, Saved
  <2>3. QED BY <1>1, <1>2, <2>1, <2>2, TracesStep DEF AgentInv
<1>7. ChangesKnown'
  <2>1. Listed' = Listed /\ Mine' = {} BY <1>1 DEF Listed, OfType, Mine
  <2>2. Current \in DOMAIN executions /\ executions[Current].agent = run.agent
        /\ executions[Current].status = "RUNNING"
    BY <1>1, Elements DEF RunOpen, Current
  <2>3. CASE run.agent = "codegen" BY <1>1, <2>2, <2>3 DEF ChangesKnown
  <2>4. CASE run.agent # "codegen"
    <3>1. Mine = {} BY <2>4 DEF Mine
    <3>2. QED BY <1>1, <2>1, <2>2, <3>1 DEF AgentInv, ChangesKnown
  <2>5. QED BY <2>3, <2>4
<1>8. QED BY <1>3, <1>4, <1>5, <1>6, <1>7 DEF AgentInv

-----------------------------------------------------------------------------
(* The results. *)

LEMMA AgentInit == Init => AgentInv
<1> SUFFICES ASSUME Init PROVE AgentInv OBVIOUS
<1>1. TypeOK BY Names, EmptySeq DEF Init, TypeOK, RunSet, Steps
<1>2. Open = {} /\ Orphans = {} BY DEF Init, Open, Orphans
<1>3. FewTraces BY <1>2, FS_EmptySet DEF Init, FewTraces
<1>4. RunOpen /\ Begun /\ Finished BY Names DEF Init, RunOpen, Begun, Finished
<1>5. Closed /\ Told /\ ChangesKnown BY DEF Init, Closed, Told, ChangesKnown
<1>6. QED BY <1>1, <1>3, <1>4, <1>5 DEF AgentInv

LEMMA AgentStep == AgentInv /\ [Next]_vars => AgentInv'
<1> SUFFICES ASSUME AgentInv, [Next]_vars PROVE AgentInv' OBVIOUS
<1>1. CASE UNCHANGED vars
  BY <1>1 DEF vars, AgentInv, TypeOK, RunOpen, Begun, Finished, Closed, FewTraces, Told, ChangesKnown,
              Open, Orphans, AtWork, Saved, Listed, Mine, OfType, Current
<1>2. CASE \E a \in Agents : Begin(a) BY <1>2, BeginStep
<1>3. CASE Work
  BY <1>3, ReadInputStep, AnswerStep, CreateStoryStep, SaveStep, ReportStep, RecordFailureStep DEF Work
<1>4. CASE LoseStory \/ LoseSave \/ Abort
  BY <1>4, LoseStoryStep, LoseSaveStep, AbortStep
<1>5. QED BY <1>1, <1>2, <1>3, <1>4 DEF Next

LEMMA AgentInvariant == Spec => []AgentInv
  BY AgentInit, AgentStep, PTL DEF Spec

\* Executions, artifacts, stories and files keep their types, whatever a run of an
\* agent leaves behind.
THEOREM TypeCorrect == Spec => []TypeOK
  BY AgentInvariant, PTL DEF AgentInv

\* A completed execution names its own product, of its type, complete, and made
\* from an older artifact of the type it consumes.
THEOREM CompletedWork == Spec => []CompletedIsDone
<1>1. AgentInv => CompletedIsDone
  <2> SUFFICES ASSUME AgentInv, NEW e \in DOMAIN executions, executions[e].status = "COMPLETED"
               PROVE  LET i == executions[e].artifact IN
                      /\ i # 0
                      /\ LET p == artifacts[i]  source == artifacts[p.parent] IN
                         /\ p.by = e /\ p.type = Product[executions[e].agent]
                         /\ p.type # "PLAN" => /\ p.parent \in 1..(i - 1)
                                               /\ source.type = Input[executions[e].agent]
                         /\ p.type = "PLAN" =>
                              \A t \in p.tasks :
                                Cardinality({k \in p.keys : stories[k] = [task |-> t, by |-> e]}) = 1
                         /\ p.type = "ARCHITECTURE" => p.tasks = source.tasks
                         /\ p.type = "CODE_CHANGE" => p.files \subseteq source.files
    BY DEF CompletedIsDone
  <2> DEFINE i == executions[e].artifact  a == executions[e].agent
  <2>1. /\ i # 0 /\ Made(artifacts[i], a, e, artifacts, stories)
        /\ a # "planning" => artifacts[i].parent < i
    BY DEF AgentInv, Closed
  <2>2. a \in Agents /\ i \in 0..Len(artifacts) /\ Len(artifacts) \in Nat
        /\ DOMAIN artifacts = 1..Len(artifacts)
    BY Elements DEF AgentInv, ExecutionSet
  <2> HIDE DEF i, a
  <2>3. /\ Product[a] = "PLAN" <=> a = "planning"
        /\ Product[a] = "ARCHITECTURE" <=> a = "architecture"
        /\ Product[a] = "CODE_CHANGE" <=> a = "codegen"
    BY <2>2, Names
  <2>4. a # "planning" => artifacts[i].parent \in 1..(i - 1)
    BY <2>1, <2>2 DEF Made
  <2>5. QED BY <2>1, <2>3, <2>4 DEF Made, i, a
<1>2. QED BY <1>1, AgentInvariant, PTL

\* At most one open record and one unnamed artifact per fault.
THEOREM TracesAreFaults == Spec => []OnlyFaultsLeaveTraces
<1>1. AgentInv => OnlyFaultsLeaveTraces
  <2> SUFFICES ASSUME AgentInv, run.step = "idle"
               PROVE  Cardinality(Open) <= faults /\ Cardinality(Orphans) <= faults
    BY DEF OnlyFaultsLeaveTraces
  <2>1. Open \ AtWork = Open /\ Orphans \ Saved = Orphans BY DEF AtWork, Saved
  <2>2. QED BY <2>1 DEF AgentInv, FewTraces
<1>2. QED BY <1>1, AgentInvariant, PTL

\* A story that no plan names, and a change that no code artifact lists, come from
\* a run that did not complete.
THEOREM LeftoversComeFromRetries == Spec => []LeftoversAreRetries
<1>1. AgentInv => LeftoversAreRetries
  <2> SUFFICES ASSUME AgentInv PROVE LeftoversAreRetries OBVIOUS
  <2>1. Told BY DEF AgentInv
  <2>2. \/ workspace \subseteq Listed
        \/ \E e \in DOMAIN executions :
             executions[e].agent = "codegen" /\ executions[e].status # "COMPLETED"
    <3>1. CASE run.agent = "codegen" /\ run.step \in {"save", "report"}
      BY <3>1, Elements DEF AgentInv, RunOpen, Current
    <3>2. CASE ~(run.agent = "codegen" /\ run.step \in {"save", "report"})
      BY <3>2 DEF AgentInv, ChangesKnown, Mine
    <3>3. QED BY <3>1, <3>2
  <2>3. QED BY <2>1, <2>2 DEF Told, Listed, LeftoversAreRetries
<1>2. QED BY <1>1, AgentInvariant, PTL
=============================================================================
