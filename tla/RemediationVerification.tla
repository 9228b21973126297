---------------------- MODULE RemediationVerification -----------------------
(***************************************************************************)
(* RemediationVerificationService.verify_remediation: callers that verify  *)
(* one resolution of one workflow, interleaved at every await. A record is *)
(* claimed per deployment artifact (its key), decided once, and mirrored   *)
(* onto the workflow document, which the orchestrator writes too.          *)
(*                                                                         *)
(* Source: app/verification/, app/domain/remediation_verification.py, the  *)
(* verification repository in app/persistence/firestore/repositories.py.   *)
(***************************************************************************)
EXTENDS VerificationPolicy, Sequences

CONSTANTS
  Callers,
  Deployments,   \* sequence of [revision, at, ok]: the workflow's artifacts, in order
  Signals,       \* what monitoring may store
  Types,         \* the types of the signals of the incident
  MaxCalls,      \* bound: requests
  MaxFaults      \* bound: crashes and failing calls

Keys == DOMAIN Deployments

ASSUME VerificationBounds ==
  /\ MaxCalls \in Nat /\ MaxFaults \in Nat /\ IsFiniteSet(Signals)
  /\ Types \subseteq Verifiable
  /\ Len(Deployments) \in Nat \ {0} /\ Keys = 1..Len(Deployments)

Outcomes == {"VERIFIED_RESOLVED", "STILL_DEGRADED", "INSUFFICIENT_EVIDENCE", "ESCALATED"}

VARIABLES
  stored,       \* the signals in the repository
  deployed,     \* how many of the deployments have happened
  workflow,     \* [version, marker, latest]: its metadata, as far as it matters here
  pending,      \* the orchestrator has yet to complete the workflow
  records,      \* records[k]: the verification of artifact k
  pc,           \* pc[c]: where caller c is
  target,       \* target[c]: the artifact it verifies
  held,         \* held[c]: the version of the workflow it read for the mirror
  finding,      \* finding[c]: its record, once decided
  answers,      \* <<k, outcome>>: every outcome a caller was given for key k
  raced,        \* keys that two callers were creating at the same time
  calls, faults

documents == <<workflow, pending, records>>
callers == <<pc, target, held, finding>>
vars == <<stored, deployed, documents, callers, answers, raced, calls, faults>>

Absent == [status |-> "ABSENT", version |-> 0, outcome |-> "none", evidence |-> {}]
Claimed == [status |-> "IN_PROGRESS", version |-> 1, outcome |-> "none", evidence |-> {}]
Decided(outcome, evidence) ==
  [status |-> "COMPLETED", version |-> 2, outcome |-> outcome, evidence |-> evidence]

Init ==
  /\ stored = {} /\ deployed = 1
  /\ workflow = [version |-> 1, marker |-> "none", latest |-> 0]
  /\ pending = FALSE
  /\ records = [k \in Keys |-> Absent]
  /\ pc = [c \in Callers |-> "idle"]
  /\ target = [c \in Callers |-> 1]
  /\ held = [c \in Callers |-> 0]
  /\ finding = [c \in Callers |-> Absent]
  /\ answers = {} /\ raced = {} /\ calls = 0 /\ faults = 0

Goto(c, label) == pc' = [pc EXCEPT ![c] = label]
Return(c) ==
  /\ Goto(c, "idle")
  /\ target' = [target EXCEPT ![c] = 1]
  /\ held' = [held EXCEPT ![c] = 0]
  /\ finding' = [finding EXCEPT ![c] = Absent]

\* Every write of the workflow document counts its version up.
Written(marker, latest) ==
  [version |-> workflow.version + 1, marker |-> marker, latest |-> latest]

(***************************************************************************)
(* The world: monitoring stores signals, of a deployment that happened; the *)
(* orchestrator deploys again and completes the workflow.                  *)
(***************************************************************************)
Store(s) ==
  /\ s \notin stored
  /\ \A d \in DOMAIN Deployments : Deployments[d].at <= s.at => d <= deployed
  /\ stored' = stored \cup {s}
  /\ UNCHANGED <<deployed, documents, callers, answers, raced, calls, faults>>

Deploy ==
  /\ deployed < Len(Deployments) /\ ~pending
  /\ deployed' = deployed + 1
  /\ pending' = TRUE
  /\ workflow' = Written(workflow.marker, workflow.latest)
  /\ UNCHANGED <<stored, records, callers, answers, raced, calls, faults>>

Complete ==
  /\ pending /\ pending' = FALSE
  /\ workflow' = Written("deployed_pending_verification", workflow.latest)
  /\ UNCHANGED <<stored, deployed, records, callers, answers, raced, calls, faults>>

(***************************************************************************)
(* verify_remediation                                                      *)
(***************************************************************************)
\* The workflow is read, then the artifacts it lists, from the last.
Ask(c) ==
  /\ pc[c] = "idle" /\ calls < MaxCalls
  /\ calls' = calls + 1
  /\ target' = [target EXCEPT ![c] = deployed]
  /\ Goto(c, "lookup")
  /\ UNCHANGED <<stored, deployed, documents, held, finding, answers, raced, faults>>

\* A record is returned as it is found, in progress or not.
Answer(c) ==
  LET k == target[c] IN
  /\ answers' = IF records[k].status = "COMPLETED"
                THEN answers \cup {<<k, records[k].outcome>>} ELSE answers
  /\ Return(c)

\* find_by_idempotency_key
Lookup(c) ==
  /\ pc[c] = "lookup"
  /\ \/ records[target[c]].status # "ABSENT" /\ Answer(c)
     \/ /\ records[target[c]].status = "ABSENT"
        /\ Goto(c, "peek") /\ UNCHANGED <<target, held, finding, answers>>
  /\ UNCHANGED <<stored, deployed, documents, raced, calls, faults>>

\* create, first half: a DuplicateEntityError makes the caller return what is
\* stored.
SkipPeek(c) ==   \* fault: create does not look first
  /\ pc[c] = "peek"
  /\ Goto(c, "claim")
  /\ raced' = IF \E d \in Callers : pc[d] = "claim" /\ target[d] = target[c]
              THEN raced \cup {target[c]} ELSE raced
  /\ UNCHANGED <<stored, deployed, documents, target, held, finding, answers, calls, faults>>

Peek(c) ==
  /\ pc[c] = "peek"
  /\ \/ /\ records[target[c]].status # "ABSENT"
        /\ Answer(c) /\ UNCHANGED raced
     \/ /\ records[target[c]].status = "ABSENT"
        /\ Goto(c, "claim")
        /\ raced' = IF \E d \in Callers : pc[d] = "claim" /\ target[d] = target[c]
                    THEN raced \cup {target[c]} ELSE raced
        /\ UNCHANGED <<target, held, finding, answers>>
  /\ UNCHANGED <<stored, deployed, documents, calls, faults>>

\* create, second half: the document is set, whatever it is by now.
Claim(c) ==
  /\ pc[c] = "claim"
  /\ records' = [records EXCEPT ![target[c]] = Claimed]
  /\ Goto(c, "mark")
  /\ UNCHANGED <<stored, deployed, workflow, pending, target, held, finding, answers, raced, calls, faults>>

\* _mirror_status_onto_workflow reads the document again and writes against
\* the version it read; a lost race is ignored.
ReadWorkflow(c) ==
  /\ pc[c] \in {"mark", "publish"}
  /\ held' = [held EXCEPT ![c] = workflow.version]
  /\ Goto(c, IF pc[c] = "mark" THEN "marking" ELSE "publishing")
  /\ UNCHANGED <<stored, deployed, documents, target, finding, answers, raced, calls, faults>>

Mark(c) ==
  /\ pc[c] = "marking"
  /\ workflow' = IF workflow.version # held[c] THEN workflow
                 ELSE Written("verification_in_progress", workflow.latest)
  /\ Goto(c, "decide")
  /\ UNCHANGED <<stored, deployed, pending, records, target, held, finding, answers, raced, calls, faults>>

\* A deployment that did not succeed is escalated; otherwise the signals of the
\* incident's types decide. (The queries, one per type, are one step here.)
Decide(c) ==
  LET deployment == Deployments[target[c]]
      evidence == UNION {Collect(t, stored, deployment) : t \in Types} IN
  /\ pc[c] = "decide"
  /\ finding' = [finding EXCEPT ![c] =
       IF deployment.ok THEN Decided(DecideOutcome(Types, evidence), evidence)
       ELSE Decided("ESCALATED", {})]
  /\ Goto(c, "finish")
  /\ UNCHANGED <<stored, deployed, documents, target, held, answers, raced, calls, faults>>

\* update_if_version against the version of the claim; a conflict is raised.
Finish(c) ==
  LET k == target[c] IN
  /\ pc[c] = "finish"
  /\ \/ /\ records[k].version = Claimed.version
        /\ records' = [records EXCEPT ![k] = finding[c]]
        /\ answers' = answers \cup {<<k, finding[c].outcome>>}
        /\ Goto(c, "publish") /\ UNCHANGED <<target, held, finding>>
     \/ /\ records[k].version # Claimed.version
        /\ Return(c) /\ UNCHANGED <<records, answers>>
  /\ UNCHANGED <<stored, deployed, workflow, pending, raced, calls, faults>>

PublishOutcome(c) ==   \* fault: the outcome without its verification_id
  /\ pc[c] = "publishing"
  /\ workflow' = IF workflow.version # held[c] THEN workflow
                 ELSE Written(finding[c].outcome, workflow.latest)
  /\ Return(c)
  /\ UNCHANGED <<stored, deployed, pending, records, answers, raced, calls, faults>>

Publish(c) ==
  /\ pc[c] = "publishing"
  /\ workflow' = IF workflow.version # held[c] THEN workflow
                 ELSE Written(finding[c].outcome, target[c])
  /\ Return(c)
  /\ UNCHANGED <<stored, deployed, pending, records, answers, raced, calls, faults>>

\* A crash of the process, or a repository that fails: the call is over.
Fail(c) ==
  /\ pc[c] # "idle" /\ faults < MaxFaults
  /\ faults' = faults + 1
  /\ Return(c)
  /\ UNCHANGED <<stored, deployed, documents, answers, raced, calls>>

Verify(c) ==
  \/ Lookup(c) \/ Peek(c) \/ Claim(c) \/ ReadWorkflow(c) \/ Mark(c)
  \/ Decide(c) \/ Finish(c) \/ Publish(c)

Next ==
  \/ \E s \in Signals : Store(s)
  \/ Deploy \/ Complete
  \/ \E c \in Callers : Ask(c) \/ Verify(c) \/ Fail(c)

Spec == Init /\ [][Next]_vars

-----------------------------------------------------------------------------
RecordSet == [status : {"ABSENT", "IN_PROGRESS", "COMPLETED"}, version : 0..2,
              outcome : Outcomes \cup {"none"}, evidence : SUBSET Signals]

WorkflowSet == [version : Nat, latest : Keys \cup {0}, marker : Outcomes \cup
  {"none", "deployed_pending_verification", "verification_in_progress"}]

Labels == {"idle", "lookup", "peek", "claim", "mark", "marking", "decide", "finish",
           "publish", "publishing"}

TypeOK ==
  /\ stored \subseteq Signals /\ deployed \in Keys /\ pending \in BOOLEAN
  /\ workflow \in WorkflowSet
  /\ records \in [Keys -> RecordSet]
  /\ pc \in [Callers -> Labels]
  /\ target \in [Callers -> Keys]
  /\ held \in [Callers -> Nat]
  /\ finding \in [Callers -> RecordSet]
  /\ answers \subseteq Keys \X Outcomes
  /\ raced \subseteq Keys /\ calls \in 0..MaxCalls /\ faults \in 0..MaxFaults

\* Whoever asks about a deployment is told one outcome, the one on record,
\* however calls overlap, crash and repeat: unless two callers both created the
\* record, which create's lookup does not exclude.
OneOutcome == \A a \in answers : a[1] \notin raced => records[a[1]].outcome = a[2]

Earned(r, d) ==
  LET e == r.evidence IN
  /\ e \subseteq stored
  /\ \A s \in e : s.type \in Types /\ InWindow(s, d) /\ SameRevision(s, d)
  /\ r.outcome = "VERIFIED_RESOLVED" =>
       /\ d.ok /\ e # {} /\ Cardinality(e) >= MinEvidence
       /\ \A s \in e : ~Degraded(s)
       /\ \A t \in Types \cap AlwaysEmitted : \E s \in e : s.type = t

\* Only what was seen after the deployment, of its revision, can resolve an
\* incident: enough of it, all of it healthy, and something of every type that is
\* reported in good times too. A failed deployment never resolves one.
OutcomeIsEarned == \A k \in Keys : Earned(records[k], Deployments[k])

\* What the workflow document says of a verification is what its record says,
\* although both are written apart, and by others in between.
MirrorIsTrue ==
  LET k == workflow.latest IN
  /\ workflow.marker \in Outcomes => k # 0
  /\ k # 0 /\ k \notin raced =>
       /\ records[k].status = "COMPLETED"
       /\ workflow.marker \in Outcomes => workflow.marker = records[k].outcome

\* The stored signals that a query for the type of s may return instead of it.
CrowdOut(s, d) ==
  {x \in stored \ {s} : x.type = s.type /\ InWindow(x, d) /\ x.at >= s.at}

SeesUpToTheLimit ==
  \A c \in Callers : pc[c] = "decide" /\ finding'[c].outcome = "VERIFIED_RESOLVED" =>
    LET d == Deployments[target[c]] IN
    \A s \in stored :
      s.type \in Types /\ InWindow(s, d) /\ SameRevision(s, d) /\ Degraded(s)
        => Cardinality(CrowdOut(s, d)) >= MaxSignals

\* When a caller concludes that production recovered, a stored signal of a
\* recurrence was overlooked in one way only: the query for its type returned
\* MaxSignals others, none of them older, of which those of another revision
\* were filtered out only afterwards. Nothing in the code excludes that.
OnlyTheLimitHides == [][SeesUpToTheLimit]_vars

\* "never do the work twice" (service.py, line 119), "outcome is final for this
\* verification_id" (remediation_verification.py).
NeverVerifiedTwice ==
  [][\A k \in Keys : records[k].status = "COMPLETED" => records'[k] = records[k]]_vars

\* A resolved incident was resolved by a deployment that came after it.
ResolvedByTheRemediation == records[1].outcome # "VERIFIED_RESOLVED"
=============================================================================
