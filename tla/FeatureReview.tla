--------------------------- MODULE FeatureReview ----------------------------
(***************************************************************************)
(* The human review of a feature opportunity: created from a detection,    *)
(* approved with a Jira story or rejected, then turned into a workflow.    *)
(*                                                                         *)
(* Executors are in-flight requests; one action is the code between two    *)
(* awaits. A review is written under its version, as a workflow is; Jira   *)
(* and the workflow collection take no part in that. A request that is     *)
(* refused by what it reads (a missing capability, a reviewer who is not   *)
(* human, a review already decided the other way) changes nothing and has  *)
(* no action.                                                              *)
(*                                                                         *)
(* Source: app/feature_review/service.py, start_workflow_from_review in    *)
(* app/orchestration/service.py, app/core/jira_client.py and the Firestore *)
(* repositories.                                                           *)
(***************************************************************************)
EXTENDS Naturals, Sequences, FiniteSets

CONSTANTS
  Executors,     \* in-flight requests
  Detections,    \* FEATURE_OPPORTUNITY detections whose signals resolve
  MaxAttempts,   \* attempts of one create_story (jira_retry_max_attempts)
  Faults,        \* what may happen to an attempt: "down" (a 5xx, no
                 \* connection), "unanswered" (a timeout after Jira has made
                 \* the story), "refused" (a 4xx, an open circuit)
  MaxReviews, MaxRequests, MaxFaults, MaxCrashes, MaxVersion   \* bounds

ASSUME DetectionAssumption == Detections \subseteq Nat
ASSUME AttemptAssumption == MaxAttempts \in Nat \ {0}
ASSUME FaultAssumption == Faults \subseteq {"down", "unanswered", "refused"}
ASSUME BoundAssumption ==
  {MaxReviews, MaxRequests, MaxFaults, MaxCrashes, MaxVersion} \subseteq Nat

VARIABLES
  reviews,     \* the persisted FeatureReviews, named by their position
  stories,     \* Jira: the review each story was made for
  workflows,   \* the version of each claimed workflow document, 0: not created
  pc,          \* pc[e]: where request e is
  work,        \* work[e]: its locals
  told,        \* the answers callers were given
  requests, faults, crashes   \* counters of the bounded events

vars == <<reviews, stories, workflows, pc, work, told, requests, faults, crashes>>
counters == <<requests, faults, crashes>>

NoReview == [detection |-> 0, status |-> "PENDING", version |-> 0,
             ticket |-> 0, workflow |-> 0]

\* The review named, the copy read of it, the story that Jira answered with,
\* the attempt of the retry, the workflow id to create.
NoWork == [review |-> 0, copy |-> NoReview, story |-> 0, attempt |-> 0, workflow |-> 0]

Init ==
  /\ reviews = <<>> /\ stories = <<>> /\ workflows = <<>>
  /\ pc = [e \in Executors |-> "idle"]
  /\ work = [e \in Executors |-> NoWork]
  /\ told = {}
  /\ requests = 0 /\ faults = 0 /\ crashes = 0

Goto(e, label) == pc' = [pc EXCEPT ![e] = label]

Leave(e) ==
  /\ Goto(e, "idle")
  /\ work' = [work EXCEPT ![e] = NoWork]

\* The request ends: with an exception, or with a review or a workflow.
Raise(e) == Leave(e) /\ UNCHANGED told
Answer(e, what, r, value) == Leave(e) /\ told' = told \cup {<<what, r, value>>}

Request(e) ==
  /\ pc[e] = "idle"
  /\ requests < MaxRequests
  /\ requests' = requests + 1

\* The first read of the review.
Read(e, r) ==
  /\ Request(e)
  /\ work' = [work EXCEPT ![e].review = r, ![e].copy = reviews[r]]

Fresh(e) == reviews[work[e].review].version = work[e].copy.version

\* update_if_version
UpdateBlindly(e, doc) ==   \* fault: a plain set()
  reviews' = [reviews EXCEPT ![work[e].review] =
                [doc EXCEPT !.version = work[e].copy.version + 1]]

UpdateIfVersion(e, doc) ==
  /\ Fresh(e)
  /\ reviews' = [reviews EXCEPT ![work[e].review] =
                   [doc EXCEPT !.version = work[e].copy.version + 1]]

(***************************************************************************)
(* create_review: look the detection up, then create under a fresh id.     *)
(***************************************************************************)
FindReview(e, d) ==
  /\ Request(e)
  /\ \A r \in DOMAIN reviews : reviews[r].detection # d
  /\ work' = [work EXCEPT ![e].copy.detection = d]
  /\ Goto(e, "create")
  /\ UNCHANGED <<reviews, stories, workflows, told, faults, crashes>>

CreateReview(e) ==
  /\ pc[e] = "create"
  /\ Len(reviews) < MaxReviews
  /\ reviews' = Append(reviews, [work[e].copy EXCEPT !.version = 1])
  /\ Raise(e)
  /\ UNCHANGED <<stories, workflows, counters>>

(***************************************************************************)
(* approve: a story first, then the review.                                *)
(***************************************************************************)
\* A ticket that the review already records would be reused.
Approve(e, r) ==
  /\ Request(e)
  /\ reviews[r].status = "PENDING"
  /\ work' = [work EXCEPT ![e].review = r, ![e].copy = reviews[r],
                          ![e].story = reviews[r].ticket]
  /\ Goto(e, IF reviews[r].ticket = 0 THEN "jira" ELSE "approve")
  /\ UNCHANGED <<reviews, stories, workflows, told, faults, crashes>>

ApproveAgain(e, r) ==
  /\ Request(e)
  /\ reviews[r].status = "APPROVED"
  /\ told' = told \cup {<<"approve", r, reviews[r].ticket>>}
  /\ UNCHANGED <<reviews, stories, workflows, pc, work, faults, crashes>>

\* One attempt that Jira serves.
CreateStory(e) ==
  /\ pc[e] = "jira"
  /\ stories' = Append(stories, work[e].review)
  /\ work' = [work EXCEPT ![e].story = Len(stories) + 1]
  /\ Goto(e, "approve")
  /\ UNCHANGED <<reviews, workflows, told, counters>>

JiraFault(kind) ==
  /\ kind \in Faults
  /\ faults < MaxFaults
  /\ faults' = faults + 1
  /\ UNCHANGED <<reviews, workflows, requests, crashes>>

\* retry_async: a transient failure is tried again until the attempts are used
\* up; the review stays PENDING.
ApproveWithoutStory(e) ==   \* fault: a Jira outage does not stop an approval
  IF work[e].attempt + 1 < MaxAttempts
    THEN /\ work' = [work EXCEPT ![e].attempt = @ + 1]
         /\ UNCHANGED <<pc, told>>
    ELSE /\ Goto(e, "approve")
         /\ UNCHANGED <<work, told>>

TryAgain(e) ==
  IF work[e].attempt + 1 < MaxAttempts
    THEN /\ work' = [work EXCEPT ![e].attempt = @ + 1]
         /\ UNCHANGED <<pc, told>>
    ELSE Raise(e)

StoryTimesOut(e) ==
  /\ pc[e] = "jira"
  /\ JiraFault("unanswered")
  /\ stories' = Append(stories, work[e].review)
  /\ TryAgain(e)

JiraDown(e) ==
  /\ pc[e] = "jira"
  /\ JiraFault("down")
  /\ TryAgain(e)
  /\ UNCHANGED stories

JiraRefuses(e) ==
  /\ pc[e] = "jira"
  /\ JiraFault("refused")
  /\ Raise(e)
  /\ UNCHANGED stories

WriteApproval(e) ==
  /\ pc[e] = "approve"
  /\ UpdateIfVersion(e, [work[e].copy EXCEPT !.status = "APPROVED", !.ticket = work[e].story])
  /\ Answer(e, "approve", work[e].review, work[e].story)
  /\ UNCHANGED <<stories, workflows, counters>>

\* A lost race: the review is read again, and an APPROVED one is the answer.
Outdated(e, label, conflict) ==
  /\ pc[e] = label
  /\ ~Fresh(e)
  /\ Goto(e, conflict)
  /\ UNCHANGED <<reviews, stories, workflows, work, told, counters>>

AnswerWithOwnStory(e) ==   \* fault: answers with what it wanted to write
  /\ pc[e] = "approve_conflict"
  /\ Answer(e, "approve", work[e].review, work[e].story)
  /\ UNCHANGED <<reviews, stories, workflows, counters>>

ResolveApproval(e) ==
  /\ pc[e] = "approve_conflict"
  /\ LET current == reviews[work[e].review]
     IN  IF current.status = "APPROVED"
         THEN Answer(e, "approve", work[e].review, current.ticket)
         ELSE Raise(e)
  /\ UNCHANGED <<reviews, stories, workflows, counters>>

(***************************************************************************)
(* reject                                                                  *)
(***************************************************************************)
Reject(e, r) ==
  /\ Read(e, r)
  /\ reviews[r].status = "PENDING"
  /\ Goto(e, "reject")
  /\ UNCHANGED <<reviews, stories, workflows, told, faults, crashes>>

WriteRejection(e) ==
  /\ pc[e] = "reject"
  /\ UpdateIfVersion(e, [work[e].copy EXCEPT !.status = "REJECTED"])
  /\ Answer(e, "reject", work[e].review, 0)
  /\ UNCHANGED <<stories, workflows, counters>>

ResolveRejection(e) ==
  /\ pc[e] = "reject_conflict"
  /\ IF reviews[work[e].review].status = "REJECTED"
       THEN Answer(e, "reject", work[e].review, 0)
       ELSE Raise(e)
  /\ UNCHANGED <<reviews, stories, workflows, counters>>

RejectAgain(e, r) ==
  /\ Request(e)
  /\ reviews[r].status = "REJECTED"
  /\ told' = told \cup {<<"reject", r, 0>>}
  /\ UNCHANGED <<reviews, stories, workflows, pc, work, faults, crashes>>

(***************************************************************************)
(* start_workflow_from_review: claim a fresh workflow id on the review,    *)
(* then create the workflow; create reads the document and then sets it.   *)
(***************************************************************************)
StartClaimed(e, r) ==
  /\ Request(e)
  /\ reviews[r].status = "APPROVED" /\ reviews[r].workflow # 0
  /\ work' = [work EXCEPT ![e].review = r, ![e].copy = reviews[r],
                          ![e].workflow = reviews[r].workflow]
  /\ Goto(e, "lookup")
  /\ UNCHANGED <<reviews, stories, workflows, told, faults, crashes>>

StartUnclaimed(e, r) ==
  /\ Read(e, r)
  /\ reviews[r].status = "APPROVED" /\ reviews[r].workflow = 0
  /\ Goto(e, "claim")
  /\ UNCHANGED <<reviews, stories, workflows, told, faults, crashes>>

\* The review names a workflow: return it, or create it under that id.
LookUp(e) ==
  /\ pc[e] = "lookup"
  /\ IF workflows[work[e].workflow] # 0
       THEN Answer(e, "start", work[e].review, work[e].workflow)
       ELSE Goto(e, "make") /\ UNCHANGED <<work, told>>
  /\ UNCHANGED <<reviews, stories, workflows, counters>>

ClaimUnrecorded(e) ==   \* fault: the review is not told its workflow id
  /\ pc[e] = "claim"
  /\ workflows' = Append(workflows, 0)
  /\ work' = [work EXCEPT ![e].workflow = Len(workflows) + 1]
  /\ Goto(e, "make")
  /\ UNCHANGED <<reviews, stories, told, counters>>

Claim(e) ==
  /\ pc[e] = "claim"
  /\ UpdateIfVersion(e, [work[e].copy EXCEPT !.workflow = Len(workflows) + 1])
  /\ workflows' = Append(workflows, 0)
  /\ work' = [work EXCEPT ![e].workflow = Len(workflows) + 1]
  /\ Goto(e, "make")
  /\ UNCHANGED <<stories, told, counters>>

\* Somebody else's claim won: return its workflow if it is there already.
ResolveClaim(e) ==
  /\ pc[e] = "claim_conflict"
  /\ LET theirs == reviews[work[e].review].workflow
     IN  IF theirs # 0
         THEN /\ work' = [work EXCEPT ![e].workflow = theirs]
              /\ Goto(e, "lookup_theirs")
              /\ UNCHANGED told
         ELSE Raise(e)
  /\ UNCHANGED <<reviews, stories, workflows, counters>>

LookUpTheirs(e) ==
  /\ pc[e] = "lookup_theirs"
  /\ IF workflows[work[e].workflow] # 0
       THEN Answer(e, "start", work[e].review, work[e].workflow)
       ELSE Raise(e)
  /\ UNCHANGED <<reviews, stories, workflows, counters>>

\* DuplicateEntityError if the document is there.
MakeWorkflow(e) ==
  /\ pc[e] = "make"
  /\ IF workflows[work[e].workflow] # 0
       THEN Raise(e)
       ELSE Goto(e, "set") /\ UNCHANGED <<work, told>>
  /\ UNCHANGED <<reviews, stories, workflows, counters>>

SetWorkflow(e) ==
  /\ pc[e] = "set"
  /\ workflows' = [workflows EXCEPT ![work[e].workflow] = 1]
  /\ Answer(e, "start", work[e].review, work[e].workflow)
  /\ UNCHANGED <<reviews, stories, counters>>

(***************************************************************************)
(* The environment: a workflow that exists is stepped; a request dies.     *)
(***************************************************************************)
StepWorkflow(w) ==
  /\ workflows[w] \in 1..(MaxVersion - 1)
  /\ workflows' = [workflows EXCEPT ![w] = @ + 1]
  /\ UNCHANGED <<reviews, stories, pc, work, told, counters>>

Crash(e) ==
  /\ pc[e] # "idle"
  /\ crashes < MaxCrashes
  /\ crashes' = crashes + 1
  /\ Raise(e)
  /\ UNCHANGED <<reviews, stories, workflows, requests, faults>>

Begin(e) ==
  \/ \E d \in Detections : FindReview(e, d)
  \/ \E r \in DOMAIN reviews :
       \/ Approve(e, r) \/ ApproveAgain(e, r)
       \/ Reject(e, r) \/ RejectAgain(e, r)
       \/ StartClaimed(e, r) \/ StartUnclaimed(e, r)

Continue(e) ==
  \/ CreateReview(e)
  \/ CreateStory(e) \/ StoryTimesOut(e) \/ JiraDown(e) \/ JiraRefuses(e)
  \/ WriteApproval(e) \/ Outdated(e, "approve", "approve_conflict") \/ ResolveApproval(e)
  \/ WriteRejection(e) \/ Outdated(e, "reject", "reject_conflict") \/ ResolveRejection(e)
  \/ LookUp(e)
  \/ Claim(e) \/ Outdated(e, "claim", "claim_conflict") \/ ResolveClaim(e) \/ LookUpTheirs(e)
  \/ MakeWorkflow(e) \/ SetWorkflow(e)

Next ==
  \/ \E e \in Executors : Begin(e) \/ Continue(e) \/ Crash(e)
  \/ \E w \in DOMAIN workflows : StepWorkflow(w)

Spec == Init /\ [][Next]_vars

(***************************************************************************)
(* Correctness.                                                            *)
(***************************************************************************)
Reviews ==
  [detection : Nat, status : {"PENDING", "APPROVED", "REJECTED"}, version : Nat,
   ticket : Nat, workflow : Nat]

Labels == {"idle", "create", "jira", "approve", "approve_conflict", "reject",
           "reject_conflict", "lookup", "claim", "claim_conflict", "lookup_theirs",
           "make", "set"}

\* Every variable keeps its type; a retry stays within its attempts.
TypeOK ==
  /\ reviews \in Seq(Reviews)
  /\ stories \in Seq(Nat)
  /\ workflows \in Seq(Nat)
  /\ pc \in [Executors -> Labels]
  /\ work \in [Executors -> [review : Nat, copy : Reviews, story : Nat,
                             attempt : 0..(MaxAttempts - 1), workflow : Nat]]
  /\ told \subseteq {"approve", "reject", "start"} \X Nat \X Nat
  /\ requests \in Nat /\ faults \in Nat /\ crashes \in Nat

\* An approved review has a ticket, and the ticket is a story that Jira made for
\* this very review; a review that is not approved has neither ticket nor
\* workflow (approve: Jira before the write).
TicketsReal ==
  \A r \in DOMAIN reviews :
    IF reviews[r].status = "APPROVED"
    THEN /\ reviews[r].ticket \in DOMAIN stories
         /\ stories[reviews[r].ticket] = r
    ELSE reviews[r].ticket = 0 /\ reviews[r].workflow = 0

\* What the answer a says is so.
Holds(a) ==
  /\ a[2] \in DOMAIN reviews
  /\ a[1] = "approve" => /\ reviews[a[2]].status = "APPROVED"
                         /\ reviews[a[2]].ticket = a[3]
  /\ a[1] = "reject" => reviews[a[2]].status = "REJECTED"
  /\ a[1] = "start" => /\ reviews[a[2]].workflow = a[3]
                       /\ a[3] \in DOMAIN workflows /\ workflows[a[3]] # 0

\* Whoever was told that a review is approved, rejected or started was told
\* what the review says for good: concurrent and repeated calls agree on one
\* ticket and one workflow, and that workflow exists (feature_review.md, section
\* 11, "both callers agree on exactly one ticket_id").
AnswersAgree == \A a \in told : Holds(a)

\* A workflow belongs to one review.
WorkflowsOwned ==
  /\ \A q, r \in DOMAIN reviews :
       reviews[q].workflow = reviews[r].workflow /\ reviews[r].workflow # 0 => q = r
  /\ \A w \in DOMAIN workflows : \E r \in DOMAIN reviews : reviews[r].workflow = w

Decides(review, later) ==
  /\ review.status # "PENDING" => /\ later.status = review.status
                                  /\ later.ticket = review.ticket
  /\ review.workflow # 0 => later.workflow = review.workflow

\* A decision is final: whatever races, no write changes the status or the
\* ticket of a decided review, or the workflow of a started one.
DecisionsFinal ==
  [][\A r \in DOMAIN reviews : Decides(reviews[r], reviews'[r])]_vars

\* The version of a review counts what has been done to it: created, decided,
\* started.
Life(review) ==
  \/ /\ review.version = 1 /\ review.status = "PENDING"
     /\ review.workflow = 0
  \/ review.version = 2 /\ review.status # "PENDING" /\ review.workflow = 0
  \/ review.version = 3 /\ review.status = "APPROVED" /\ review.workflow # 0

Deciding == {"jira", "approve", "approve_conflict", "reject", "reject_conflict"}
Claiming == {"claim", "claim_conflict"}
Starting == {"lookup", "lookup_theirs", "make", "set"}

\* What a request knows at an await: how far its copy had got, that the copy is
\* the review as long as the versions agree, and what it holds besides.
LocalsOK(e) ==
  LET r == work[e].review
      copy == work[e].copy
  IN  /\ pc[e] \in Deciding \cup Claiming => /\ r \in DOMAIN reviews
                                             /\ copy.version <= reviews[r].version
                                             /\ copy.version = reviews[r].version => copy = reviews[r]
      /\ pc[e] \in Deciding => copy.version = 1
      /\ pc[e] \in Claiming => copy.version = 2 /\ reviews[r].status = "APPROVED"
      /\ pc[e] \in {"approve_conflict", "reject_conflict", "claim_conflict"} =>
           copy.version # reviews[r].version
      /\ pc[e] = "approve" => work[e].story \in DOMAIN stories /\ stories[work[e].story] = r
      /\ pc[e] \in Starting => /\ r \in DOMAIN reviews
                               /\ work[e].workflow # 0
                               /\ reviews[r].workflow = work[e].workflow
      /\ pc[e] = "idle" => work[e] = NoWork
      /\ pc[e] = "create" => work[e].copy = [NoReview EXCEPT !.detection = work[e].copy.detection]

\* The inductive invariant: a review is written three times at most, each time
\* by a request that read it in the state before.
RInv ==
  /\ TypeOK
  /\ \A r \in DOMAIN reviews : /\ Life(reviews[r])
                               /\ reviews[r].workflow <= Len(workflows)
  /\ TicketsReal /\ AnswersAgree /\ WorkflowsOwned
  /\ \A e \in Executors : LocalsOK(e)

\* "At most one FeatureReview per detection_id" (create_review).
OneReviewPerDetection ==
  \A q, r \in DOMAIN reviews : reviews[q].detection = reviews[r].detection => q = r

\* One approval, however often it is retried, makes one Jira story (approve:
\* "reuse the recorded ticket instead of creating a second one").
OneStoryPerReview ==
  \A i, j \in DOMAIN stories : stories[i] = stories[j] => i = j

=============================================================================
