------------------------ MODULE FeatureReviewProofs -------------------------
(***************************************************************************)
(* The version discipline of a review carries over to Jira tickets and     *)
(* workflows: decisions are final and every answer given stays true, for   *)
(* any number of requests, reviews, crashes and Jira failures.             *)
(***************************************************************************)
EXTENDS FeatureReview, TLAPS

\* What every step does to the shared state: reviews, stories and workflows
\* are only added, and a review that is written gets a later version and keeps
\* what was decided.
Grows ==
  /\ \A r \in DOMAIN reviews :
       /\ r \in DOMAIN reviews'
       /\ \/ reviews'[r] = reviews[r]
          \/ /\ reviews'[r].version > reviews[r].version
             /\ Decides(reviews[r], reviews'[r])
  /\ \A i \in DOMAIN stories : i \in DOMAIN stories' /\ stories'[i] = stories[i]
  /\ \A w \in DOMAIN workflows : /\ w \in DOMAIN workflows'
                                 /\ workflows[w] # 0 => workflows'[w] # 0

LEMMA Types ==
  ASSUME TypeOK
  PROVE  /\ \A e \in Executors : /\ work[e] \in [review : Nat, copy : Reviews, story : Nat,
                                              attempt : 0..(MaxAttempts - 1), workflow : Nat]
                                /\ work[e].copy \in Reviews /\ work[e].copy.version \in Nat
         /\ \A r \in DOMAIN reviews : /\ reviews[r] \in Reviews /\ reviews[r].version \in Nat
                                     /\ reviews[r].workflow \in Nat
         /\ DOMAIN reviews = 1..Len(reviews) /\ Len(reviews) \in Nat
         /\ DOMAIN stories = 1..Len(stories) /\ Len(stories) \in Nat
         /\ DOMAIN workflows = 1..Len(workflows) /\ Len(workflows) \in Nat
<1>1. ASSUME NEW e \in Executors
      PROVE  /\ work[e] \in [review : Nat, copy : Reviews, story : Nat,
                              attempt : 0..(MaxAttempts - 1), workflow : Nat]
             /\ work[e].copy \in Reviews
  BY DEF TypeOK
<1>2. \A r \in DOMAIN reviews : reviews[r] \in Reviews
  BY DEF TypeOK
<1> QED
  BY <1>1, <1>2 DEF TypeOK, Reviews

\* Such a step disturbs no other request, and no answer given before.
LEMMA OthersOK ==
  ASSUME RInv, TypeOK', Grows
  PROVE  /\ \A f \in Executors : pc'[f] = pc[f] /\ work'[f] = work[f] => LocalsOK(f)'
         /\ \A a \in told : Holds(a)'
<1>1. ASSUME NEW f \in Executors, pc'[f] = pc[f], work'[f] = work[f] PROVE LocalsOK(f)'
  <2> DEFINE r == work[f].review
  <2>0. pc'[f] = pc[f] /\ work'[f] = work[f] /\ LocalsOK(f)
    BY <1>1 DEF RInv
  <2>1. r \in DOMAIN reviews =>
          /\ r \in DOMAIN reviews'
          /\ reviews'[r] = reviews[r] \/ /\ reviews'[r].version > reviews[r].version
                                         /\ Decides(reviews[r], reviews'[r])
    BY DEF Grows
  <2>2. work[f].copy.version \in Nat /\ (r \in DOMAIN reviews => reviews[r].version \in Nat)
    BY Types DEF RInv
  <2>3. work'[f].review = r /\ work'[f].copy = work[f].copy
        /\ work'[f].story = work[f].story /\ work'[f].workflow = work[f].workflow
    BY <2>0
  <2>4. CASE pc[f] \in Deciding \cup Claiming
    <3>1. r \in DOMAIN reviews /\ work[f].copy.version <= reviews[r].version
          /\ (work[f].copy.version = reviews[r].version => work[f].copy = reviews[r])
      BY <2>0, <2>4 DEF LocalsOK
    <3>2. r \in DOMAIN reviews' /\ reviews'[r].version \in Nat
      <4>1. r \in DOMAIN reviews' /\ reviews' \in Seq(Reviews)
        BY <2>1, <3>1 DEF TypeOK
      <4>2. reviews'[r] \in Reviews
        BY <4>1
      <4> QED BY <4>1, <4>2 DEF Reviews
    <3>3. /\ work[f].copy.version <= reviews'[r].version
          /\ work[f].copy.version = reviews'[r].version => work[f].copy = reviews'[r]
          /\ work[f].copy.version # reviews[r].version => work[f].copy.version # reviews'[r].version
      BY <2>1, <2>2, <3>1, <3>2
    <3>4. reviews[r].status = "APPROVED" => reviews'[r].status = "APPROVED"
      BY <2>1, <3>1 DEF Decides
    <3>5. pc[f] = "approve" => work[f].story \in DOMAIN stories' /\ stories'[work[f].story] = r
      BY <2>0 DEF LocalsOK, Grows
    <3> QED
      BY <2>0, <2>3, <2>4, <3>2, <3>3, <3>4, <3>5 DEF LocalsOK, Deciding, Claiming, Starting
  <2>5. CASE pc[f] \notin Deciding \cup Claiming
    BY <2>0, <2>1, <2>3, <2>5 DEF LocalsOK, Decides, Deciding, Claiming, Starting
  <2> QED
    BY <2>4, <2>5
<1>2. ASSUME NEW a \in told PROVE Holds(a)'
  <2>1. Holds(a)
    BY DEF RInv, AnswersAgree
  <2>2. 0 \notin DOMAIN workflows
    BY Types DEF RInv
  <2>3. a[2] \in DOMAIN reviews' /\ (reviews'[a[2]] = reviews[a[2]] \/ Decides(reviews[a[2]], reviews'[a[2]]))
    BY <2>1 DEF Holds, Grows
  <2>4. a[1] = "start" => a[3] \in DOMAIN workflows' /\ workflows'[a[3]] # 0
    BY <2>1 DEF Holds, Grows
  <2> QED
    BY <2>1, <2>2, <2>3, <2>4 DEF Holds, Decides
<1> QED
  BY <1>1, <1>2

(***************************************************************************)
(* Two kinds of step: those that leave the reviews alone and those that    *)
(* write one.                                                              *)
(***************************************************************************)
LEMMA QuietStep ==
  ASSUME RInv, TypeOK', reviews' = reviews,
         stories' = stories \/ \E x \in Nat : stories' = Append(stories, x),
         Len(workflows') = Len(workflows),
         \A w \in DOMAIN workflows : workflows[w] # 0 => workflows'[w] # 0,
         \A f \in Executors : (pc'[f] = pc[f] /\ work'[f] = work[f]) \/ LocalsOK(f)',
         \A a \in told' : a \in told \/ Holds(a)'
  PROVE  RInv'
<1>1. DOMAIN workflows' = DOMAIN workflows
  BY DEF RInv, TypeOK
<1>2. \A i \in DOMAIN stories : i \in DOMAIN stories' /\ stories'[i] = stories[i]
  <2>1. stories \in Seq(Nat)
    BY DEF RInv, TypeOK
  <2> QED BY <2>1
<1>3. Grows
  BY <1>1, <1>2 DEF Grows
<1>4. (\A f \in Executors : LocalsOK(f)') /\ \A a \in told' : Holds(a)'
  BY <1>3, OthersOK
<1>5. TicketsReal'
  BY <1>2 DEF RInv, TicketsReal
<1>6. WorkflowsOwned'
  BY <1>1 DEF RInv, WorkflowsOwned
<1> QED
  BY <1>4, <1>5, <1>6 DEF RInv, AnswersAgree

LEMMA WriteStep ==
  ASSUME RInv, TypeOK', Grows, TicketsReal', WorkflowsOwned',
         \A r \in DOMAIN reviews' : /\ Life(reviews'[r])
                                   /\ reviews'[r].workflow <= Len(workflows'),
         \A f \in Executors : (pc'[f] = pc[f] /\ work'[f] = work[f]) \/ LocalsOK(f)',
         \A a \in told' : a \in told \/ Holds(a)'
  PROVE  RInv'
<1>1. (\A f \in Executors : LocalsOK(f)') /\ \A a \in told' : Holds(a)'
  BY OthersOK
<1> QED
  BY <1>1 DEF RInv, AnswersAgree

LEMMA Idle ==
  ASSUME TypeOK, NEW e \in Executors, Leave(e)
  PROVE  /\ pc' \in [Executors -> Labels]
         /\ work' \in [Executors -> [review : Nat, copy : Reviews, story : Nat,
                                    attempt : 0..(MaxAttempts - 1), workflow : Nat]]
         /\ LocalsOK(e)'
         /\ \A f \in Executors \ {e} : pc'[f] = pc[f] /\ work'[f] = work[f]
<1>1. NoReview \in Reviews
  BY DEF NoReview, Reviews
<1>2. 0 \in 0..(MaxAttempts - 1)
  BY AttemptAssumption
<1>3. NoWork \in [review : Nat, copy : Reviews, story : Nat,
                  attempt : 0..(MaxAttempts - 1), workflow : Nat]
  BY <1>1, <1>2 DEF NoWork
<1>4. pc'[e] = "idle" /\ work'[e] = NoWork /\ \A f \in Executors \ {e} : pc'[f] = pc[f] /\ work'[f] = work[f]
  BY DEF Leave, Goto, TypeOK
<1> QED
  BY <1>3, <1>4 DEF Leave, Goto, TypeOK, Labels, LocalsOK, Deciding, Claiming, Starting

(***************************************************************************)
(* The first read of a request.                                            *)
(***************************************************************************)
Locals == [review : Nat, copy : Reviews, story : Nat,
           attempt : 0..(MaxAttempts - 1), workflow : Nat]

\* A request that has read review r and holds w goes on at a label that r
\* allows.
LEMMA FirstRead ==
  ASSUME RInv, NEW e \in Executors, NEW r \in DOMAIN reviews, NEW label \in Labels, NEW w \in Locals,
         Request(e), work' = [work EXCEPT ![e] = w], pc' = [pc EXCEPT ![e] = label],
         w.review = r, w.copy = reviews[r],
         UNCHANGED <<reviews, stories, workflows, told, faults, crashes>>,
         label \in Deciding => reviews[r].version = 1,
         label \in Claiming => reviews[r].version = 2 /\ reviews[r].status = "APPROVED",
         label \in Starting => w.workflow # 0 /\ reviews[r].workflow = w.workflow,
         label \notin {"idle", "create", "approve", "approve_conflict", "reject_conflict", "claim_conflict"}
  PROVE  RInv'
<1>1. work' \in [Executors -> Locals] /\ pc' \in [Executors -> Labels] /\ requests' \in Nat
  BY DEF RInv, TypeOK, Locals, Request
<1>2. TypeOK'
  BY <1>1 DEF RInv, TypeOK, Locals
<1>3. /\ pc'[e] = label /\ work'[e] = w
      /\ \A f \in Executors \ {e} : pc'[f] = pc[f] /\ work'[f] = work[f]
  BY DEF RInv, TypeOK
<1>4. reviews[r].version <= reviews[r].version
  BY Types DEF RInv
<1>5. LocalsOK(e)'
  BY <1>3, <1>4 DEF LocalsOK, Deciding, Claiming, Starting
<1> QED
  BY <1>2, <1>3, <1>5, QuietStep

\* How a record of locals is updated.
LEMMA LocalsUpdate ==
  ASSUME TypeOK, NEW e \in Executors, NEW r \in DOMAIN reviews
  PROVE  /\ work[e] \in Locals /\ r \in Nat /\ reviews[r] \in Reviews
         /\ reviews[r].ticket \in Nat /\ reviews[r].workflow \in Nat
<1>1. work[e] \in Locals /\ r \in Nat /\ reviews[r] \in Reviews
  BY Types DEF Locals
<1> QED
  BY <1>1 DEF Reviews

LEMMA BeginInv ==
  ASSUME RInv, NEW e \in Executors, Begin(e)
  PROVE  RInv'
<1> USE DEF RInv
<1>1. ASSUME NEW d \in Detections, FindReview(e, d) PROVE RInv'
  <2> DEFINE w == [work[e] EXCEPT !.copy.detection = d]
  <2>1. d \in Nat /\ work[e] \in Locals /\ work[e].copy \in Reviews
    BY DetectionAssumption, Types DEF Locals
  <2>2. [work[e].copy EXCEPT !.detection = d] \in Reviews
    BY <2>1 DEF Reviews
  <2>3. w \in Locals
    BY <2>1, <2>2 DEF Locals
  <2>4. work' = [work EXCEPT ![e] = w] /\ pc' = [pc EXCEPT ![e] = "create"]
        /\ UNCHANGED <<reviews, stories, workflows, told, faults, crashes>>
    BY <1>1 DEF FindReview, Goto
  <2>5. work' \in [Executors -> Locals] /\ pc' \in [Executors -> Labels] /\ requests' \in Nat
    BY <1>1, <2>3, <2>4 DEF TypeOK, Locals, FindReview, Request, Labels
  <2>6. TypeOK'
    BY <2>4, <2>5 DEF TypeOK, Locals
  <2>7. /\ pc'[e] = "create" /\ work'[e] = w
        /\ \A f \in Executors \ {e} : pc'[f] = pc[f] /\ work'[f] = work[f]
    BY <2>4 DEF TypeOK
  <2>8. work[e] = NoWork
    BY <1>1 DEF FindReview, Request, LocalsOK
  <2>9. w.copy = [NoReview EXCEPT !.detection = d]
    BY <2>8 DEF NoWork, NoReview
  <2>10. w.copy = [NoReview EXCEPT !.detection = w.copy.detection]
    BY <2>9 DEF NoReview
  <2>11. LocalsOK(e)'
    BY <2>7, <2>10 DEF LocalsOK, Deciding, Claiming, Starting
  <2> QED
    BY <2>4, <2>6, <2>7, <2>11, QuietStep
<1>2. ASSUME NEW r \in DOMAIN reviews,
             Approve(e, r) \/ ApproveAgain(e, r) \/ Reject(e, r) \/ RejectAgain(e, r)
               \/ StartClaimed(e, r) \/ StartUnclaimed(e, r)
      PROVE  RInv'
  <2>0. /\ work[e] \in Locals /\ r \in Nat /\ reviews[r] \in Reviews
        /\ reviews[r].ticket \in Nat /\ reviews[r].workflow \in Nat
        /\ Life(reviews[r])
    BY LocalsUpdate
  <2>1. CASE Approve(e, r)
    <3> DEFINE w == [work[e] EXCEPT !.review = r, !.copy = reviews[r], !.story = reviews[r].ticket]
    <3>1. w \in Locals /\ w.review = r /\ w.copy = reviews[r]
      BY <2>0 DEF Locals
    <3>2. reviews[r].ticket = 0 /\ reviews[r].version = 1
      BY <2>0, <2>1 DEF TicketsReal, Approve, Life
    <3>3. Request(e) /\ work' = [work EXCEPT ![e] = w] /\ pc' = [pc EXCEPT ![e] = "jira"]
          /\ UNCHANGED <<reviews, stories, workflows, told, faults, crashes>>
      BY <2>1, <3>2 DEF Approve, Goto
    <3> HIDE DEF w
    <3> QED
      BY <3>1, <3>2, <3>3, FirstRead DEF Labels, Claiming, Starting
  <2>2. CASE Reject(e, r)
    <3> DEFINE w == [work[e] EXCEPT !.review = r, !.copy = reviews[r]]
    <3>1. w \in Locals /\ w.review = r /\ w.copy = reviews[r]
      BY <2>0 DEF Locals
    <3>2. reviews[r].version = 1
      BY <2>0, <2>2 DEF Reject, Life
    <3>3. Request(e) /\ work' = [work EXCEPT ![e] = w] /\ pc' = [pc EXCEPT ![e] = "reject"]
          /\ UNCHANGED <<reviews, stories, workflows, told, faults, crashes>>
      BY <2>2 DEF Reject, Read, Goto
    <3> HIDE DEF w
    <3> QED
      BY <3>1, <3>2, <3>3, FirstRead DEF Labels, Claiming, Starting
  <2>3. CASE StartClaimed(e, r)
    <3> DEFINE w == [work[e] EXCEPT !.review = r, !.copy = reviews[r], !.workflow = reviews[r].workflow]
    <3>1. w \in Locals /\ w.review = r /\ w.copy = reviews[r] /\ w.workflow = reviews[r].workflow
      BY <2>0 DEF Locals
    <3>2. reviews[r].workflow # 0
      BY <2>3 DEF StartClaimed
    <3>3. Request(e) /\ work' = [work EXCEPT ![e] = w] /\ pc' = [pc EXCEPT ![e] = "lookup"]
          /\ UNCHANGED <<reviews, stories, workflows, told, faults, crashes>>
      BY <2>3 DEF StartClaimed, Goto
    <3> HIDE DEF w
    <3> QED
      BY <3>1, <3>2, <3>3, FirstRead DEF Labels, Claiming, Deciding
  <2>4. CASE StartUnclaimed(e, r)
    <3> DEFINE w == [work[e] EXCEPT !.review = r, !.copy = reviews[r]]
    <3>1. w \in Locals /\ w.review = r /\ w.copy = reviews[r]
      BY <2>0 DEF Locals
    <3>2. reviews[r].version = 2 /\ reviews[r].status = "APPROVED"
      BY <2>0, <2>4 DEF StartUnclaimed, Life
    <3>3. Request(e) /\ work' = [work EXCEPT ![e] = w] /\ pc' = [pc EXCEPT ![e] = "claim"]
          /\ UNCHANGED <<reviews, stories, workflows, told, faults, crashes>>
      BY <2>4 DEF StartUnclaimed, Read, Goto
    <3> HIDE DEF w
    <3> QED
      BY <3>1, <3>2, <3>3, FirstRead DEF Labels, Deciding, Starting
  <2>5. CASE ApproveAgain(e, r)
    <3> DEFINE a == <<"approve", r, reviews[r].ticket>>
    <3>1. told' = told \cup {a} /\ requests' \in Nat
          /\ UNCHANGED <<reviews, stories, workflows, pc, work, faults, crashes>>
      BY <2>5 DEF ApproveAgain, Request, TypeOK
    <3>2. a \in {"approve", "reject", "start"} \X Nat \X Nat
      BY <2>0
    <3>3. TypeOK'
      BY <3>1, <3>2 DEF TypeOK
    <3>4. Holds(a)'
      BY <2>5, <3>1 DEF Holds, ApproveAgain
    <3> QED
      BY <3>1, <3>3, <3>4, QuietStep
  <2>6. CASE RejectAgain(e, r)
    <3> DEFINE a == <<"reject", r, 0>>
    <3>1. told' = told \cup {a} /\ requests' \in Nat
          /\ UNCHANGED <<reviews, stories, workflows, pc, work, faults, crashes>>
      BY <2>6 DEF RejectAgain, Request, TypeOK
    <3>2. a \in {"approve", "reject", "start"} \X Nat \X Nat
      BY <2>0
    <3>3. TypeOK'
      BY <3>1, <3>2 DEF TypeOK
    <3>4. Holds(a)'
      BY <2>6, <3>1 DEF Holds, RejectAgain
    <3> QED
      BY <3>1, <3>3, <3>4, QuietStep
  <2> QED
    BY <1>2, <2>1, <2>2, <2>3, <2>4, <2>5, <2>6
<1> QED
  BY <1>1, <1>2 DEF Begin

(***************************************************************************)
(* The rest of a request: it leaves, it goes on, or it writes a review.    *)
(***************************************************************************)
LEMMA StoriesType ==
  ASSUME TypeOK, stories' = stories \/ \E x \in Nat : stories' = Append(stories, x)
  PROVE  stories' \in Seq(Nat)
<1>1. stories \in Seq(Nat)
  BY DEF TypeOK
<1>2. ASSUME NEW x \in Nat, stories' = Append(stories, x) PROVE stories' \in Seq(Nat)
  BY <1>1, <1>2
<1> QED
  BY <1>1, <1>2

LEMMA LeaveStep ==
  ASSUME RInv, NEW e \in Executors, Leave(e),
         reviews' = reviews,
         stories' = stories \/ \E x \in Nat : stories' = Append(stories, x),
         workflows' \in Seq(Nat), Len(workflows') = Len(workflows),
         \A w \in DOMAIN workflows : workflows[w] # 0 => workflows'[w] # 0,
         requests' \in Nat, faults' \in Nat, crashes' \in Nat,
         told' = told \/ \E a \in {"approve", "reject", "start"} \X Nat \X Nat :
                           (told' = told \cup {a} /\ Holds(a)')
  PROVE  RInv'
<1>0. TypeOK
  BY DEF RInv
<1>1. told' \subseteq {"approve", "reject", "start"} \X Nat \X Nat
  BY <1>0 DEF TypeOK
<1>2. stories' \in Seq(Nat)
  BY <1>0, StoriesType
<1>3. /\ pc' \in [Executors -> Labels] /\ work' \in [Executors -> Locals]
      /\ LocalsOK(e)'
      /\ \A f \in Executors \ {e} : pc'[f] = pc[f] /\ work'[f] = work[f]
  BY <1>0, Idle DEF Locals
<1>4. TypeOK'
  BY <1>0, <1>1, <1>2, <1>3 DEF TypeOK, Locals
<1>5. \A a \in told' : a \in told \/ Holds(a)'
  OBVIOUS
<1> QED
  BY <1>3, <1>4, <1>5, QuietStep

LEMMA GoOnStep ==
  ASSUME RInv, NEW e \in Executors, NEW w \in Locals, NEW label \in Labels,
         pc' = [pc EXCEPT ![e] = label], work' = [work EXCEPT ![e] = w],
         reviews' = reviews, workflows' = workflows, told' = told,
         stories' = stories \/ \E x \in Nat : stories' = Append(stories, x),
         requests' \in Nat, faults' \in Nat, crashes' \in Nat,
         pc'[e] = label /\ work'[e] = w => LocalsOK(e)'
  PROVE  RInv'
<1>0. TypeOK
  BY DEF RInv
<1>1. stories' \in Seq(Nat)
  BY <1>0, StoriesType
<1>2. pc' \in [Executors -> Labels] /\ work' \in [Executors -> Locals]
  BY <1>0 DEF TypeOK, Locals
<1>3. TypeOK'
  BY <1>0, <1>1, <1>2 DEF TypeOK, Locals
<1>4. /\ pc'[e] = label /\ work'[e] = w
      /\ \A f \in Executors \ {e} : pc'[f] = pc[f] /\ work'[f] = work[f]
  BY <1>0 DEF TypeOK
<1> QED
  BY <1>3, <1>4, QuietStep

\* What a request that has read a review can rely on.
LEMMA Known ==
  ASSUME RInv, NEW e \in Executors, pc[e] \in Deciding \cup Claiming \cup Starting
  PROVE  /\ work[e] \in Locals /\ work[e].review \in DOMAIN reviews /\ work[e].review \in Nat
         /\ work[e].story \in Nat /\ work[e].workflow \in Nat
         /\ reviews[work[e].review] \in Reviews
         /\ reviews[work[e].review].ticket \in Nat
         /\ reviews[work[e].review].workflow \in Nat
         /\ Life(reviews[work[e].review])
         /\ reviews[work[e].review].workflow <= Len(workflows)
<1>1. work[e].review \in DOMAIN reviews
  BY DEF RInv, LocalsOK
<1>2. work[e] \in Locals /\ work[e].review \in Nat
  BY <1>1, Types DEF RInv, Locals
<1>3. /\ reviews[work[e].review] \in Reviews
      /\ reviews[work[e].review].ticket \in Nat
      /\ reviews[work[e].review].workflow \in Nat
  BY <1>1, LocalsUpdate DEF RInv
<1> QED
  BY <1>1, <1>2, <1>3 DEF RInv, Locals

LEMMA JiraInv ==
  ASSUME RInv, NEW e \in Executors,
         CreateStory(e) \/ StoryTimesOut(e) \/ JiraDown(e) \/ JiraRefuses(e)
  PROVE  RInv'
<1> DEFINE r == work[e].review
<1>0. TypeOK /\ pc[e] = "jira" /\ LocalsOK(e)
  BY DEF RInv, CreateStory, StoryTimesOut, JiraDown, JiraRefuses
<1>1. work[e] \in Locals /\ r \in DOMAIN reviews /\ r \in Nat
  BY <1>0, Known DEF Deciding
<1>2. /\ requests' \in Nat /\ faults' \in Nat /\ crashes' \in Nat
      /\ stories' = stories \/ \E x \in Nat : stories' = Append(stories, x)
      /\ reviews' = reviews /\ workflows' = workflows
  BY <1>0, <1>1 DEF TypeOK, CreateStory, StoryTimesOut, JiraDown, JiraRefuses, JiraFault, counters
<1>3. workflows' \in Seq(Nat) /\ Len(workflows') = Len(workflows)
      /\ \A w \in DOMAIN workflows : workflows[w] # 0 => workflows'[w] # 0
  BY <1>0, <1>2 DEF TypeOK
<1>4. CASE Raise(e)
  BY <1>2, <1>3, <1>4, LeaveStep DEF Raise
<1>5. CASE CreateStory(e)
  <2> DEFINE w == [work[e] EXCEPT !.story = Len(stories) + 1]
  <2>0. stories \in Seq(Nat) /\ stories' = Append(stories, r) /\ Len(stories) \in Nat
    BY <1>0, <1>5 DEF TypeOK, CreateStory
  <2>1. w \in Locals /\ w.review = r /\ w.copy = work[e].copy /\ w.story = Len(stories) + 1
    BY <1>1, <2>0 DEF Locals
  <2>2. w.story \in DOMAIN stories' /\ stories'[w.story] = r
    BY <1>1, <2>0, <2>1
  <2>3. pc' = [pc EXCEPT ![e] = "approve"] /\ work' = [work EXCEPT ![e] = w] /\ told' = told
    BY <1>5 DEF CreateStory, Goto
  <2> HIDE DEF w
  <2>4. pc'[e] = "approve" /\ work'[e] = w => LocalsOK(e)'
    BY <1>0, <1>2, <2>1, <2>2 DEF LocalsOK, Deciding, Claiming, Starting
  <2> QED
    BY <1>2, <2>1, <2>3, <2>4, GoOnStep DEF Labels
<1>6. ASSUME work[e].attempt + 1 < MaxAttempts,
             work' = [work EXCEPT ![e].attempt = work[e].attempt + 1], pc' = pc, told' = told
      PROVE  RInv'
  <2> DEFINE w == [work[e] EXCEPT !.attempt = work[e].attempt + 1]
  <2>1. work[e].attempt \in 0..(MaxAttempts - 1)
    BY <1>1 DEF Locals
  <2>2. work[e].attempt + 1 \in 0..(MaxAttempts - 1)
    BY <1>6, <2>1, AttemptAssumption
  <2>3. w \in Locals /\ w.review = r /\ w.copy = work[e].copy
    BY <1>1, <2>2 DEF Locals
  <2>4. pc' = [pc EXCEPT ![e] = "jira"] /\ work' = [work EXCEPT ![e] = w]
    BY <1>0, <1>6 DEF TypeOK
  <2> HIDE DEF w
  <2>5. pc'[e] = "jira" /\ work'[e] = w => LocalsOK(e)'
    BY <1>0, <1>2, <2>3 DEF LocalsOK, Deciding, Claiming, Starting
  <2> QED
    BY <1>2, <1>6, <2>3, <2>4, <2>5, GoOnStep DEF Labels
<1> QED
  BY <1>4, <1>5, <1>6 DEF StoryTimesOut, JiraDown, JiraRefuses, TryAgain

LEMMA OutdatedInv ==
  ASSUME RInv, NEW e \in Executors,
         \/ Outdated(e, "approve", "approve_conflict")
         \/ Outdated(e, "reject", "reject_conflict")
         \/ Outdated(e, "claim", "claim_conflict")
  PROVE  RInv'
<1>0. PICK label \in {"approve", "reject", "claim"},
           conflict \in {"approve_conflict", "reject_conflict", "claim_conflict"} :
        /\ Outdated(e, label, conflict)
        /\ conflict = "claim_conflict" <=> label = "claim"
  OBVIOUS
<1>1. TypeOK /\ pc[e] = label /\ LocalsOK(e)
  BY <1>0 DEF RInv, Outdated
<1>2. work[e] \in Locals
  BY <1>1, Known DEF Deciding, Claiming
<1>3. /\ pc' = [pc EXCEPT ![e] = conflict]
      /\ work[e].copy.version # reviews[work[e].review].version
      /\ UNCHANGED <<reviews, stories, workflows, work, told, requests, faults, crashes>>
  BY <1>0 DEF Outdated, Goto, counters, Fresh
<1>4. work' = [work EXCEPT ![e] = work[e]]
  BY <1>1, <1>3 DEF TypeOK
<1>5. pc'[e] = conflict /\ work'[e] = work[e] => LocalsOK(e)'
  BY <1>0, <1>1, <1>3 DEF LocalsOK, Deciding, Claiming, Starting
<1>6. requests' \in Nat /\ faults' \in Nat /\ crashes' \in Nat
  BY <1>1, <1>3 DEF TypeOK
<1> QED
  BY <1>2, <1>3, <1>4, <1>5, <1>6, GoOnStep DEF Labels

LEMMA ResolveInv ==
  ASSUME RInv, NEW e \in Executors,
         \/ ResolveApproval(e) \/ ResolveRejection(e) \/ ResolveClaim(e)
         \/ LookUp(e) \/ LookUpTheirs(e) \/ MakeWorkflow(e)
  PROVE  RInv'
<1> DEFINE r == work[e].review
<1>0. TypeOK /\ LocalsOK(e)
  BY DEF RInv
<1>1. /\ pc[e] \in Deciding \cup Claiming \cup Starting
      /\ UNCHANGED <<reviews, stories, workflows, counters>>
  BY DEF ResolveApproval, ResolveRejection, ResolveClaim, LookUp, LookUpTheirs,
         MakeWorkflow, Deciding, Claiming, Starting
<1>2. /\ requests' \in Nat /\ faults' \in Nat /\ crashes' \in Nat
      /\ workflows' \in Seq(Nat) /\ Len(workflows') = Len(workflows)
      /\ \A w \in DOMAIN workflows : workflows[w] # 0 => workflows'[w] # 0
  BY <1>0, <1>1 DEF TypeOK, counters
<1>3. /\ work[e] \in Locals /\ r \in DOMAIN reviews /\ r \in Nat
      /\ reviews[r].ticket \in Nat /\ reviews[r].workflow \in Nat /\ work[e].workflow \in Nat
      /\ reviews[r].workflow <= Len(workflows) /\ Life(reviews[r])
  BY <1>1, Known
<1>4. ASSUME Raise(e) PROVE RInv'
  BY <1>1, <1>2, <1>4, LeaveStep DEF Raise
<1>5. ASSUME NEW what \in {"approve", "reject", "start"}, NEW value \in Nat,
             Answer(e, what, r, value), Holds(<<what, r, value>>)
      PROVE  RInv'
  <2>1. PICK a \in {"approve", "reject", "start"} \X Nat \X Nat : a = <<what, r, value>>
    BY <1>3
  <2>2. Holds(a)
    BY <1>5, <2>1
  <2>3. Holds(a)'
    BY <1>1, <2>2 DEF Holds
  <2>4. told' = told \cup {a} /\ Leave(e)
    BY <1>5, <2>1 DEF Answer
  <2> QED
    BY <1>1, <1>2, <2>3, <2>4, LeaveStep
<1>6. CASE ResolveApproval(e)
  BY <1>3, <1>4, <1>5, <1>6 DEF ResolveApproval, Holds
<1>7. CASE ResolveRejection(e)
  BY <1>3, <1>4, <1>5, <1>7 DEF ResolveRejection, Holds
<1>8. CASE LookUp(e) \/ LookUpTheirs(e) \/ MakeWorkflow(e)
  <2>1. pc[e] \in Starting /\ reviews[r].workflow = work[e].workflow /\ work[e].workflow # 0
    BY <1>0, <1>8 DEF LookUp, LookUpTheirs, MakeWorkflow, LocalsOK, Starting
  <2>2. work[e].workflow \in DOMAIN workflows
    BY <1>0, <1>3, <2>1 DEF TypeOK
  <2>3. CASE Answer(e, "start", r, work[e].workflow) /\ workflows[work[e].workflow] # 0
    BY <1>3, <1>5, <2>1, <2>2, <2>3 DEF Holds
  <2>4. ASSUME NEW label \in {"make", "set"}, Goto(e, label), work' = work, told' = told
        PROVE  RInv'
    <3>1. work' = [work EXCEPT ![e] = work[e]] /\ pc' = [pc EXCEPT ![e] = label]
      BY <1>0, <2>4 DEF TypeOK, Goto
    <3>2. pc'[e] = label /\ work'[e] = work[e] => LocalsOK(e)'
      BY <1>1, <1>3, <2>1 DEF LocalsOK, Deciding, Claiming, Starting
    <3> QED
      BY <1>1, <1>2, <1>3, <2>4, <3>1, <3>2, GoOnStep DEF Labels
  <2> QED
    BY <1>4, <1>8, <2>3, <2>4 DEF LookUp, LookUpTheirs, MakeWorkflow
<1>9. CASE ResolveClaim(e)
  <2> DEFINE w == [work[e] EXCEPT !.workflow = reviews[r].workflow]
  <2>1. w \in Locals /\ w.review = r /\ w.workflow = reviews[r].workflow
    BY <1>3 DEF Locals
  <2>2. CASE Raise(e)
    BY <1>4, <2>2
  <2>3. CASE reviews[r].workflow # 0 /\ Goto(e, "lookup_theirs") /\ told' = told
             /\ work' = [work EXCEPT ![e] = w]
    <3>1. pc' = [pc EXCEPT ![e] = "lookup_theirs"]
      BY <2>3 DEF Goto
    <3> HIDE DEF w
    <3>2. pc'[e] = "lookup_theirs" /\ work'[e] = w => LocalsOK(e)'
      BY <1>1, <1>3, <2>1, <2>3 DEF LocalsOK, Deciding, Claiming, Starting
    <3> QED
      BY <1>1, <1>2, <2>1, <2>3, <3>1, <3>2, GoOnStep DEF Labels
  <2> QED
    BY <1>9, <2>2, <2>3 DEF ResolveClaim
<1> QED
  BY <1>6, <1>7, <1>8, <1>9

(***************************************************************************)
(* The writes.                                                             *)
(***************************************************************************)
LEMMA WriteReview ==
  ASSUME RInv, NEW e \in Executors, NEW r \in DOMAIN reviews, NEW doc \in Reviews,
         NEW w \in Locals, NEW label \in Labels,
         reviews' = [reviews EXCEPT ![r] = doc],
         doc.version > reviews[r].version, Decides(reviews[r], doc), Life(doc),
         stories' = stories,
         IF doc.status = "APPROVED"
           THEN doc.ticket \in DOMAIN stories /\ stories[doc.ticket] = r
           ELSE doc.ticket = 0 /\ doc.workflow = 0,
         \/ workflows' = workflows /\ doc.workflow = reviews[r].workflow
         \/ /\ workflows' = Append(workflows, 0)
            /\ reviews[r].workflow = 0 /\ doc.workflow = Len(workflows) + 1,
         pc' = [pc EXCEPT ![e] = label], work' = [work EXCEPT ![e] = w],
         requests' \in Nat, faults' \in Nat, crashes' \in Nat,
         told' \subseteq {"approve", "reject", "start"} \X Nat \X Nat,
         pc'[e] = label /\ work'[e] = w => LocalsOK(e)',
         \A a \in told' : a \in told \/ Holds(a)'
  PROVE  RInv' /\ Grows
<1>0. TypeOK /\ reviews \in Seq(Reviews) /\ workflows \in Seq(Nat) /\ Len(workflows) \in Nat
  BY DEF RInv, TypeOK
<1>1. /\ reviews' \in Seq(Reviews) /\ DOMAIN reviews' = DOMAIN reviews
      /\ reviews'[r] = doc /\ \A q \in DOMAIN reviews \ {r} : reviews'[q] = reviews[q]
  BY <1>0
<1>2. workflows' \in Seq(Nat) /\ Len(workflows') \in Nat /\ Len(workflows) <= Len(workflows')
      /\ \A v \in DOMAIN workflows : v \in DOMAIN workflows' /\ workflows'[v] = workflows[v]
  <2>1. CASE workflows' = workflows
    BY <1>0, <2>1
  <2>2. CASE workflows' = Append(workflows, 0)
    BY <1>0, <2>2
  <2> QED
    BY <2>1, <2>2
<1>3. pc' \in [Executors -> Labels] /\ work' \in [Executors -> Locals]
  BY <1>0 DEF TypeOK, Locals
<1>4. TypeOK'
  BY <1>0, <1>1, <1>2, <1>3 DEF TypeOK, Locals
<1>5. \A f \in Executors : (pc'[f] = pc[f] /\ work'[f] = work[f]) \/ LocalsOK(f)'
  <2>1. /\ pc'[e] = label /\ work'[e] = w
        /\ \A f \in Executors \ {e} : pc'[f] = pc[f] /\ work'[f] = work[f]
    BY <1>0 DEF TypeOK
  <2> QED
    BY <2>1
<1>6. Grows
  <2>1. \A q \in DOMAIN reviews :
          /\ q \in DOMAIN reviews'
          /\ \/ reviews'[q] = reviews[q]
             \/ (reviews'[q].version > reviews[q].version /\ Decides(reviews[q], reviews'[q]))
    BY <1>1
  <2> QED
    BY <2>1, <1>2 DEF Grows
<1>7. TicketsReal'
  BY <1>1 DEF RInv, TicketsReal
<1>8. \A q \in DOMAIN reviews : /\ reviews[q].workflow \in Nat
                               /\ reviews[q].workflow <= Len(workflows)
  BY <1>0, Types DEF RInv
<1>9. \A q \in DOMAIN reviews' : Life(reviews'[q]) /\ reviews'[q].workflow <= Len(workflows')
  <2>1. doc.workflow \in Nat
    BY DEF Reviews
  <2>2. doc.workflow <= Len(workflows')
    BY <1>0, <1>2, <1>8
  <2>3. ASSUME NEW q \in DOMAIN reviews' \ {r}
        PROVE  Life(reviews'[q]) /\ reviews'[q].workflow <= Len(workflows')
    <3>1. q \in DOMAIN reviews /\ reviews'[q] = reviews[q]
      BY <1>1
    <3>2. Life(reviews'[q])
      BY <3>1 DEF RInv
    <3>3. reviews'[q].workflow <= Len(workflows')
      BY <1>0, <1>2, <1>8, <3>1
    <3> QED BY <3>2, <3>3
  <2> QED
    BY <1>1, <2>2, <2>3
<1>10. WorkflowsOwned'
  <2>1. ASSUME NEW p \in DOMAIN reviews', NEW q \in DOMAIN reviews',
               reviews'[p].workflow = reviews'[q].workflow, reviews'[q].workflow # 0
        PROVE  p = q
    <3>1. p \in DOMAIN reviews /\ q \in DOMAIN reviews
      BY <1>1
    <3>2. \A x, y \in DOMAIN reviews : reviews[x].workflow = reviews[y].workflow
                                         /\ reviews[y].workflow # 0 => x = y
      BY DEF RInv, WorkflowsOwned
    <3>3. CASE doc.workflow = reviews[r].workflow
      <4>1. reviews'[p].workflow = reviews[p].workflow /\ reviews'[q].workflow = reviews[q].workflow
        BY <1>1, <3>1, <3>3
      <4> QED
        BY <2>1, <3>1, <3>2, <4>1
    <3>4. CASE doc.workflow = Len(workflows) + 1
      <4>1. \A x \in DOMAIN reviews : reviews[x].workflow # doc.workflow
        BY <1>0, <1>8, <3>4
      <4> QED
        BY <1>1, <2>1, <3>1, <3>2, <4>1
    <3> QED
      BY <3>3, <3>4
  <2>2. ASSUME NEW v \in DOMAIN workflows' PROVE \E q \in DOMAIN reviews' : reviews'[q].workflow = v
    <3>1. CASE v \in DOMAIN workflows
      <4>1. PICK q \in DOMAIN reviews : reviews[q].workflow = v
        BY <3>1 DEF RInv, WorkflowsOwned
      <4>2. v # 0
        BY <1>0, <3>1
      <4>3. q \in DOMAIN reviews' /\ reviews'[q].workflow = v
        BY <1>1, <4>1, <4>2
      <4> QED BY <4>3
    <3>2. CASE v \notin DOMAIN workflows
      <4>1. v = doc.workflow
        BY <1>0, <2>2, <3>2
      <4> QED BY <1>1, <4>1
    <3> QED BY <3>1, <3>2
  <2> QED
    BY <2>1, <2>2 DEF WorkflowsOwned
<1> QED
  BY <1>4, <1>5, <1>6, <1>7, <1>9, <1>10, WriteStep

LEMMA UpdateInv ==
  ASSUME RInv, NEW e \in Executors, WriteApproval(e) \/ WriteRejection(e) \/ Claim(e)
  PROVE  RInv' /\ Grows
<1> DEFINE r == work[e].review
           copy == work[e].copy
<1>0. TypeOK /\ LocalsOK(e) /\ pc[e] \in Deciding \cup Claiming \cup Starting
  BY DEF RInv, WriteApproval, WriteRejection, Claim, Deciding, Claiming
<1>1. /\ work[e] \in Locals /\ r \in DOMAIN reviews /\ r \in Nat
      /\ work[e].story \in Nat /\ reviews[r] \in Reviews /\ Life(reviews[r])
  BY <1>0, Known
<1>2. copy = reviews[r] /\ stories' = stories
      /\ UNCHANGED <<requests, faults, crashes>>
  BY <1>0 DEF WriteApproval, WriteRejection, Claim, UpdateIfVersion, Fresh, LocalsOK,
              Deciding, Claiming, counters
<1>3. requests' \in Nat /\ faults' \in Nat /\ crashes' \in Nat
  BY <1>0, <1>2 DEF TypeOK
<1>4. NoWork \in Locals /\ "idle" \in Labels
  <2>1. 0 \in 0..(MaxAttempts - 1)
    BY AttemptAssumption
  <2>2. NoReview \in Reviews
    BY DEF NoReview, Reviews
  <2> QED
    BY <2>1, <2>2 DEF NoWork, Locals, Labels
<1>5. pc'[e] = "idle" /\ work'[e] = NoWork => LocalsOK(e)'
  BY DEF LocalsOK, Deciding, Claiming, Starting
<1>6. DOMAIN reviews' = DOMAIN reviews
  BY <1>0 DEF WriteApproval, WriteRejection, Claim, UpdateIfVersion
<1>7. told \subseteq {"approve", "reject", "start"} \X Nat \X Nat
  BY <1>0 DEF TypeOK
<1>8. CASE WriteApproval(e)
  <2> DEFINE doc == [copy EXCEPT !.status = "APPROVED", !.ticket = work[e].story,
                                !.version = copy.version + 1]
  <2>1. /\ reviews[r].version = 1 /\ reviews[r].status = "PENDING" /\ reviews[r].workflow = 0
        /\ work[e].story \in DOMAIN stories /\ stories[work[e].story] = r
    BY <1>0, <1>1, <1>2, <1>8 DEF WriteApproval, LocalsOK, Deciding, Life
  <2>2. doc \in Reviews /\ doc.version = 2 /\ doc.status = "APPROVED"
        /\ doc.ticket = work[e].story /\ doc.workflow = 0
    <3>1. copy \in Reviews /\ copy.version + 1 = 2 /\ copy.workflow = 0 /\ 2 \in Nat
      BY <1>1, <1>2, <2>1
    <3> QED
      BY <1>1, <3>1 DEF Reviews
  <2>3. reviews' = [reviews EXCEPT ![r] = doc] /\ workflows' = workflows
        /\ Leave(e) /\ told' = told \cup {<<"approve", r, work[e].story>>}
    BY <1>8 DEF WriteApproval, UpdateIfVersion, Answer
  <2> HIDE DEF doc
  <2>4. Decides(reviews[r], doc) /\ Life(doc) /\ doc.version > reviews[r].version
    BY <2>1, <2>2 DEF Decides, Life
  <2>5. PICK a \in {"approve", "reject", "start"} \X Nat \X Nat : a = <<"approve", r, work[e].story>>
    BY <1>1
  <2>6. a[1] = "approve" /\ a[2] = r /\ a[3] = work[e].story
    BY <2>5
  <2>7. reviews'[r] = doc
    BY <1>0, <1>1, <2>3 DEF TypeOK
  <2>8. Holds(a)'
    BY <1>1, <1>6, <2>2, <2>6, <2>7 DEF Holds
  <2>9. told' = told \cup {a}
    BY <2>3, <2>5
  <2>10. told' \subseteq {"approve", "reject", "start"} \X Nat \X Nat
    BY <1>7, <2>9
  <2> QED
    BY <1>1, <1>2, <1>3, <1>4, <1>5, <2>1, <2>2, <2>3, <2>4, <2>8, <2>9, <2>10,
       WriteReview DEF Leave, Goto
<1>9. CASE WriteRejection(e)
  <2> DEFINE doc == [copy EXCEPT !.status = "REJECTED", !.version = copy.version + 1]
  <2>1. /\ reviews[r].version = 1 /\ reviews[r].status = "PENDING" /\ reviews[r].workflow = 0
        /\ reviews[r].ticket = 0
    BY <1>0, <1>1, <1>2, <1>9 DEF WriteRejection, LocalsOK, Deciding, Life, RInv, TicketsReal
  <2>2. doc \in Reviews /\ doc.version = 2 /\ doc.status = "REJECTED"
        /\ doc.ticket = 0 /\ doc.workflow = 0
    <3>1. copy \in Reviews /\ copy.version + 1 = 2 /\ copy.workflow = 0 /\ copy.ticket = 0 /\ 2 \in Nat
      BY <1>1, <1>2, <2>1
    <3> QED
      BY <3>1 DEF Reviews
  <2>3. reviews' = [reviews EXCEPT ![r] = doc] /\ workflows' = workflows
        /\ Leave(e) /\ told' = told \cup {<<"reject", r, 0>>}
    BY <1>9 DEF WriteRejection, UpdateIfVersion, Answer
  <2> HIDE DEF doc
  <2>4. Decides(reviews[r], doc) /\ Life(doc) /\ doc.version > reviews[r].version
    BY <2>1, <2>2 DEF Decides, Life
  <2>5. PICK a \in {"approve", "reject", "start"} \X Nat \X Nat : a = <<"reject", r, 0>>
    BY <1>1
  <2>6. a[1] = "reject" /\ a[2] = r
    BY <2>5
  <2>7. reviews'[r] = doc
    BY <1>0, <1>1, <2>3 DEF TypeOK
  <2>8. Holds(a)'
    BY <1>1, <1>6, <2>2, <2>6, <2>7 DEF Holds
  <2>9. told' = told \cup {a}
    BY <2>3, <2>5
  <2>10. told' \subseteq {"approve", "reject", "start"} \X Nat \X Nat
    BY <1>7, <2>9
  <2> QED
    BY <1>1, <1>2, <1>3, <1>4, <1>5, <2>1, <2>2, <2>3, <2>4, <2>8, <2>9, <2>10,
       WriteReview DEF Leave, Goto
<1>10. CASE Claim(e)
  <2> DEFINE doc == [copy EXCEPT !.workflow = Len(workflows) + 1, !.version = copy.version + 1]
             w == [work[e] EXCEPT !.workflow = Len(workflows) + 1]
  <2>0. workflows \in Seq(Nat) /\ Len(workflows) \in Nat
    BY <1>0 DEF TypeOK
  <2>1. /\ reviews[r].version = 2 /\ reviews[r].status = "APPROVED" /\ reviews[r].workflow = 0
        /\ reviews[r].ticket \in DOMAIN stories /\ stories[reviews[r].ticket] = r
    BY <1>0, <1>1, <1>2, <1>10 DEF Claim, LocalsOK, Claiming, Life, RInv, TicketsReal
  <2>2. doc \in Reviews /\ doc.version = 3 /\ doc.status = "APPROVED"
        /\ doc.ticket = reviews[r].ticket /\ doc.workflow = Len(workflows) + 1
    <3>1. /\ copy \in Reviews /\ copy.version + 1 = 3 /\ copy.status = "APPROVED" /\ 3 \in Nat
          /\ copy.ticket = reviews[r].ticket /\ Len(workflows) + 1 \in Nat
      BY <1>1, <1>2, <2>0, <2>1
    <3> QED
      BY <3>1 DEF Reviews
  <2>3. /\ reviews' = [reviews EXCEPT ![r] = doc] /\ workflows' = Append(workflows, 0)
        /\ pc' = [pc EXCEPT ![e] = "make"] /\ work' = [work EXCEPT ![e] = w] /\ told' = told
    BY <1>10 DEF Claim, UpdateIfVersion, Goto
  <2>4. w \in Locals /\ w.review = r /\ w.workflow = Len(workflows) + 1
    BY <1>1, <2>0 DEF Locals
  <2> HIDE DEF doc, w
  <2>5. Decides(reviews[r], doc) /\ Life(doc) /\ doc.version > reviews[r].version
    BY <2>0, <2>1, <2>2 DEF Decides, Life
  <2>6. reviews'[r] = doc
    BY <1>0, <1>1, <2>3 DEF TypeOK
  <2>7. pc'[e] = "make" /\ work'[e] = w => LocalsOK(e)'
    BY <1>1, <1>6, <2>0, <2>2, <2>4, <2>6 DEF LocalsOK, Deciding, Claiming, Starting
  <2>8. told' \subseteq {"approve", "reject", "start"} \X Nat \X Nat
    BY <1>7, <2>3
  <2> QED
    BY <1>1, <1>2, <1>3, <2>1, <2>2, <2>3, <2>4, <2>5, <2>7, <2>8, WriteReview DEF Labels
<1> QED
  BY <1>8, <1>9, <1>10

LEMMA CreateInv ==
  ASSUME RInv, NEW e \in Executors, CreateReview(e)
  PROVE  RInv' /\ Grows
<1> DEFINE doc == [work[e].copy EXCEPT !.version = 1]
<1>0. /\ TypeOK /\ LocalsOK(e) /\ pc[e] = "create" /\ Leave(e)
      /\ reviews \in Seq(Reviews) /\ Len(reviews) \in Nat
  BY DEF RInv, TypeOK, CreateReview, Raise
<1>1. /\ work[e].copy \in Reviews
      /\ work[e].copy = [NoReview EXCEPT !.detection = work[e].copy.detection]
  BY <1>0, Types DEF LocalsOK
<1>2. /\ doc \in Reviews /\ doc.version = 1 /\ doc.status = "PENDING"
      /\ doc.ticket = 0 /\ doc.workflow = 0
  BY <1>1 DEF NoReview, Reviews
<1>3. /\ reviews' = Append(reviews, doc) /\ told' = told
      /\ UNCHANGED <<stories, workflows, requests, faults, crashes>>
  BY DEF CreateReview, Raise, counters
<1> HIDE DEF doc
<1>4. /\ reviews' \in Seq(Reviews) /\ DOMAIN reviews' = DOMAIN reviews \cup {Len(reviews) + 1}
      /\ reviews'[Len(reviews) + 1] = doc
      /\ \A q \in DOMAIN reviews : reviews'[q] = reviews[q]
  BY <1>0, <1>2, <1>3
<1>5. /\ pc' \in [Executors -> Labels] /\ work' \in [Executors -> Locals] /\ LocalsOK(e)'
      /\ \A f \in Executors \ {e} : pc'[f] = pc[f] /\ work'[f] = work[f]
  BY <1>0, Idle DEF Locals
<1>6. TypeOK'
  BY <1>0, <1>3, <1>4, <1>5 DEF TypeOK, Locals
<1>7. Grows
  BY <1>3, <1>4 DEF Grows
<1>8. TicketsReal'
  BY <1>2, <1>3, <1>4 DEF RInv, TicketsReal
<1>9. WorkflowsOwned'
  <2>1. ASSUME NEW v \in DOMAIN workflows' PROVE \E q \in DOMAIN reviews' : reviews'[q].workflow = v
    BY <1>3, <1>4, <2>1 DEF RInv, WorkflowsOwned
  <2>2. ASSUME NEW p \in DOMAIN reviews', NEW q \in DOMAIN reviews',
               reviews'[p].workflow = reviews'[q].workflow, reviews'[q].workflow # 0
        PROVE  p = q
    <3>1. p \in DOMAIN reviews /\ q \in DOMAIN reviews
      BY <1>2, <1>4, <2>2
    <3> QED
      BY <1>4, <2>2, <3>1 DEF RInv, WorkflowsOwned
  <2> QED
    BY <2>1, <2>2 DEF WorkflowsOwned
<1>10. \A q \in DOMAIN reviews' : Life(reviews'[q]) /\ reviews'[q].workflow <= Len(workflows')
  <2>1. Life(doc)
    BY <1>2 DEF Life
  <2>2. doc.workflow <= Len(workflows')
    BY <1>0, <1>2, <1>3 DEF TypeOK
  <2> QED
    BY <1>3, <1>4, <2>1, <2>2 DEF RInv
<1> QED
  BY <1>3, <1>5, <1>6, <1>7, <1>8, <1>9, <1>10, WriteStep

LEMMA SetInv ==
  ASSUME RInv, NEW e \in Executors, SetWorkflow(e)
  PROVE  RInv'
<1> DEFINE r == work[e].review
           v == work[e].workflow
<1>0. TypeOK /\ LocalsOK(e) /\ pc[e] = "set" /\ workflows \in Seq(Nat)
  BY DEF RInv, TypeOK, SetWorkflow
<1>1. r \in DOMAIN reviews /\ r \in Nat /\ v \in Nat /\ reviews[r].workflow <= Len(workflows)
  BY <1>0, Known DEF Starting
<1>2. v # 0 /\ reviews[r].workflow = v
  BY <1>0 DEF LocalsOK, Starting
<1>3. v \in DOMAIN workflows
  BY <1>0, <1>1, <1>2
<1>4. /\ workflows' = [workflows EXCEPT ![v] = 1] /\ Leave(e)
      /\ told' = told \cup {<<"start", r, v>>}
      /\ UNCHANGED <<reviews, stories, requests, faults, crashes>>
  BY DEF SetWorkflow, Answer, counters
<1>5. /\ workflows' \in Seq(Nat) /\ Len(workflows') = Len(workflows)
      /\ DOMAIN workflows' = DOMAIN workflows /\ workflows'[v] = 1
      /\ \A x \in DOMAIN workflows : workflows[x] # 0 => workflows'[x] # 0
  BY <1>0, <1>3, <1>4
<1>6. PICK a \in {"approve", "reject", "start"} \X Nat \X Nat : a = <<"start", r, v>>
  BY <1>1
<1>7. a[1] = "start" /\ a[2] = r /\ a[3] = v
  BY <1>6
<1>8. Holds(a)'
  BY <1>1, <1>2, <1>3, <1>4, <1>5, <1>7 DEF Holds
<1>9. requests' \in Nat /\ faults' \in Nat /\ crashes' \in Nat
  BY <1>0, <1>4 DEF TypeOK
<1>10. told' = told \cup {a}
  BY <1>4, <1>6
<1> QED
  BY <1>4, <1>5, <1>8, <1>9, <1>10, LeaveStep

LEMMA OutsideInv ==
  ASSUME RInv,
         \/ \E e \in Executors : Crash(e)
         \/ \E v \in DOMAIN workflows : StepWorkflow(v)
         \/ UNCHANGED vars
  PROVE  RInv'
<1>0. TypeOK /\ workflows \in Seq(Nat)
  BY DEF RInv, TypeOK
<1>1. ASSUME NEW e \in Executors, Crash(e) PROVE RInv'
  <2>1. /\ Leave(e) /\ told' = told
        /\ UNCHANGED <<reviews, stories, workflows, requests, faults>>
        /\ crashes' \in Nat /\ requests' \in Nat /\ faults' \in Nat
    BY <1>0, <1>1 DEF Crash, Raise, TypeOK
  <2> QED
    BY <1>0, <2>1, LeaveStep
<1>2. ASSUME NEW v \in DOMAIN workflows, StepWorkflow(v) PROVE RInv'
  <2>1. /\ workflows' = [workflows EXCEPT ![v] = workflows[v] + 1]
        /\ UNCHANGED <<reviews, stories, pc, work, told, requests, faults, crashes>>
    BY <1>2 DEF StepWorkflow, counters
  <2>2. workflows[v] \in Nat
    BY <1>0, <1>2
  <2>3. workflows[v] + 1 \in Nat /\ workflows[v] + 1 # 0
    BY <2>2
  <2>4. /\ workflows' \in Seq(Nat) /\ Len(workflows') = Len(workflows)
        /\ \A x \in DOMAIN workflows : workflows[x] # 0 => workflows'[x] # 0
    BY <1>0, <2>1, <2>3
  <2>5. TypeOK'
    BY <1>0, <2>1, <2>4 DEF TypeOK
  <2> QED
    BY <2>1, <2>4, <2>5, QuietStep
<1>3. ASSUME UNCHANGED vars PROVE RInv'
  <2>1. UNCHANGED <<reviews, stories, workflows, pc, work, told, requests, faults, crashes>>
    BY <1>3 DEF vars
  <2>2. TypeOK'
    BY <1>0, <2>1 DEF TypeOK
  <2> QED
    BY <1>0, <2>1, <2>2, QuietStep
<1> QED
  BY <1>1, <1>2, <1>3

(***************************************************************************)
(* The theorems.                                                           *)
(***************************************************************************)
LEMMA InitInv ==
  ASSUME Init
  PROVE  RInv
<1>1. NoReview \in Reviews
  BY DEF NoReview, Reviews
<1>2. 0 \in 0..(MaxAttempts - 1)
  BY AttemptAssumption
<1>3. NoWork \in [review : Nat, copy : Reviews, story : Nat,
                  attempt : 0..(MaxAttempts - 1), workflow : Nat]
  BY <1>1, <1>2 DEF NoWork
<1>4. TypeOK
  BY <1>3 DEF Init, TypeOK, Labels
<1>5. \A e \in Executors : LocalsOK(e)
  BY DEF Init, LocalsOK, Deciding, Claiming, Starting
<1>6. DOMAIN reviews = {} /\ DOMAIN workflows = {} /\ told = {}
  BY DEF Init
<1> QED
  BY <1>4, <1>5, <1>6 DEF RInv, TicketsReal, AnswersAgree, WorkflowsOwned

\* Whatever the requests, the failures of Jira and the crashes, the inductive
\* invariant holds: each review is written at most twice after it was created,
\* by a request that read it in the state before.
THEOREM ReviewInvariant == Spec => []RInv
<1>1. ASSUME RInv, [Next]_vars PROVE RInv'
  <2>1. ASSUME NEW e \in Executors, Continue(e) PROVE RInv'
    BY <1>1, <2>1, CreateInv, JiraInv, UpdateInv, OutdatedInv, ResolveInv, SetInv DEF Continue
  <2>2. ASSUME NEW e \in Executors, Begin(e) PROVE RInv'
    BY <1>1, <2>2, BeginInv
  <2> QED
    BY <1>1, <2>1, <2>2, OutsideInv DEF Next
<1> QED
  BY InitInv, <1>1, PTL DEF Spec

\* Every variable keeps its type, and no retry goes beyond its attempts.
THEOREM TypesCorrect == Spec => []TypeOK
<1>1. RInv => TypeOK
  BY DEF RInv
<1> QED
  BY <1>1, ReviewInvariant, PTL

\* An approved review names a story that Jira made for it; approval never
\* precedes the story, whatever fails in between.
THEOREM ApprovedHasItsStory == Spec => []TicketsReal
<1>1. RInv => TicketsReal
  BY DEF RInv
<1> QED
  BY <1>1, ReviewInvariant, PTL

\* Concurrent and repeated callers are all told the same ticket and the same
\* workflow, and what they were told stays true.
THEOREM CallersAgree == Spec => []AnswersAgree
<1>1. RInv => AnswersAgree
  BY DEF RInv
<1> QED
  BY <1>1, ReviewInvariant, PTL

\* No two reviews share a workflow and no workflow id is lost by a race.
THEOREM OneOwner == Spec => []WorkflowsOwned
<1>1. RInv => WorkflowsOwned
  BY DEF RInv
<1> QED
  BY <1>1, ReviewInvariant, PTL

\* A decision is final: no step of any request, whatever it races with, changes
\* the status or the ticket of a decided review or the workflow of a started one.
THEOREM DecisionsStand == Spec => DecisionsFinal
<1> DEFINE Final == \A r \in DOMAIN reviews : Decides(reviews[r], reviews'[r])
<1>1. ASSUME RInv, [Next]_vars PROVE Final
  <2>1. Grows => Final
    BY DEF Grows, Decides
  <2>2. reviews' = reviews => Final
    BY DEF Decides
  <2>3. ASSUME NEW e \in Executors, Continue(e) PROVE Final
    <3>1. CASE CreateReview(e) \/ WriteApproval(e) \/ WriteRejection(e) \/ Claim(e)
      BY <1>1, <2>1, <3>1, CreateInv, UpdateInv
    <3>2. CASE ~(CreateReview(e) \/ WriteApproval(e) \/ WriteRejection(e) \/ Claim(e))
      BY <2>2, <2>3, <3>2 DEF Continue, CreateStory, StoryTimesOut, JiraDown, JiraRefuses,
         JiraFault, Outdated, ResolveApproval, ResolveRejection, LookUp, ResolveClaim,
         LookUpTheirs, MakeWorkflow, SetWorkflow
    <3> QED
      BY <3>1, <3>2
  <2>4. ASSUME NEW e \in Executors, Begin(e) PROVE Final
    BY <2>2, <2>4 DEF Begin, FindReview, Approve, ApproveAgain, Reject, RejectAgain,
       StartClaimed, StartUnclaimed
  <2>5. CASE \/ \E e \in Executors : Crash(e)
             \/ \E w \in DOMAIN workflows : StepWorkflow(w)
             \/ UNCHANGED vars
    BY <2>2, <2>5 DEF Crash, StepWorkflow, vars
  <2> QED
    BY <1>1, <2>3, <2>4, <2>5 DEF Next
<1>2. RInv /\ [Next]_vars => [Final]_vars
  BY <1>1
<1> HIDE DEF Final
<1>3. Spec => [][Final]_vars
  BY <1>2, ReviewInvariant, PTL DEF Spec
<1> QED
  BY <1>3 DEF DecisionsFinal, Final
=============================================================================
