------------------- MODULE RemediationVerificationProofs --------------------
(***************************************************************************)
(* Proofs about RemediationVerification, for any callers, deployments and  *)
(* signals. The three claims rest on one invariant: whoever holds a record *)
(* holds it alone, or its key is in raced (Alone), and therefore knows     *)
(* what the record says (Owned).                                           *)
(***************************************************************************)
EXTENDS RemediationVerification, TLAPS, FiniteSetTheorems

USE VerificationBounds, VerificationSettings

Deciding == {"mark", "marking", "decide", "finish"}
Publishing == {"publish", "publishing"}
Holding == {"claim"} \cup Deciding \cup Publishing

-----------------------------------------------------------------------------
(* The policy. *)

\* Evidence is stored evidence, of the type asked for, seen after the deployment
\* and of its revision (collect_post_deployment_signals).
LEMMA CollectSound ==
  ASSUME NEW t, NEW set, NEW d, NEW s \in Collect(t, set, d)
  PROVE  s \in set /\ s.type = t /\ InWindow(s, d) /\ SameRevision(s, d)
  BY DEF Collect, Newest

\* decide_outcome resolves only on enough evidence, none of it degraded, with
\* something of every type that is always reported.
LEMMA ResolvedSound ==
  ASSUME NEW evidence, IsFiniteSet(evidence),
         \A s \in evidence : s.type \in Types,
         DecideOutcome(Types, evidence) = "VERIFIED_RESOLVED"
  PROVE  /\ evidence # {} /\ Cardinality(evidence) >= MinEvidence
         /\ \A s \in evidence : ~Degraded(s)
         /\ \A t \in Types \cap AlwaysEmitted : \E s \in evidence : s.type = t
<1> DEFINE matching(t) == {s \in evidence : s.type = t}
           verdicts == {Condition(t, matching(t)) : t \in Types}
<1>1. /\ evidence # {} /\ ~(Cardinality(evidence) < MinEvidence)
      /\ "degraded" \notin verdicts /\ "no_evidence" \notin verdicts
  BY DEF DecideOutcome
<1>2. Cardinality(evidence) >= MinEvidence
  BY <1>1, FS_CardinalityType
<1>3. ASSUME NEW s \in evidence PROVE ~Degraded(s)
  <2>1. Condition(s.type, matching(s.type)) \in verdicts
    OBVIOUS
  <2>2. s \in matching(s.type)
    OBVIOUS
  <2>3. Condition(s.type, matching(s.type)) # "degraded"
    BY <1>1, <2>1
  <2>4. QED BY <2>2, <2>3 DEF Condition
<1>4. ASSUME NEW t \in Types \cap AlwaysEmitted PROVE \E s \in evidence : s.type = t
  <2>1. Condition(t, matching(t)) # "no_evidence"
    BY <1>1
  <2>2. t \notin PresenceOnly
    BY DEF AlwaysEmitted, PresenceOnly
  <2>3. matching(t) # {}
    BY <2>1, <2>2 DEF Condition
  <2>4. QED BY <2>3
<1>5. QED BY <1>1, <1>2, <1>3, <1>4

LEMMA OutcomeType ==
  ASSUME NEW evidence PROVE DecideOutcome(Types, evidence) \in Outcomes
  BY DEF DecideOutcome, Outcomes

-----------------------------------------------------------------------------
(* Types. *)

\* What is completed has an outcome; a caller that decided holds what it decided.
HasOutcome(r) == r.status = "COMPLETED" => r.outcome \in Outcomes
TypeInv ==
  /\ TypeOK
  /\ \A k \in Keys : HasOutcome(records[k])
  /\ \A c \in Callers :
       /\ HasOutcome(finding[c])
       /\ pc[c] \in {"finish"} \cup Publishing => finding[c].status = "COMPLETED"

LEMMA TypeInit == Init => TypeInv
<1> SUFFICES ASSUME Init PROVE TypeInv OBVIOUS
<1>1. pending \in BOOLEAN
  BY Zenon DEF Init
<1>2. QED BY <1>1 DEF Init, TypeInv, HasOutcome, TypeOK, Absent, RecordSet, Publishing, WorkflowSet, Labels

LEMMA EvidenceIsStored ==
  ASSUME NEW set, NEW d
  PROVE  UNION {Collect(t, set, d) : t \in Types} \subseteq set
  BY CollectSound

\* The records the steps write.
LEMMA RecordTypes ==
  /\ Absent \in RecordSet /\ HasOutcome(Absent)
  /\ Claimed \in RecordSet /\ HasOutcome(Claimed)
  /\ \A outcome \in Outcomes, evidence \in SUBSET Signals :
       /\ Decided(outcome, evidence) \in RecordSet
       /\ HasOutcome(Decided(outcome, evidence))
       /\ Decided(outcome, evidence).status = "COMPLETED"
  BY DEF Absent, Claimed, Decided, RecordSet, HasOutcome

LEMMA WrittenType ==
  ASSUME TypeInv, NEW marker, NEW latest \in Keys \cup {0},
         marker \in Outcomes \cup {"none", "deployed_pending_verification", "verification_in_progress"}
  PROVE  Written(marker, latest) \in WorkflowSet
  BY DEF Written, WorkflowSet, TypeInv, TypeOK

LEMMA WorkflowFields ==
  ASSUME TypeInv
  PROVE  /\ workflow.latest \in Keys \cup {0}
         /\ workflow.marker \in Outcomes \cup
              {"none", "deployed_pending_verification", "verification_in_progress"}
  BY DEF WorkflowSet, TypeInv, TypeOK

\* What belongs to the callers alone.
Locals ==
  /\ pc \in [Callers -> Labels] /\ target \in [Callers -> Keys]
  /\ held \in [Callers -> Nat] /\ finding \in [Callers -> RecordSet]
  /\ \A c \in Callers :
       /\ HasOutcome(finding[c])
       /\ pc[c] \in {"finish"} \cup Publishing => finding[c].status = "COMPLETED"

LEMMA ReturnLocals ==
  ASSUME TypeInv, NEW c \in Callers, Return(c) PROVE Locals'
<1> USE RecordTypes DEF TypeInv, TypeOK, Return, Goto
<1>1. /\ pc' \in [Callers -> Labels] /\ target' \in [Callers -> Keys]
      /\ held' \in [Callers -> Nat] /\ finding' \in [Callers -> RecordSet]
  BY DEF Labels
<1>2. ASSUME NEW d \in Callers
      PROVE  /\ HasOutcome(finding'[d])
             /\ pc'[d] \in {"finish"} \cup Publishing => finding'[d].status = "COMPLETED"
  <2>1. CASE d = c
    <3>1. finding'[d] = Absent /\ pc'[d] = "idle" BY <2>1
    <3>2. QED BY <3>1 DEF Publishing
  <2>2. CASE d # c
    <3>1. finding'[d] = finding[d] /\ pc'[d] = pc[d] BY <2>2
    <3>2. QED BY <3>1
  <2>3. QED BY <2>1, <2>2
<1>3. QED BY <1>1, <1>2 DEF Locals, HasOutcome

LEMMA GotoLocals ==
  ASSUME TypeInv, NEW c \in Callers, NEW label \in Labels, Goto(c, label),
         target' \in [Callers -> Keys], held' \in [Callers -> Nat], UNCHANGED finding,
         label \in {"finish"} \cup Publishing => finding[c].status = "COMPLETED"
  PROVE  Locals'
<1> USE DEF TypeInv, TypeOK, Goto
<1>1. pc' \in [Callers -> Labels]
  OBVIOUS
<1>2. ASSUME NEW d \in Callers, pc'[d] \in {"finish"} \cup Publishing
      PROVE  finding'[d].status = "COMPLETED"
  <2>1. CASE d = c BY <2>1, <1>2
  <2>2. CASE d # c BY <2>2, <1>2
  <2>3. QED BY <2>1, <2>2
<1>3. QED BY <1>1, <1>2 DEF Locals, HasOutcome

LEMMA TypeStep == TypeInv /\ [Next]_vars => TypeInv'
<1> SUFFICES ASSUME TypeInv, [Next]_vars PROVE TypeInv' OBVIOUS
<1> DEFINE Rest == /\ stored \subseteq Signals /\ deployed \in Keys /\ pending \in BOOLEAN
                   /\ workflow \in WorkflowSet
                   /\ records \in [Keys -> RecordSet] /\ \A k \in Keys : HasOutcome(records[k])
                   /\ answers \subseteq Keys \X Outcomes
                   /\ raced \subseteq Keys /\ calls \in 0..MaxCalls /\ faults \in 0..MaxFaults
<1>r. Rest /\ Locals
  BY DEF TypeInv, TypeOK, Locals
<1>q. ASSUME Rest', Locals' PROVE TypeInv'
  BY <1>q DEF TypeInv, TypeOK, Locals
<1>1. CASE UNCHANGED vars
  BY <1>1 DEF TypeInv, TypeOK, documents, callers, vars, HasOutcome
<1>2. ASSUME NEW s \in Signals, Store(s) PROVE TypeInv'
  BY <1>2 DEF Store, TypeInv, TypeOK, documents, callers, HasOutcome
<1>3. CASE Deploy \/ Complete
  <2>1. pending' \in BOOLEAN
    BY <1>3, Zenon DEF Deploy, Complete
  <2>2. deployed' \in Keys
    BY <1>3, <1>r DEF Deploy, Complete
  <2>3. workflow' \in WorkflowSet
    BY <1>3, WrittenType, WorkflowFields DEF Deploy, Complete
  <2>4. QED
    BY <1>3, <2>1, <2>2, <2>3 DEF Deploy, Complete, TypeInv, TypeOK, callers, HasOutcome
<1>4. ASSUME NEW c \in Callers, Ask(c) \/ Fail(c) PROVE TypeInv'
  <2>1. CASE Ask(c)
    <3>1. Locals'
      BY <2>1, <1>r, GotoLocals DEF Ask, Labels, Locals, Publishing
    <3>2. Rest'
      BY <2>1, <1>r DEF Ask, documents, HasOutcome
    <3>3. QED BY <3>1, <3>2, <1>q
  <2>2. CASE Fail(c)
    <3>1. Locals'
      BY <2>2, ReturnLocals DEF Fail
    <3>2. Rest'
      BY <2>2, <1>r DEF Fail, documents, HasOutcome
    <3>3. QED BY <3>1, <3>2, <1>q
  <2>3. QED BY <1>4, <2>1, <2>2
<1>5. ASSUME NEW c \in Callers, Answer(c), UNCHANGED <<stored, deployed, documents, raced, calls, faults>>
      PROVE  TypeInv'
  <2>1. Locals'
    BY <1>5, ReturnLocals DEF Answer
  <2>2. answers' \subseteq Keys \X Outcomes
    BY <1>5, <1>r DEF Answer, Locals, HasOutcome
  <2>3. Rest'
    BY <1>5, <1>r, <2>2 DEF documents, HasOutcome
  <2>4. QED BY <2>1, <2>3, <1>q
<1>6. ASSUME NEW c \in Callers, Lookup(c) \/ Peek(c) PROVE TypeInv'
  <2>1. CASE Answer(c) /\ UNCHANGED <<stored, deployed, documents, raced, calls, faults>>
    BY <2>1, <1>5
  <2>2. CASE /\ \E label \in {"peek", "claim"} : Goto(c, label)
             /\ raced' \in {raced, raced \cup {target[c]}}
             /\ UNCHANGED <<stored, deployed, documents, target, held, finding, answers, calls, faults>>
    <3>1. Locals'
      BY <2>2, <1>r, GotoLocals DEF Labels, Locals, Publishing
    <3>2. Rest'
      BY <2>2, <1>r DEF Locals, documents, HasOutcome
    <3>3. QED BY <3>1, <3>2, <1>q
  <2>3. CASE Lookup(c)
    BY <2>1, <2>2, <2>3 DEF Lookup
  <2>4. CASE Peek(c)
    BY <2>1, <2>2, <2>4 DEF Peek
  <2>5. QED BY <1>6, <2>3, <2>4
<1>7. ASSUME NEW c \in Callers, Claim(c) PROVE TypeInv'
  <2>1. Locals'
    BY <1>7, <1>r, GotoLocals DEF Claim, Labels, Locals, Publishing
  <2>2. records' \in [Keys -> RecordSet] /\ \A k \in Keys : HasOutcome(records'[k])
    BY <1>7, <1>r, RecordTypes DEF Claim, HasOutcome
  <2>3. Rest'
    BY <1>7, <1>r, <2>2 DEF Claim, HasOutcome
  <2>4. QED BY <2>1, <2>3, <1>q
<1>8. ASSUME NEW c \in Callers, ReadWorkflow(c) PROVE TypeInv'
  <2>1. held' \in [Callers -> Nat]
    BY <1>8, <1>r DEF ReadWorkflow, Locals, WorkflowSet
  <2>2. Locals'
    BY <1>8, <1>r, <2>1, GotoLocals DEF ReadWorkflow, Labels, Locals, Publishing
  <2>3. Rest'
    BY <1>8, <1>r DEF ReadWorkflow, documents, HasOutcome
  <2>4. QED BY <2>2, <2>3, <1>q
<1>9. ASSUME NEW c \in Callers, Mark(c) PROVE TypeInv'
  <2>1. workflow' \in WorkflowSet
    BY <1>9, <1>r, WrittenType, WorkflowFields DEF Mark
  <2>2. Locals'
    BY <1>9, <1>r, GotoLocals DEF Mark, Labels, Locals, Publishing
  <2>3. Rest'
    BY <1>9, <1>r, <2>1 DEF Mark, HasOutcome
  <2>4. QED BY <2>2, <2>3, <1>q
<1>10. ASSUME NEW c \in Callers, Decide(c) PROVE TypeInv'
  <2>1. PICK r \in RecordSet : /\ finding' = [finding EXCEPT ![c] = r]
                               /\ HasOutcome(r) /\ r.status = "COMPLETED"
    <3> DEFINE e == UNION {Collect(t, stored, Deployments[target[c]]) : t \in Types}
    <3>1. e \in SUBSET Signals
      BY <1>r, EvidenceIsStored
    <3>2. DecideOutcome(Types, e) \in Outcomes /\ "ESCALATED" \in Outcomes
      BY OutcomeType DEF Outcomes
    <3>3. QED BY <1>10, <3>1, <3>2, RecordTypes DEF Decide
  <2>2. ASSUME NEW d \in Callers
        PROVE  /\ HasOutcome(finding'[d])
               /\ pc'[d] \in {"finish"} \cup Publishing => finding'[d].status = "COMPLETED"
    <3>1. CASE d = c
      BY <3>1, <2>1, <1>r DEF Locals, HasOutcome
    <3>2. CASE d # c
      BY <3>2, <2>1, <1>10, <1>r DEF Decide, Goto, Locals, HasOutcome
    <3>3. QED BY <3>1, <3>2
  <2>3. /\ pc' \in [Callers -> Labels] /\ finding' \in [Callers -> RecordSet]
        /\ target' \in [Callers -> Keys] /\ held' \in [Callers -> Nat]
    BY <2>1, <1>10, <1>r DEF Decide, Goto, Locals, Labels
  <2>4. Locals'
    BY <2>2, <2>3 DEF Locals, HasOutcome
  <2>5. Rest'
    BY <1>10, <1>r DEF Decide, documents, HasOutcome
  <2>6. QED BY <2>4, <2>5, <1>q
<1>11. ASSUME NEW c \in Callers, Finish(c) PROVE TypeInv'
  <2>1. CASE Return(c) /\ UNCHANGED <<records, answers>>
    <3>1. Locals'
      BY <2>1, ReturnLocals
    <3>2. Rest'
      BY <1>11, <2>1, <1>r DEF Finish, HasOutcome
    <3>3. QED BY <3>1, <3>2, <1>q
  <2>2. CASE /\ records' = [records EXCEPT ![target[c]] = finding[c]]
             /\ answers' = answers \cup {<<target[c], finding[c].outcome>>}
             /\ Goto(c, "publish") /\ UNCHANGED <<target, held, finding>>
    <3>1. finding[c].status = "COMPLETED" /\ finding[c].outcome \in Outcomes
          /\ finding[c] \in RecordSet /\ target[c] \in Keys
      BY <1>11, <1>r DEF Finish, Locals, HasOutcome
    <3>2. Locals'
      BY <2>2, <3>1, <1>r, GotoLocals DEF Labels, Locals
    <3>3. records' \in [Keys -> RecordSet] /\ \A k \in Keys : HasOutcome(records'[k])
      BY <2>2, <3>1, <1>r DEF HasOutcome
    <3>4. answers' \subseteq Keys \X Outcomes
      BY <2>2, <3>1, <1>r
    <3>5. Rest'
      BY <1>11, <3>3, <3>4, <1>r DEF Finish
    <3>6. QED BY <3>2, <3>5, <1>q
  <2>3. QED BY <1>11, <2>1, <2>2 DEF Finish
<1>12. ASSUME NEW c \in Callers, Publish(c) PROVE TypeInv'
  <2>1. finding[c].outcome \in Outcomes /\ target[c] \in Keys
    BY <1>12, <1>r DEF Publish, Locals, HasOutcome, Publishing
  <2>2. workflow' \in WorkflowSet
    BY <1>12, <2>1, <1>r, WrittenType DEF Publish
  <2>3. Locals'
    BY <1>12, ReturnLocals DEF Publish
  <2>4. Rest'
    BY <1>12, <2>2, <1>r DEF Publish, HasOutcome
  <2>5. QED BY <2>3, <2>4, <1>q
<1>13. QED
  BY <1>1, <1>2, <1>3, <1>4, <1>6, <1>7, <1>8, <1>9, <1>10, <1>11, <1>12 DEF Next, Verify

\* The variables stay what the repositories, the callers and the workflow document
\* may hold.
THEOREM TypeCorrect == Spec => []TypeOK
<1>1. TypeInv => TypeOK BY DEF TypeInv
<1>2. QED BY <1>1, TypeInit, TypeStep, PTL DEF Spec

-----------------------------------------------------------------------------
(* Whose record it is. *)

\* Two callers hold one key only when both created its record.
Alone ==
  \A c, d \in Callers :
    c # d /\ pc[c] \in Holding /\ pc[d] \in Holding /\ target[c] = target[d]
      => target[c] \in raced

\* A caller that holds a record alone knows what it says.
Knows(c) ==
  target[c] \notin raced =>
    /\ pc[c] = "claim" => records[target[c]].status = "ABSENT"
    /\ pc[c] \in Deciding => records[target[c]] = Claimed
    /\ pc[c] \in Publishing => records[target[c]] = finding[c]

\* What was answered is on record, decided for good.
Answered ==
  \A a \in answers : a[1] \notin raced =>
    records[a[1]].status = "COMPLETED" /\ records[a[1]].outcome = a[2]

OwnedInv == TypeInv /\ Alone /\ (\A c \in Callers : Knows(c)) /\ Answered

\* The other callers stay where they are.
Others(c) ==
  \A d \in Callers \ {c} : pc'[d] = pc[d] /\ target'[d] = target[d] /\ finding'[d] = finding[d]

LEMMA GotoOthers ==
  ASSUME TypeInv, NEW c \in Callers, NEW label, Goto(c, label)
  PROVE  pc'[c] = label /\ \A d \in Callers \ {c} : pc'[d] = pc[d]
  BY DEF TypeInv, TypeOK, Goto

LEMMA ReturnOthers ==
  ASSUME TypeInv, NEW c \in Callers, Return(c) PROVE Others(c) /\ pc'[c] = "idle"
  BY DEF TypeInv, TypeOK, Goto, Return, Others

\* A caller that holds nothing afterwards, and writes no record, disturbs nothing.
LEMMA LetGo ==
  ASSUME OwnedInv, NEW c \in Callers, Others(c), pc'[c] \notin Holding,
         UNCHANGED <<records, raced>>,
         \A a \in answers' : a \in answers \/
           (records[a[1]].status = "COMPLETED" /\ records[a[1]].outcome = a[2])
  PROVE  Alone' /\ (\A d \in Callers : Knows(d)') /\ Answered'
<1>1. Alone'
  BY DEF OwnedInv, Alone, Others
<1>2. ASSUME NEW d \in Callers PROVE Knows(d)'
  <2>1. CASE d = c BY <2>1 DEF Knows, Holding
  <2>2. CASE d # c BY <2>2 DEF OwnedInv, Knows, Others
  <2>3. QED BY <2>1, <2>2
<1>3. Answered'
  BY DEF OwnedInv, Answered
<1>4. QED BY <1>1, <1>2, <1>3

\* A caller that goes on with the record it holds disturbs nothing either.
LEMMA HoldOn ==
  ASSUME OwnedInv, NEW c \in Callers, Others(c), UNCHANGED <<records, raced, answers, target>>,
         \/ pc[c] \in Deciding /\ pc'[c] \in Deciding
         \/ pc[c] \in Publishing /\ pc'[c] \in Publishing /\ UNCHANGED finding
  PROVE  Alone' /\ (\A d \in Callers : Knows(d)') /\ Answered'
<1> USE DEF Deciding, Publishing, Holding
<1>1. Alone'
  BY DEF OwnedInv, Alone, Others
<1>2. ASSUME NEW d \in Callers PROVE Knows(d)'
  <2>1. CASE d = c BY <2>1 DEF OwnedInv, Knows
  <2>2. CASE d # c BY <2>2 DEF OwnedInv, Knows, Others
  <2>3. QED BY <2>1, <2>2
<1>3. Answered'
  BY DEF OwnedInv, Answered
<1>4. QED BY <1>1, <1>2, <1>3

\* Whoever creates a record that someone else holds puts its key among the raced.
LEMMA CreateOwned ==
  ASSUME OwnedInv, NEW c \in Callers, Others(c), UNCHANGED <<records, answers, target>>,
         pc'[c] = "claim", records[target[c]].status = "ABSENT",
         raced' = IF \E d \in Callers : pc[d] = "claim" /\ target[d] = target[c]
                  THEN raced \cup {target[c]} ELSE raced
  PROVE  Alone' /\ (\A d \in Callers : Knows(d)') /\ Answered'
<1>1. ASSUME NEW d \in Callers, d # c, pc[d] \in Holding, target[d] = target[c]
      PROVE  target[c] \in raced'
  <2>1. CASE pc[d] = "claim" BY <1>1, <2>1
  <2>2. CASE pc[d] \in Deciding
    <3>1. records[target[c]] # Claimed BY DEF Claimed
    <3>2. QED BY <1>1, <2>2, <3>1 DEF OwnedInv, Knows
  <2>3. CASE pc[d] \in Publishing
    <3>1. finding[d].status = "COMPLETED" BY <2>3 DEF OwnedInv, TypeInv
    <3>2. QED BY <1>1, <2>3, <3>1 DEF OwnedInv, Knows
  <2>4. QED BY <1>1, <2>1, <2>2, <2>3 DEF Holding
<1>2. Alone'
  <2>1. SUFFICES ASSUME NEW d \in Callers, NEW e \in Callers, d # e, target[d] = target[e],
                        pc'[d] \in Holding, pc'[e] \in Holding
                 PROVE  target[d] \in raced'
    BY DEF Alone
  <2>2. CASE d = c BY <2>1, <2>2, <1>1 DEF Others
  <2>3. CASE e = c BY <2>1, <2>3, <1>1 DEF Others
  <2>4. CASE d # c /\ e # c BY <2>1, <2>4 DEF OwnedInv, Alone, Others
  <2>5. QED BY <2>2, <2>3, <2>4
<1>3. ASSUME NEW d \in Callers PROVE Knows(d)'
  <2>1. CASE d = c BY <2>1 DEF Knows, Deciding, Publishing
  <2>2. CASE d # c BY <2>2 DEF OwnedInv, Knows, Others
  <2>3. QED BY <2>1, <2>2
<1>4. Answered'
  BY DEF OwnedInv, Answered
<1>5. QED BY <1>2, <1>3, <1>4

\* Writing the record one holds: whoever else holds it, or was answered from it,
\* makes its key one of the raced.
LEMMA WriteOwned ==
  ASSUME OwnedInv, NEW c \in Callers, Others(c), UNCHANGED <<raced, target, finding>>,
         NEW r, records' = [records EXCEPT ![target[c]] = r],
         pc[c] \in Holding \ Publishing,
         \/ pc'[c] \in Deciding /\ r = Claimed /\ answers' = answers
         \/ /\ pc'[c] \in Publishing /\ r = finding[c] /\ r.status = "COMPLETED"
            /\ answers' = answers \cup {<<target[c], r.outcome>>}
  PROVE  Alone' /\ (\A d \in Callers : Knows(d)') /\ Answered'
<1>0. DOMAIN records = Keys /\ target[c] \in Keys
  BY DEF OwnedInv, TypeInv, TypeOK
<1>1. records'[target[c]] = r /\ \A k \in Keys : k # target[c] => records'[k] = records[k]
  BY <1>0 DEF OwnedInv, TypeInv, TypeOK
<1>2. Alone'
  BY DEF OwnedInv, Alone, Others, Holding, Deciding, Publishing
<1>3. ASSUME NEW d \in Callers PROVE Knows(d)'
  <2>1. CASE d = c
    BY <2>1, <1>1 DEF Knows, Deciding, Publishing
  <2>2. CASE d # c /\ target[d] = target[c]
    BY <2>2 DEF OwnedInv, Alone, Knows, Others, Holding
  <2>3. CASE d # c /\ target[d] # target[c]
    <3>1. records'[target[d]] = records[target[d]]
      BY <2>3, <1>1 DEF OwnedInv, TypeInv, TypeOK
    <3>2. QED BY <2>3, <3>1 DEF OwnedInv, Knows, Others
  <2>4. QED BY <2>1, <2>2, <2>3
<1>4. ASSUME NEW a \in answers, a[1] \notin raced
      PROVE  records'[a[1]].status = "COMPLETED" /\ records'[a[1]].outcome = a[2]
  <2>1. a[1] \in Keys /\ records[a[1]].status = "COMPLETED" /\ records[a[1]].outcome = a[2]
    BY <1>4 DEF OwnedInv, Answered, TypeInv, TypeOK
  <2>2. a[1] # target[c]
    BY <1>4, <2>1 DEF OwnedInv, Knows, Holding, Claimed
  <2>3. QED BY <2>1, <2>2, <1>1
<1>5. Answered'
  BY <1>1, <1>4 DEF Answered
<1>6. QED BY <1>2, <1>3, <1>5

LEMMA OwnedInit == Init => OwnedInv
<1> SUFFICES ASSUME Init PROVE OwnedInv OBVIOUS
<1>1. TypeInv
  BY TypeInit
<1>2. \A c \in Callers : pc[c] = "idle"
  BY DEF Init
<1>3. answers = {}
  BY DEF Init
<1>4. QED
  BY <1>1, <1>2, <1>3 DEF OwnedInv, Alone, Knows, Answered, Holding, Deciding, Publishing

LEMMA OwnedStep == OwnedInv /\ [Next]_vars => OwnedInv'
<1> SUFFICES ASSUME OwnedInv, [Next]_vars PROVE OwnedInv' OBVIOUS
<1> DEFINE Goal == Alone' /\ (\A d \in Callers : Knows(d)') /\ Answered'
<1>t. TypeInv /\ TypeInv'
  BY TypeStep DEF OwnedInv
<1>1. CASE UNCHANGED vars \/ Deploy \/ Complete \/ \E s \in Signals : Store(s)
  <2>1. UNCHANGED <<records, pc, target, finding, answers, raced>>
    BY <1>1 DEF vars, documents, callers, Deploy, Complete, Store
  <2>2. Goal
    BY <2>1 DEF OwnedInv, Alone, Knows, Answered
  <2>3. QED BY <1>t, <2>2 DEF OwnedInv
<1>2. ASSUME NEW c \in Callers, Ask(c) PROVE Goal
  <2>1. Others(c) /\ pc'[c] \notin Holding
    BY <1>2, <1>t, GotoOthers DEF Ask, Others, Holding, Deciding, Publishing, TypeInv, TypeOK
  <2>2. UNCHANGED <<records, raced, answers>>
    BY <1>2 DEF Ask, documents
  <2>3. QED BY <2>1, <2>2, LetGo
<1>3. ASSUME NEW c \in Callers, Fail(c) PROVE Goal
  BY <1>3, <1>t, ReturnOthers, LetGo DEF Fail, documents, Holding, Deciding, Publishing
<1>4. ASSUME NEW c \in Callers, Answer(c), UNCHANGED <<records, raced>> PROVE Goal
  <2>1. Others(c) /\ pc'[c] \notin Holding
    BY <1>4, <1>t, ReturnOthers DEF Answer, Holding, Deciding, Publishing
  <2>2. \A a \in answers' : a \in answers \/
          (records[a[1]].status = "COMPLETED" /\ records[a[1]].outcome = a[2])
    BY <1>4 DEF Answer
  <2>3. QED BY <1>4, <2>1, <2>2, LetGo
<1>5. ASSUME NEW c \in Callers, Lookup(c) PROVE Goal
  <2>1. CASE Answer(c)
    BY <1>4, <1>5, <2>1 DEF Lookup, documents
  <2>2. CASE Goto(c, "peek") /\ UNCHANGED <<target, held, finding, answers>>
    <3>1. Others(c) /\ pc'[c] \notin Holding
      BY <2>2, <1>t, GotoOthers DEF Others, Holding, Deciding, Publishing
    <3>2. QED BY <1>5, <2>2, <3>1, LetGo DEF Lookup, documents
  <2>3. QED BY <1>5, <2>1, <2>2 DEF Lookup
<1>6. ASSUME NEW c \in Callers, Peek(c) PROVE Goal
  <2>1. CASE Answer(c) /\ UNCHANGED raced
    BY <1>4, <1>6, <2>1 DEF Peek, documents
  <2>2. CASE /\ records[target[c]].status = "ABSENT" /\ Goto(c, "claim")
             /\ raced' = IF \E d \in Callers : pc[d] = "claim" /\ target[d] = target[c]
                         THEN raced \cup {target[c]} ELSE raced
             /\ UNCHANGED <<target, held, finding, answers>>
    <3>1. Others(c) /\ pc'[c] = "claim"
      BY <2>2, <1>t, GotoOthers DEF Others
    <3>2. UNCHANGED records
      BY <1>6 DEF Peek, documents
    <3>3. QED BY <2>2, <3>1, <3>2, CreateOwned
  <2>3. QED BY <1>6, <2>1, <2>2 DEF Peek
<1>7. ASSUME NEW c \in Callers, Claim(c) PROVE Goal
  <2>1. Others(c) /\ pc'[c] \in Deciding /\ pc[c] \in Holding \ Publishing
    BY <1>7, <1>t, GotoOthers DEF Claim, Others, Holding, Deciding, Publishing
  <2>2. QED BY <1>7, <2>1, WriteOwned DEF Claim
<1>8. ASSUME NEW c \in Callers, ReadWorkflow(c) \/ Mark(c) PROVE Goal
  <2>1. /\ Others(c)
        /\ \/ pc[c] \in Deciding /\ pc'[c] \in Deciding
           \/ pc[c] \in Publishing /\ pc'[c] \in Publishing
    BY <1>8, <1>t, GotoOthers DEF ReadWorkflow, Mark, Others, Deciding, Publishing
  <2>2. UNCHANGED <<records, raced, answers, target, finding>>
    BY <1>8 DEF ReadWorkflow, Mark, documents
  <2>3. QED BY <2>1, <2>2, HoldOn
<1>9. ASSUME NEW c \in Callers, Decide(c) PROVE Goal
  <2>1. \A d \in Callers \ {c} : finding'[d] = finding[d]
    BY <1>9, <1>t DEF Decide, TypeInv, TypeOK
  <2>2. Others(c) /\ pc[c] \in Deciding /\ pc'[c] \in Deciding
    BY <1>9, <2>1, <1>t, GotoOthers DEF Decide, Others, Deciding
  <2>3. QED BY <1>9, <2>2, HoldOn DEF Decide, documents
<1>10. ASSUME NEW c \in Callers, Finish(c) PROVE Goal
  <2>1. CASE Return(c) /\ UNCHANGED <<records, answers>>
    <3>1. Others(c) /\ pc'[c] \notin Holding
      BY <2>1, <1>t, ReturnOthers DEF Holding, Deciding, Publishing
    <3>2. QED BY <1>10, <2>1, <3>1, LetGo DEF Finish
  <2>2. CASE /\ records' = [records EXCEPT ![target[c]] = finding[c]]
             /\ answers' = answers \cup {<<target[c], finding[c].outcome>>}
             /\ Goto(c, "publish") /\ UNCHANGED <<target, held, finding>>
    <3>1. Others(c) /\ pc'[c] \in Publishing /\ pc[c] \in Holding \ Publishing
      BY <1>10, <2>2, <1>t, GotoOthers DEF Finish, Others, Holding, Deciding, Publishing
    <3>2. finding[c].status = "COMPLETED"
      BY <1>10, <1>t DEF Finish, TypeInv
    <3>3. QED BY <1>10, <2>2, <3>1, <3>2, WriteOwned DEF Finish
  <2>3. QED BY <1>10, <2>1, <2>2 DEF Finish
<1>11. ASSUME NEW c \in Callers, Publish(c) PROVE Goal
  BY <1>11, <1>t, ReturnOthers, LetGo DEF Publish, Holding, Deciding, Publishing
<1>12. ASSUME NEW c \in Callers, Ask(c) \/ Verify(c) \/ Fail(c) PROVE OwnedInv'
  BY <1>2, <1>3, <1>5, <1>6, <1>7, <1>8, <1>9, <1>10, <1>11, <1>12, <1>t DEF Verify, OwnedInv
<1>13. QED
  BY <1>1, <1>12 DEF Next

\* However calls overlap, crash and repeat, every caller that is told an outcome is
\* told the one on record, unless two callers both created the record.
THEOREM OneAnswer == Spec => []OneOutcome
<1>1. OwnedInv => OneOutcome
  BY DEF OwnedInv, Answered, OneOutcome
<1>2. QED BY <1>1, OwnedInit, OwnedStep, PTL DEF Spec

-----------------------------------------------------------------------------
(* What is final, and what the workflow document says of it. *)

\* Who writes a record writes the one it holds, and only once.
LEMMA RecordsKept ==
  ASSUME OwnedInv, [Next]_vars, NEW k \in Keys, k \notin raced',
         records[k].status = "COMPLETED"
  PROVE  records'[k] = records[k]
<1>1. ASSUME NEW c \in Callers, Claim(c) PROVE records'[k] = records[k]
  BY <1>1 DEF Claim, OwnedInv, Knows, TypeInv, TypeOK
<1>2. ASSUME NEW c \in Callers, Finish(c) PROVE records'[k] = records[k]
  BY <1>2 DEF Finish, OwnedInv, Knows, TypeInv, TypeOK, Deciding, Claimed
<1>3. ASSUME NEW c \in Callers, Ask(c) \/ Lookup(c) \/ Peek(c) \/ ReadWorkflow(c) \/ Mark(c)
                                \/ Decide(c) \/ Publish(c) \/ Fail(c)
      PROVE  records' = records
  BY <1>3 DEF Ask, Lookup, Peek, ReadWorkflow, Mark, Decide, Publish, Fail, documents
<1>4. CASE UNCHANGED vars \/ Deploy \/ Complete \/ \E s \in Signals : Store(s)
  BY <1>4 DEF vars, documents, Deploy, Complete, Store
<1>5. QED
  BY <1>1, <1>2, <1>3, <1>4 DEF Next, Verify

LEMMA RacedGrows == ASSUME [Next]_vars PROVE raced \subseteq raced'
<1>1. ASSUME NEW c \in Callers, Ask(c) \/ Verify(c) \/ Fail(c) PROVE raced \subseteq raced'
  BY <1>1 DEF Ask, Verify, Lookup, Peek, Claim, ReadWorkflow, Mark, Decide, Finish, Publish, Fail
<1>2. CASE UNCHANGED vars \/ Deploy \/ Complete \/ \E s \in Signals : Store(s)
  BY <1>2 DEF vars, Deploy, Complete, Store
<1>3. QED BY <1>1, <1>2 DEF Next

\* An outcome is final for its key, as "never do the work twice" promises, as long as
\* two callers never both created its record.
THEOREM OutcomesAreFinal ==
  Spec => [][\A k \in Keys : k \notin raced' /\ records[k].status = "COMPLETED"
               => records'[k] = records[k]]_vars
<1>1. OwnedInv /\ [Next]_vars =>
        [\A k \in Keys : k \notin raced' /\ records[k].status = "COMPLETED"
           => records'[k] = records[k]]_vars
  BY RecordsKept
<1>2. QED BY <1>1, OwnedInit, OwnedStep, PTL DEF Spec

MirrorInv == OwnedInv /\ MirrorIsTrue

\* A write of the document that says nothing new of a verification.
LEMMA OtherWrite ==
  ASSUME MirrorInv, [Next]_vars, NEW marker,
         marker = workflow.marker \/ marker \notin Outcomes,
         workflow' = workflow \/ workflow' = Written(marker, workflow.latest)
  PROVE  MirrorIsTrue'
<1>1. workflow'.latest = workflow.latest
  BY DEF Written
<1>2. workflow'.marker \in Outcomes => workflow'.marker = workflow.marker
  BY DEF Written
<1>3. workflow.latest # 0 => workflow.latest \in Keys
  BY WorkflowFields DEF MirrorInv, OwnedInv
<1>4. QED
  BY <1>1, <1>2, <1>3, RecordsKept, RacedGrows DEF MirrorInv, MirrorIsTrue

LEMMA MirrorStep == MirrorInv /\ [Next]_vars => MirrorInv'
<1> SUFFICES ASSUME MirrorInv, [Next]_vars PROVE MirrorIsTrue'
  BY OwnedStep DEF MirrorInv
<1> USE DEF Outcomes
<1>1. CASE UNCHANGED workflow
  BY <1>1, OtherWrite
<1>2. CASE Deploy \/ Complete
  BY <1>2, OtherWrite DEF Deploy, Complete
<1>3. ASSUME NEW c \in Callers, Mark(c) PROVE MirrorIsTrue'
  BY <1>3, OtherWrite DEF Mark
<1>4. ASSUME NEW c \in Callers, Publish(c), workflow' # workflow PROVE MirrorIsTrue'
  <2>1. /\ workflow'.marker = finding[c].outcome /\ workflow'.latest = target[c]
        /\ UNCHANGED <<records, raced>>
    BY <1>4 DEF Publish, Written
  <2>2. target[c] \in Keys /\ finding[c].status = "COMPLETED"
    BY <1>4 DEF Publish, MirrorInv, OwnedInv, TypeInv, TypeOK, Publishing
  <2>3. target[c] # 0
    BY <2>2
  <2>4. target[c] \notin raced => records[target[c]] = finding[c]
    BY <1>4 DEF Publish, MirrorInv, OwnedInv, Knows, Publishing
  <2>5. QED BY <2>1, <2>2, <2>3, <2>4 DEF MirrorIsTrue
<1>5. ASSUME NEW c \in Callers, Ask(c) \/ Lookup(c) \/ Peek(c) \/ Claim(c) \/ ReadWorkflow(c)
                                \/ Decide(c) \/ Finish(c) \/ Fail(c)
      PROVE  UNCHANGED workflow
  BY <1>5 DEF Ask, Lookup, Peek, Claim, ReadWorkflow, Decide, Finish, Fail, documents
<1>6. CASE UNCHANGED vars \/ \E s \in Signals : Store(s)
  BY <1>1, <1>6 DEF vars, documents, Store
<1>7. QED
  BY <1>1, <1>2, <1>3, <1>4, <1>5, <1>6 DEF Next, Verify

\* What the workflow document says of a verification is what its record says, for any
\* number of callers and any writes in between.
THEOREM Mirrored == Spec => []MirrorIsTrue
<1>1. Init => MirrorInv
  <2>1. Init => MirrorIsTrue
    BY DEF Init, MirrorIsTrue, Outcomes
  <2>2. QED BY <2>1, OwnedInit DEF MirrorInv
<1>2. MirrorInv => MirrorIsTrue
  BY DEF MirrorInv
<1>3. QED BY <1>1, <1>2, MirrorStep, PTL DEF Spec

-----------------------------------------------------------------------------
(* What an outcome rests on. *)

EarnedInv ==
  /\ TypeInv /\ OutcomeIsEarned
  /\ \A c \in Callers : pc[c] \in {"finish"} \cup Publishing =>
       Earned(finding[c], Deployments[target[c]])

\* Signals are never taken back.
LEMMA StoredGrows ==
  ASSUME [Next]_vars, NEW r, NEW d, Earned(r, d) PROVE Earned(r, d)'
<1>1. stored \subseteq stored'
  <2>1. ASSUME NEW c \in Callers, Ask(c) \/ Verify(c) \/ Fail(c) PROVE UNCHANGED stored
    BY <2>1 DEF Ask, Verify, Lookup, Peek, Claim, ReadWorkflow, Mark, Decide, Finish, Publish, Fail
  <2>2. CASE UNCHANGED vars \/ Deploy \/ Complete \/ \E s \in Signals : Store(s)
    BY <2>2 DEF vars, Deploy, Complete, Store
  <2>3. QED BY <2>1, <2>2 DEF Next
<1>2. QED BY <1>1 DEF Earned

\* What _decide finds is earned.
LEMMA DecideEarns ==
  ASSUME EarnedInv, NEW c \in Callers, Decide(c)
  PROVE  Earned(finding'[c], Deployments[target[c]])
<1> DEFINE d == Deployments[target[c]]
           e == UNION {Collect(t, stored, d) : t \in Types}
<1>1. /\ e \subseteq stored
      /\ \A s \in e : s.type \in Types /\ InWindow(s, d) /\ SameRevision(s, d)
  BY CollectSound
<1>2. IsFiniteSet(e)
  BY <1>1, FS_Subset DEF EarnedInv, TypeInv, TypeOK
<1>3. finding'[c] = IF d.ok THEN Decided(DecideOutcome(Types, e), e) ELSE Decided("ESCALATED", {})
  BY DEF Decide, EarnedInv, TypeInv, TypeOK
<1>4. CASE d.ok
  <2>1. finding'[c].evidence = e /\ finding'[c].outcome = DecideOutcome(Types, e)
    BY <1>3, <1>4 DEF Decided
  <2> HIDE DEF e, d
  <2>2. DecideOutcome(Types, e) = "VERIFIED_RESOLVED" =>
          /\ e # {} /\ Cardinality(e) >= MinEvidence
          /\ \A s \in e : ~Degraded(s)
          /\ \A t \in Types \cap AlwaysEmitted : \E s \in e : s.type = t
    BY <1>1, <1>2, ResolvedSound
  <2>3. Earned(finding'[c], d)
    BY <1>1, <1>4, <2>1, <2>2 DEF Earned
  <2>4. QED BY <2>3 DEF d
<1>5. CASE ~d.ok
  <2>1. finding'[c].evidence = {} /\ finding'[c].outcome = "ESCALATED"
    BY <1>3, <1>5 DEF Decided
  <2>2. QED BY <2>1 DEF Earned
<1>6. QED BY <1>4, <1>5

LEMMA EarnedStep == EarnedInv /\ [Next]_vars => EarnedInv'
<1> SUFFICES ASSUME EarnedInv, [Next]_vars PROVE EarnedInv' OBVIOUS
<1> DEFINE Held(c) == pc[c] \in {"finish"} \cup Publishing =>
                        Earned(finding[c], Deployments[target[c]])
<1>t. TypeInv /\ TypeInv' /\ OutcomeIsEarned /\ \A c \in Callers : Held(c)
  BY TypeStep DEF EarnedInv
<1>e. Earned(Absent, Deployments[1]) /\ \A k \in Keys : Earned(Claimed, Deployments[k])
  BY DEF Earned, Absent, Claimed
<1>1. ASSUME NEW c \in Callers, Claim(c) \/ Finish(c),
             NEW k \in Keys, records'[k] # records[k]
      PROVE  Earned(records'[k], Deployments[k])
  BY <1>1, <1>t, <1>e DEF Claim, Finish, TypeInv, TypeOK
<1>2. ASSUME NEW c \in Callers, Ask(c) \/ Lookup(c) \/ Peek(c) \/ ReadWorkflow(c) \/ Mark(c)
                                \/ Decide(c) \/ Publish(c) \/ Fail(c)
      PROVE  records' = records
  BY <1>2 DEF Ask, Lookup, Peek, ReadWorkflow, Mark, Decide, Publish, Fail, documents
<1>3. ASSUME NEW k \in Keys PROVE Earned(records'[k], Deployments[k])
  <2>1. CASE records'[k] = records[k]
    BY <2>1, <1>t DEF OutcomeIsEarned
  <2>2. CASE UNCHANGED vars \/ Deploy \/ Complete \/ \E s \in Signals : Store(s)
    BY <2>1, <2>2 DEF vars, documents, Deploy, Complete, Store
  <2>3. QED BY <1>1, <1>2, <2>1, <2>2 DEF Next, Verify
<1>4. OutcomeIsEarned'
  <2>1. ASSUME NEW k \in Keys PROVE Earned(records[k], Deployments[k])'
    BY <1>3, StoredGrows DEF Earned
  <2>2. QED BY <2>1 DEF OutcomeIsEarned
<1>5. ASSUME NEW c \in Callers, NEW d \in Callers, d # c,
             Ask(c) \/ Verify(c) \/ Fail(c)
      PROVE  pc'[d] = pc[d] /\ target'[d] = target[d] /\ finding'[d] = finding[d]
  <2>1. CASE Return(c)
    BY <1>5, <2>1, <1>t, ReturnOthers DEF Others
  <2>2. CASE Ask(c) \/ Decide(c) \/ Claim(c) \/ ReadWorkflow(c) \/ Mark(c)
    BY <1>5, <2>2, <1>t, GotoOthers DEF Ask, Decide, Claim, ReadWorkflow, Mark, TypeInv, TypeOK
  <2>3. CASE \E label \in Labels : Goto(c, label) /\ UNCHANGED <<target, finding>>
    BY <1>5, <2>3, <1>t, GotoOthers
  <2>4. QED
    BY <1>5, <2>1, <2>2, <2>3
       DEF Verify, Lookup, Peek, Answer, Finish, Publish, Fail, Labels
<1>6. ASSUME NEW c \in Callers, Ask(c) \/ Verify(c) \/ Fail(c) PROVE
        pc'[c] \in {"finish"} \cup Publishing => Earned(finding'[c], Deployments[target'[c]])
  <2>1. CASE Decide(c)
    BY <2>1, DecideEarns DEF Decide, EarnedInv
  <2>2. CASE Return(c)
    BY <2>2, <1>t, ReturnOthers DEF Publishing
  <2>3. CASE (ReadWorkflow(c) \/ Finish(c)) /\ ~Return(c)
    BY <2>3, <1>t, GotoOthers DEF ReadWorkflow, Finish, Publishing
  <2>4. CASE \E label \in {"lookup", "peek", "claim", "mark", "decide"} : Goto(c, label)
    BY <2>4, <1>t, GotoOthers DEF Publishing
  <2>5. QED
    BY <1>6, <2>1, <2>2, <2>3, <2>4
       DEF Verify, Ask, Lookup, Peek, Answer, Claim, Mark, Publish, Finish, Fail
<1>7. ASSUME NEW d \in Callers PROVE Held(d)'
  <2>1. CASE UNCHANGED <<pc, target, finding>>
    BY <2>1, <1>t, StoredGrows DEF Earned
  <2>2. CASE UNCHANGED vars \/ Deploy \/ Complete \/ \E s \in Signals : Store(s)
    BY <2>1, <2>2 DEF vars, callers, Deploy, Complete, Store
  <2>3. ASSUME NEW c \in Callers, Ask(c) \/ Verify(c) \/ Fail(c) PROVE Held(d)'
    <3>1. pc'[d] \in {"finish"} \cup Publishing => Earned(finding'[d], Deployments[target'[d]])
      BY <1>5, <1>6, <1>t, <2>3
    <3>2. QED BY <3>1, StoredGrows DEF Earned
  <2>4. QED BY <2>2, <2>3 DEF Next
<1>8. QED BY <1>t, <1>4, <1>7 DEF EarnedInv

\* No verification resolves an incident unless enough healthy signals, of the deployed
\* revision and of every type that is always reported, were stored after a deployment
\* that succeeded, whatever order signals and calls come in.
THEOREM Earning == Spec => []OutcomeIsEarned
<1>1. Init => EarnedInv
  <2>1. Init => OutcomeIsEarned
    BY DEF Init, OutcomeIsEarned, Earned, Absent
  <2>2. Init => \A c \in Callers : pc[c] = "idle"
    BY DEF Init
  <2>3. QED BY <2>1, <2>2, TypeInit DEF EarnedInv, Publishing
<1>2. EarnedInv => OutcomeIsEarned
  BY DEF EarnedInv
<1>3. QED BY <1>1, <1>2, EarnedStep, PTL DEF Spec

-----------------------------------------------------------------------------
(* What the limit of the query may hide. *)

\* What a query leaves out has MaxSignals others before it.
LEMMA CollectsUpToTheLimit ==
  ASSUME stored \subseteq Signals, NEW t \in Types, NEW k \in Keys, NEW s \in stored,
         s.type = t, InWindow(s, Deployments[k]), SameRevision(s, Deployments[k]),
         s \notin Collect(t, stored, Deployments[k])
  PROVE  Cardinality(CrowdOut(s, Deployments[k])) >= MaxSignals
<1> DEFINE d == Deployments[k]
           found == {x \in stored : x.type = t /\ InWindow(x, d)}
           newer == {x \in found : x.at > s.at}
<1>1. s \in found /\ s.at \in Int
  BY DEF InWindow
<1>2. ~(Cardinality(newer) < MaxSignals)
  BY <1>1 DEF Collect, Newest
<1>3. newer \subseteq CrowdOut(s, d)
  <2>1. \A x \in newer : x # s /\ x \in stored /\ x.type = s.type /\ InWindow(x, d)
    BY <1>1
  <2>2. \A x \in newer : x.at >= s.at
    BY <1>1 DEF InWindow
  <2>3. QED BY <2>1, <2>2 DEF CrowdOut
<1>4. IsFiniteSet(CrowdOut(s, d))
  <2>1. IsFiniteSet(Signals) /\ CrowdOut(s, d) \subseteq Signals
    BY DEF VerificationBounds, CrowdOut
  <2>2. QED BY <2>1, FS_Subset
<1> HIDE DEF newer
<1>5. /\ Cardinality(newer) \in Nat /\ Cardinality(CrowdOut(s, d)) \in Nat
      /\ Cardinality(newer) <= Cardinality(CrowdOut(s, d))
  BY <1>3, <1>4, FS_Subset, FS_CardinalityType
<1>6. QED BY <1>2, <1>5, VerificationSettings

\* A caller holds no outcome before it decides.
Undecided == \A c \in Callers : pc[c] \notin {"finish"} \cup Publishing => finding[c] = Absent

LEMMA UndecidedStep == TypeInv /\ Undecided /\ [Next]_vars => Undecided'
<1> SUFFICES ASSUME TypeInv, Undecided, [Next]_vars, NEW d \in Callers,
                    pc'[d] \notin {"finish"} \cup Publishing
             PROVE  finding'[d] = Absent
  BY DEF Undecided
<1> USE DEF Undecided, TypeInv, TypeOK, Publishing
<1>1. ASSUME NEW c \in Callers, Return(c) PROVE finding'[d] = Absent
  <2>1. CASE d = c BY <1>1, <2>1 DEF Return
  <2>2. CASE d # c BY <1>1, <2>2 DEF Return, Goto
  <2>3. QED BY <2>1, <2>2
<1>2. ASSUME NEW c \in Callers, UNCHANGED finding,
             Goto(c, "lookup") \/ Goto(c, "peek") \/ Goto(c, "claim") \/ Goto(c, "mark")
             \/ Goto(c, "marking") \/ Goto(c, "decide") \/ Goto(c, "publish")
             \/ Goto(c, "publishing"),
             pc[c] \in {"finish"} \cup Publishing => pc'[c] \in Publishing
      PROVE  finding'[d] = Absent
  BY <1>2 DEF Goto
<1>3. ASSUME NEW c \in Callers, Ask(c) \/ Claim(c) \/ ReadWorkflow(c) \/ Mark(c)
      PROVE  finding'[d] = Absent
  BY <1>2, <1>3 DEF Ask, Claim, ReadWorkflow, Mark, Goto
<1>4. ASSUME NEW c \in Callers, Lookup(c) \/ Peek(c) \/ Finish(c) \/ Publish(c) \/ Fail(c)
      PROVE  finding'[d] = Absent
  BY <1>1, <1>2, <1>4 DEF Lookup, Peek, Answer, Finish, Publish, Fail, Goto
<1>5. ASSUME NEW c \in Callers, Decide(c) PROVE finding'[d] = Absent
  BY <1>5 DEF Decide, Goto
<1>6. CASE UNCHANGED callers
  BY <1>6 DEF callers
<1>7. CASE UNCHANGED vars \/ Deploy \/ Complete \/ \E s \in Signals : Store(s)
  BY <1>6, <1>7 DEF vars, Deploy, Complete, Store
<1>8. QED BY <1>3, <1>4, <1>5, <1>7 DEF Next, Verify

\* Only _decide reaches an outcome, and what it has not seen was crowded out.
LEMMA SeesStep == TypeInv /\ Undecided /\ [Next]_vars => SeesUpToTheLimit
<1> SUFFICES ASSUME TypeInv, Undecided, [Next]_vars, NEW c \in Callers,
                    pc[c] = "decide", finding'[c].outcome = "VERIFIED_RESOLVED",
                    NEW s \in stored, s.type \in Types,
                    InWindow(s, Deployments[target[c]]), SameRevision(s, Deployments[target[c]]),
                    Degraded(s)
             PROVE  Cardinality(CrowdOut(s, Deployments[target[c]])) >= MaxSignals
  BY DEF SeesUpToTheLimit
<1> USE DEF TypeInv, TypeOK
<1>1. finding[c].outcome = "none" /\ Absent.outcome = "none"
  <2>1. Absent.outcome = "none"
    BY DEF Absent
  <2>2. finding[c] = Absent
    BY DEF Undecided, Publishing
  <2>3. QED BY <2>1, <2>2
<1>2. Decide(c)
  <2>1. ASSUME NEW b \in Callers, Return(b) PROVE finding'[c] \in {finding[c], Absent}
    <3>1. CASE b = c BY <2>1, <3>1 DEF Return
    <3>2. CASE b # c BY <2>1, <3>2 DEF Return
    <3>3. QED BY <3>1, <3>2
  <2>2. ASSUME NEW b \in Callers, Ask(b) \/ Lookup(b) \/ Peek(b) \/ Claim(b) \/ ReadWorkflow(b)
                                 \/ Mark(b) \/ Finish(b) \/ Publish(b) \/ Fail(b)
        PROVE  finding'[c] \in {finding[c], Absent}
    BY <2>1, <2>2 DEF Ask, Lookup, Peek, Answer, Claim, ReadWorkflow, Mark, Finish, Publish, Fail
  <2>3. ASSUME NEW b \in Callers, b # c, Decide(b) PROVE finding'[c] = finding[c]
    BY <2>3 DEF Decide
  <2>4. CASE UNCHANGED vars \/ Deploy \/ Complete \/ \E x \in Signals : Store(x)
    BY <1>1, <2>4 DEF vars, callers, Deploy, Complete, Store
  <2>5. QED BY <1>1, <2>2, <2>3, <2>4 DEF Next, Verify
<1> DEFINE d == Deployments[target[c]]
           e == UNION {Collect(t, stored, d) : t \in Types}
<1>3. finding'[c] = IF d.ok THEN Decided(DecideOutcome(Types, e), e) ELSE Decided("ESCALATED", {})
  BY <1>2 DEF Decide
<1>4. DecideOutcome(Types, e) = "VERIFIED_RESOLVED"
  BY <1>3 DEF Decided
<1>5. IsFiniteSet(e) /\ \A x \in e : x.type \in Types
  <2>1. e \subseteq Signals /\ \A x \in e : x.type \in Types
    BY CollectSound
  <2>2. IsFiniteSet(Signals)
    BY DEF VerificationBounds
  <2> HIDE DEF e
  <2>3. QED BY <2>1, <2>2, FS_Subset
<1> HIDE DEF e, d
<1>6. s \notin e
  BY <1>4, <1>5, ResolvedSound
<1> USE DEF e, d
<1>7. target[c] \in Keys /\ stored \subseteq Signals /\ s \notin Collect(s.type, stored, d)
  BY <1>6
<1>8. QED BY <1>7, CollectsUpToTheLimit

\* Whoever concludes that production recovered has overlooked a stored signal of
\* a recurrence only behind a full answer of other signals of its type that are
\* no older (_decide, evaluate_condition).
THEOREM NothingElseHides == Spec => OnlyTheLimitHides
<1>1. Init => Undecided
  BY DEF Init, Undecided
<1>2. TypeInv /\ Undecided /\ [Next]_vars => [SeesUpToTheLimit]_vars
  BY SeesStep
<1>3. QED BY <1>1, <1>2, TypeInit, TypeStep, UndecidedStep, PTL DEF Spec, OnlyTheLimitHides
=============================================================================
