----------------------- MODULE SignalIngestionProofs ------------------------
(***************************************************************************)
(* Proofs about SignalIngestion, for any messages, workers and permits.    *)
(* The safety of delivery rests on what each task knows when it reaches an *)
(* acknowledgement (TaskKnows) and on NothingLost; both are kept because   *)
(* no step ever takes a saved signal away.                                 *)
(***************************************************************************)
EXTENDS SignalIngestion, TLAPS, FiniteSetTheorems

USE NobodyAssumption, ContentAssumption, SlotAssumption, BoundAssumption

LEMMA TypeInit == Init => TypeOK
  BY DEF Init, TypeOK, Event

\* Every step keeps the types.
LEMMA TypeStep == TypeOK /\ [Next]_vars => TypeOK'
<1> SUFFICES ASSUME TypeOK, [Next]_vars PROVE TypeOK' OBVIOUS
<1> USE DEF TypeOK, Event, broker, loops, store, vars, Fault, Goto, EndTask, Acknowledge, Requeue
<1>1. CASE UNCHANGED vars BY <1>1
<1>2. ASSUME NEW m \in Messages, Expire(m) \/ ExpireEarly(m) PROVE TypeOK'
  BY <1>2 DEF Expire, ExpireEarly
<1>3. ASSUME NEW w \in Workers, Start(w) \/ LoopTop(w) \/ PullNothing(w) \/ DropBatch(w) \/ EndBatch(w)
      PROVE TypeOK'
  BY <1>3 DEF Start, LoopTop, PullNothing, DropBatch, EndBatch
<1>4. ASSUME NEW w \in Workers, Pull(w) PROVE TypeOK'
  BY <1>4 DEF Pull
<1>5. ASSUME NEW w \in Workers, NEW s \in Slots, Dispatch(w, s) PROVE TypeOK'
  BY <1>5 DEF Dispatch
<1>6. ASSUME NEW w \in Workers, Stop(w) \/ StopGather(w) \/ StopDone(w) \/ DeadlineInLoop(w) PROVE TypeOK'
  BY <1>6 DEF Stop, StopGather, StopDone, DeadlineInLoop
<1>7. ASSUME NEW w \in Workers, DeadlineInGather(w) \/ Crash(w) PROVE TypeOK'
  BY <1>7 DEF DeadlineInGather, Crash, Kill
<1>8. ASSUME NEW s \in Slots, Find(s) PROVE TypeOK'
  BY <1>8 DEF Find, Check
<1>9. ASSUME NEW s \in Slots, Save(s) \/ Settle(s) \/ Ack(s) \/ Trigger(s) PROVE TypeOK'
  BY <1>9 DEF Save, Settle, Ack, Trigger
<1>10. ASSUME NEW s \in Slots, Fail(s) PROVE TypeOK'
  BY <1>10 DEF Fail
<1> HIDE DEF TypeOK, Event, broker, loops, store, vars, Fault, Goto, EndTask, Acknowledge, Requeue
<1>11. ASSUME NEW w \in Workers, LoopStep(w) PROVE TypeOK'
  BY <1>3, <1>4, <1>5, <1>11 DEF LoopStep
<1>12. ASSUME NEW w \in Workers, StopStep(w) PROVE TypeOK'
  BY <1>6, <1>7, <1>12 DEF StopStep
<1>13. ASSUME NEW s \in Slots, TaskStep(s) PROVE TypeOK'
  BY <1>8, <1>9, <1>13 DEF TaskStep
<1>14. QED
  BY <1>1, <1>2, <1>3, <1>6, <1>7, <1>10, <1>11, <1>12, <1>13 DEF Next

\* The queue, the stored signals and the locals of every task keep their types.
THEOREM TypeCorrect == Spec => []TypeOK
  BY TypeInit, TypeStep, PTL DEF Spec

-----------------------------------------------------------------------------
(* What a task knows. *)

\* Whoever is about to acknowledge knows why: the message was refused for good, or
\* its event has a saved signal.
Knows(s) ==
  /\ pc[s] \in {"ack", "trigger"} => Event(s) \in Events /\ saved[Event(s)] > 0
  /\ pc[s] = "settle" => Event(s) = Bad \/ (Event(s) \in Events /\ saved[Event(s)] > 0)

DeliveryInv == TypeOK /\ (\A s \in Slots : Knows(s)) /\ NothingLost

\* Only Save touches the repository.
LEMMA SavedChange ==
  ASSUME [Next]_vars
  PROVE  UNCHANGED saved \/ \E s \in Slots : Save(s)
<1>1. CASE UNCHANGED vars BY <1>1 DEF vars, store
<1>2. ASSUME NEW m \in Messages, Expire(m) \/ ExpireEarly(m) PROVE UNCHANGED saved
  BY <1>2 DEF Expire, ExpireEarly, Requeue, store
<1>3. ASSUME NEW w \in Workers, Start(w) \/ LoopStep(w) \/ Stop(w) PROVE UNCHANGED saved
  BY <1>3 DEF Start, LoopStep, LoopTop, Pull, PullNothing, DropBatch, EndBatch, Dispatch, Stop, store
<1>4. ASSUME NEW w \in Workers, StopStep(w) \/ Crash(w) PROVE UNCHANGED saved
  BY <1>4 DEF StopStep, StopGather, StopDone, DeadlineInLoop, DeadlineInGather, Crash, Kill, store
<1>5. ASSUME NEW s \in Slots, Find(s) \/ Settle(s) \/ Ack(s) \/ Trigger(s) \/ Fail(s)
      PROVE UNCHANGED saved
  BY <1>5 DEF Find, Settle, Ack, Trigger, Fail, store
<1>6. QED BY <1>1, <1>2, <1>3, <1>4, <1>5 DEF Next, TaskStep

\* A saved signal stays.
LEMMA SavedStays ==
  ASSUME TypeOK, [Next]_vars, NEW e \in Events, saved[e] > 0
  PROVE  saved'[e] > 0
<1>1. CASE UNCHANGED saved BY <1>1
<1>2. ASSUME NEW s \in Slots, Save(s) PROVE saved'[e] > 0
  BY <1>2 DEF Save, TypeOK
<1>3. QED BY <1>1, <1>2, SavedChange

\* What a step does to one task: nothing, it ends it, or it is the task's own step.
LEMMA TaskChange ==
  ASSUME TypeOK, [Next]_vars, NEW t \in Slots
  PROVE  \/ pc'[t] = pc[t] /\ msg'[t] = msg[t]
         \/ pc'[t] \in {"idle", "find"}
         \/ Find(t) \/ Save(t) \/ Ack(t)
<1> DEFINE Same == pc'[t] = pc[t] /\ msg'[t] = msg[t]
<1>1. CASE UNCHANGED vars BY <1>1 DEF vars
<1>2. ASSUME NEW m \in Messages, Expire(m) \/ ExpireEarly(m) PROVE Same
  BY <1>2 DEF Expire, ExpireEarly, Requeue
<1>3. ASSUME NEW w \in Workers, Start(w) \/ LoopTop(w) \/ Pull(w) \/ PullNothing(w) \/ DropBatch(w) \/ EndBatch(w)
      PROVE Same
  BY <1>3 DEF Start, LoopTop, Pull, PullNothing, DropBatch, EndBatch
<1>4. ASSUME NEW w \in Workers, NEW s \in Slots, Dispatch(w, s) PROVE Same \/ pc'[t] = "find"
  BY <1>4 DEF Dispatch, TypeOK
<1>5. ASSUME NEW w \in Workers, Stop(w) \/ StopGather(w) \/ StopDone(w) \/ DeadlineInLoop(w) PROVE Same
  BY <1>5 DEF Stop, StopGather, StopDone, DeadlineInLoop
<1>6. ASSUME NEW w \in Workers, DeadlineInGather(w) \/ Crash(w) PROVE Same \/ pc'[t] = "idle"
  BY <1>6 DEF DeadlineInGather, Crash, Kill
<1>7. ASSUME NEW s \in Slots, s # t, Find(s) \/ Save(s) \/ Ack(s) PROVE Same
  BY <1>7 DEF Find, Check, Save, Ack, Goto, EndTask, TypeOK
<1>8. ASSUME NEW s \in Slots, Settle(s) \/ Trigger(s) \/ Fail(s) PROVE Same \/ pc'[t] = "idle"
  BY <1>8 DEF Settle, Trigger, Fail, EndTask, TypeOK
<1>9. ASSUME NEW w \in Workers, LoopStep(w) \/ StopStep(w) PROVE Same \/ pc'[t] \in {"idle", "find"}
  BY <1>3, <1>4, <1>5, <1>6, <1>9 DEF LoopStep, StopStep
<1>10. ASSUME NEW s \in Slots, TaskStep(s) \/ Fail(s)
       PROVE Same \/ pc'[t] = "idle" \/ Find(t) \/ Save(t) \/ Ack(t)
  BY <1>7, <1>8, <1>10 DEF TaskStep
<1>11. QED BY <1>1, <1>2, <1>3, <1>5, <1>6, <1>9, <1>10 DEF Next

LEMMA KnowsStep ==
  ASSUME TypeOK, TypeOK', [Next]_vars, NEW t \in Slots, Knows(t)
  PROVE  Knows(t)'
<1>1. CASE pc'[t] = pc[t] /\ msg'[t] = msg[t]
  <2>1. Event(t)' = Event(t) BY <1>1 DEF Event
  <2>2. QED BY <1>1, <2>1, SavedStays DEF Knows
<1>2. CASE pc'[t] \in {"idle", "find"} BY <1>2 DEF Knows
<1>3. CASE Find(t)
  <2>1. CASE Event(t) = Odd BY <1>3, <2>1 DEF Find, Check, EndTask, Knows, TypeOK
  <2>2. CASE Event(t) # Odd
    <3>1. /\ pc'[t] = IF Event(t) = Bad \/ saved[Event(t)] > 0 THEN "settle" ELSE "save"
          /\ msg' = msg /\ saved' = saved
      BY <1>3, <2>2 DEF Find, Check, Goto, TypeOK, store
    <3>2. Event(t)' = Event(t) /\ Event(t) \in Events \cup {Bad, Odd}
      BY <1>3, <3>1 DEF Event, Find, TypeOK
    <3>3. QED BY <2>2, <3>1, <3>2 DEF Knows
  <2>3. QED BY <2>1, <2>2
<1>4. CASE Save(t)
  <2>1. pc'[t] = "ack" /\ msg' = msg /\ saved' = [saved EXCEPT ![Event(t)] = @ + 1]
    BY <1>4 DEF Save, Goto, TypeOK
  <2>2. Event(t)' = Event(t) /\ Event(t) \in Events
    BY <1>4, <2>1 DEF Event, Save, TypeOK
  <2>3. saved'[Event(t)] > 0 BY <2>1, <2>2 DEF TypeOK
  <2>4. QED BY <2>1, <2>2, <2>3 DEF Knows
<1>5. CASE Ack(t)
  <2>1. pc[t] = "ack" /\ pc'[t] = "trigger" /\ msg' = msg /\ saved' = saved
    BY <1>5 DEF Ack, Goto, TypeOK, store
  <2>2. Event(t)' = Event(t) BY <2>1 DEF Event
  <2>3. QED BY <2>1, <2>2 DEF Knows
<1>6. QED BY <1>1, <1>2, <1>3, <1>4, <1>5, TaskChange

-----------------------------------------------------------------------------
(* Delivery. *)

Outstanding == queue \cup leased

\* A message ceases to be outstanding only when a task that knows why acknowledges it.
LEMMA OutstandingStep ==
  ASSUME TypeOK, [Next]_vars
  PROVE  \/ Outstanding' = Outstanding
         \/ \E s \in Slots : (Settle(s) \/ Ack(s)) /\ Outstanding' = Outstanding \ {msg[s]}
<1> USE DEF Outstanding
<1>1. CASE UNCHANGED vars BY <1>1 DEF vars, broker
<1>2. ASSUME NEW m \in Messages, Expire(m) \/ ExpireEarly(m) PROVE Outstanding' = Outstanding
  BY <1>2 DEF Expire, ExpireEarly, Requeue
<1>3. ASSUME NEW w \in Workers, Start(w) \/ LoopStep(w) \/ Stop(w) PROVE Outstanding' = Outstanding
  <2>1. CASE Pull(w) BY <2>1 DEF Pull
  <2>2. CASE ~Pull(w)
    BY <1>3, <2>2 DEF Start, LoopStep, LoopTop, PullNothing, DropBatch, EndBatch, Dispatch, Stop, broker
  <2>3. QED BY <2>1, <2>2
<1>4. ASSUME NEW w \in Workers, StopStep(w) \/ Crash(w) PROVE Outstanding' = Outstanding
  BY <1>4 DEF StopStep, StopGather, StopDone, DeadlineInLoop, DeadlineInGather, Crash, broker
<1>5. ASSUME NEW s \in Slots, Find(s) \/ Save(s) \/ Trigger(s) \/ Fail(s) PROVE Outstanding' = Outstanding
  BY <1>5 DEF Find, Save, Trigger, Fail, broker
<1>6. ASSUME NEW s \in Slots, Settle(s) \/ Ack(s)
      PROVE Outstanding' = Outstanding \/ Outstanding' = Outstanding \ {msg[s]}
  <2>1. leased' = leased \ {msg[s]} /\ queue' = queue
    BY <1>6 DEF Settle, Ack, Acknowledge
  <2>2. CASE msg[s] \in queue BY <2>1, <2>2
  <2>3. CASE msg[s] \notin queue BY <2>1, <2>3
  <2>4. QED BY <2>2, <2>3
<1>7. QED BY <1>1, <1>2, <1>3, <1>4, <1>5, <1>6 DEF Next, TaskStep

\* The task that acknowledges is at a point where it knows.
LEMMA AckKnows ==
  ASSUME TypeOK, NEW s \in Slots, Knows(s), Settle(s) \/ Ack(s)
  PROVE  /\ msg[s] \in Messages /\ saved' = saved
         /\ Content[msg[s]] = Bad \/ (Content[msg[s]] \in Events /\ saved[Content[msg[s]]] > 0)
  BY DEF Knows, Event, Settle, Ack, TypeOK, store

LEMMA NothingLostStep ==
  ASSUME DeliveryInv, [Next]_vars
  PROVE  NothingLost'
<1> SUFFICES ASSUME NEW m \in Messages, m \notin Outstanding'
             PROVE  (Content[m] = Bad \/ (Content[m] \in Events /\ saved[Content[m]] > 0))'
  BY DEF NothingLost, Settled, Outstanding
<1>1. CASE m \notin Outstanding
  <2>1. Content[m] = Bad \/ (Content[m] \in Events /\ saved[Content[m]] > 0)
    BY <1>1 DEF DeliveryInv, NothingLost, Settled, Outstanding
  <2>2. QED BY <2>1, SavedStays DEF DeliveryInv
<1>2. CASE m \in Outstanding
  <2>1. PICK s \in Slots : (Settle(s) \/ Ack(s)) /\ m = msg[s]
    BY <1>2, OutstandingStep DEF DeliveryInv
  <2>2. QED BY <2>1, AckKnows DEF DeliveryInv
<1>3. QED BY <1>1, <1>2

LEMMA DeliveryInit == Init => DeliveryInv
<1> SUFFICES ASSUME Init PROVE DeliveryInv OBVIOUS
<1>1. \A s \in Slots : Knows(s) BY DEF Init, Knows
<1>2. NothingLost BY DEF Init, NothingLost, Settled
<1>3. QED BY <1>1, <1>2, TypeInit DEF DeliveryInv

LEMMA DeliveryStep == DeliveryInv /\ [Next]_vars => DeliveryInv'
<1> SUFFICES ASSUME DeliveryInv, [Next]_vars PROVE DeliveryInv' OBVIOUS
<1>1. TypeOK' BY TypeStep DEF DeliveryInv
<1>2. \A s \in Slots : Knows(s)' BY <1>1, KnowsStep DEF DeliveryInv
<1>3. QED BY <1>1, <1>2, NothingLostStep DEF DeliveryInv

LEMMA DeliveryInvariant == Spec => []DeliveryInv
  BY DeliveryInit, DeliveryStep, PTL DEF Spec

\* Ack discipline of ingest_one: whatever fails, is redelivered, stops or crashes, a
\* message the broker will not deliver again was refused or has its signal saved.
THEOREM NothingIsLost == Spec => []NothingLost
<1>1. DeliveryInv => NothingLost BY DEF DeliveryInv
<1>2. QED BY <1>1, DeliveryInvariant, PTL

\* One step of the workers and the broker is one step of SignalDelivery or none.
LEMMA DeliverySimulation ==
  ASSUME DeliveryInv, [Next]_vars
  PROVE  [SD!DeliveryNext]_(SD!deliveryVars)
<1> DEFINE Still == Outstanding' = Outstanding /\ Persisted' = Persisted /\ heard' = heard
<1>0. TypeOK BY DEF DeliveryInv
<1>1. ASSUME NEW s \in Slots, Settle(s) \/ Ack(s), Outstanding' = Outstanding \ {msg[s]}
      PROVE  SD!Release(msg[s]) \/ Still
  <2>1. /\ msg[s] \in Messages /\ saved' = saved /\ heard' = heard
        /\ Content[msg[s]] = Bad \/ (Content[msg[s]] \in Events /\ saved[Content[msg[s]]] > 0)
    BY <1>1, AckKnows DEF DeliveryInv, Settle, Ack, store
  <2>2. Persisted' = Persisted BY <2>1 DEF Persisted
  <2>3. CASE msg[s] \in Outstanding
    BY <1>1, <2>1, <2>2, <2>3 DEF SD!Release, Outstanding, Persisted
  <2>4. CASE msg[s] \notin Outstanding
    BY <1>1, <2>1, <2>2, <2>4
  <2>5. QED BY <2>3, <2>4
<1>2. ASSUME NEW s \in Slots, Save(s) PROVE SD!Persist(msg[s]) \/ Still
  <2>1. /\ msg[s] \in Messages /\ Content[msg[s]] \in Events
        /\ saved' = [saved EXCEPT ![Content[msg[s]]] = @ + 1]
        /\ Outstanding' = Outstanding /\ heard' = heard
    BY <1>0, <1>2 DEF Save, TypeOK, Event, broker, Outstanding
  <2>2. Persisted' = Persisted \cup {Content[msg[s]]}
    BY <1>0, <2>1 DEF Persisted, TypeOK
  <2>3. CASE msg[s] \in Outstanding
    BY <2>1, <2>2, <2>3 DEF SD!Persist, Outstanding
  <2>4. CASE msg[s] \notin Outstanding
    <3>1. Content[msg[s]] \in Persisted
      BY <2>1, <2>4 DEF DeliveryInv, NothingLost, Settled, Outstanding, Persisted
    <3>2. QED BY <2>1, <2>2, <3>1
  <2>5. QED BY <2>3, <2>4
<1>3. ASSUME NEW s \in Slots, Trigger(s) PROVE SD!Tell(Event(s))
  <2>1. /\ Outstanding' = Outstanding /\ saved' = saved /\ heard' = heard \cup {Event(s)}
        /\ Event(s) \in Events /\ saved[Event(s)] > 0
    BY <1>3 DEF Trigger, DeliveryInv, Knows, broker, Outstanding
  <2>2. Persisted' = Persisted /\ Event(s) \in Persisted BY <2>1 DEF Persisted
  <2>3. QED BY <2>1, <2>2 DEF SD!Tell, Outstanding
<1>4. \/ UNCHANGED <<saved, heard>>
      \/ \E s \in Slots : Save(s) \/ Trigger(s)
  <2>1. CASE UNCHANGED vars BY <2>1 DEF vars, store
  <2>2. ASSUME NEW m \in Messages, Expire(m) \/ ExpireEarly(m) PROVE UNCHANGED <<saved, heard>>
    BY <2>2 DEF Expire, ExpireEarly, Requeue, store
  <2>3. ASSUME NEW w \in Workers, Start(w) \/ LoopStep(w) \/ Stop(w) PROVE UNCHANGED <<saved, heard>>
    BY <2>3 DEF Start, LoopStep, LoopTop, Pull, PullNothing, DropBatch, EndBatch, Dispatch, Stop, store
  <2>4. ASSUME NEW w \in Workers, StopStep(w) \/ Crash(w) PROVE UNCHANGED <<saved, heard>>
    BY <2>4 DEF StopStep, StopGather, StopDone, DeadlineInLoop, DeadlineInGather, Crash, Kill, store
  <2>5. ASSUME NEW s \in Slots, Find(s) \/ Settle(s) \/ Ack(s) \/ Fail(s) PROVE UNCHANGED <<saved, heard>>
    BY <2>5 DEF Find, Settle, Ack, Fail, store
  <2>6. QED BY <2>1, <2>2, <2>3, <2>4, <2>5 DEF Next, TaskStep
<1>5. CASE \E s \in Slots : Save(s) \/ Trigger(s)
  <2>1. PICK s \in Slots : Save(s) \/ Trigger(s) BY <1>5
  <2>2. CASE Save(s)
    <3>1. msg[s] \in Messages BY <1>0, <2>2 DEF Save, TypeOK
    <3>2. QED BY <1>2, <2>2, <3>1 DEF SD!DeliveryNext, SD!deliveryVars, Outstanding
  <2>3. CASE Trigger(s)
    <3>1. Event(s) \in Events BY <1>0, <2>3 DEF Trigger, TypeOK
    <3>2. QED BY <1>3, <2>3, <3>1 DEF SD!DeliveryNext
  <2>4. QED BY <2>1, <2>2, <2>3
<1>6. CASE UNCHANGED <<saved, heard>>
  <2>1. Persisted' = Persisted BY <1>6 DEF Persisted
  <2>2. CASE Outstanding' = Outstanding
    BY <1>6, <2>1, <2>2 DEF SD!deliveryVars, Outstanding
  <2>3. ASSUME NEW s \in Slots, Settle(s) \/ Ack(s), Outstanding' = Outstanding \ {msg[s]}
        PROVE  [SD!DeliveryNext]_(SD!deliveryVars)
    <3>1. msg[s] \in Messages BY <2>3, AckKnows DEF DeliveryInv
    <3>2. QED BY <1>1, <2>3, <3>1 DEF SD!DeliveryNext, SD!deliveryVars, Outstanding
  <2>4. QED BY <1>0, <2>2, <2>3, OutstandingStep
<1>7. QED BY <1>4, <1>5, <1>6

LEMMA DeliveryInitially == Init => SD!DeliveryInit
  BY DEF Init, SD!DeliveryInit, Persisted

\* The worker implements SignalDelivery.
THEOREM Delivers == Spec => Delivery
<1>1. DeliveryInv /\ [Next]_vars => [SD!DeliveryNext]_(SD!deliveryVars)
  BY DeliverySimulation
<1>2. QED
  BY <1>1, DeliveryInitially, DeliveryInvariant, PTL DEF Spec, Delivery, SD!DeliverySpec

-----------------------------------------------------------------------------
(* Stopping. *)

\* Only a dispatching loop holds messages, stop() gathers tasks only once the loop has
\* ended, and after it nothing of the worker is left.
QuietInv ==
  \A w \in Workers :
    /\ loop[w] # "dispatch" => batch[w] = {}
    /\ life[w] \in {"gathering", "overdue"} => loop[w] = "ended"
    /\ life[w] = "stopped" => loop[w] = "off" /\ InFlight(w) = {}

LEMMA QuietStep ==
  ASSUME TypeOK, QuietInv, [Next]_vars
  PROVE  QuietInv'
<1> USE DEF TypeOK, QuietInv, InFlight, SlotsOf
<1>1. CASE UNCHANGED vars BY <1>1 DEF vars, loops
<1>2. ASSUME NEW m \in Messages, Expire(m) \/ ExpireEarly(m) PROVE QuietInv'
  BY <1>2 DEF Expire, ExpireEarly, Requeue, loops
<1>3. ASSUME NEW w \in Workers, Start(w) \/ LoopTop(w) \/ Pull(w) \/ PullNothing(w) PROVE QuietInv'
  BY <1>3 DEF Start, LoopTop, Pull, PullNothing, Stopping
<1>4. ASSUME NEW w \in Workers, DropBatch(w) \/ EndBatch(w) \/ Stop(w) \/ StopGather(w) \/ StopDone(w)
      PROVE QuietInv'
  BY <1>4 DEF DropBatch, EndBatch, Stop, StopGather, StopDone, Stopping
<1>5. ASSUME NEW w \in Workers, NEW s \in Slots, Dispatch(w, s) PROVE QuietInv'
  <2>1. life[w] = "running" /\ loop[w] = "dispatch" /\ Owner[s] = w
    BY <1>5 DEF Dispatch, Stopping
  <2>2. \A t \in Slots : Owner[t] # w => pc'[t] = pc[t]
    BY <1>5, <2>1 DEF Dispatch
  <2>3. UNCHANGED <<loop, life>> /\ (\A v \in Workers : v # w => batch'[v] = batch[v])
    BY <1>5 DEF Dispatch
  <2>4. QED BY <2>1, <2>2, <2>3
<1>6. ASSUME NEW w \in Workers, DeadlineInLoop(w) PROVE QuietInv'
  BY <1>6 DEF DeadlineInLoop
<1>7. ASSUME NEW w \in Workers, DeadlineInGather(w) \/ Crash(w) PROVE QuietInv'
  <2>1. \A s \in Slots : pc'[s] = IF Owner[s] = w THEN "idle" ELSE pc[s]
    BY <1>7 DEF DeadlineInGather, Crash, Kill
  <2>2. \A v \in Workers : InFlight(v)' \subseteq InFlight(v) BY <2>1
  <2>3. InFlight(w)' = {} BY <2>1
  <2>4. CASE DeadlineInGather(w)
    <3>1. UNCHANGED <<loop, batch, life>> BY <2>4 DEF DeadlineInGather, loops
    <3>2. QED BY <2>2, <3>1
  <2>5. CASE Crash(w)
    <3>1. /\ life' = [life EXCEPT ![w] = "stopped"] /\ loop' = [loop EXCEPT ![w] = "off"]
          /\ batch' = [batch EXCEPT ![w] = {}]
      BY <2>5 DEF Crash
    <3>2. QED BY <2>2, <2>3, <3>1
  <2>6. QED BY <1>7, <2>4, <2>5
<1>8. ASSUME NEW s \in Slots, TaskStep(s) \/ Fail(s) PROVE QuietInv'
  <2>1. UNCHANGED <<loop, batch, life>>
    BY <1>8 DEF TaskStep, Find, Save, Settle, Ack, Trigger, Fail, loops
  <2>2. \A t \in Slots : pc[t] = "idle" => pc'[t] = "idle"
    BY <1>8 DEF TaskStep, Find, Check, Save, Settle, Ack, Trigger, Fail, Goto, EndTask
  <2>3. QED BY <2>1, <2>2
<1> HIDE DEF TypeOK, QuietInv, InFlight, SlotsOf
<1>9. ASSUME NEW w \in Workers, LoopStep(w) \/ StopStep(w) PROVE QuietInv'
  BY <1>3, <1>4, <1>5, <1>6, <1>7, <1>9 DEF LoopStep, StopStep
<1>10. QED BY <1>1, <1>2, <1>3, <1>4, <1>7, <1>8, <1>9 DEF Next

\* stop() leaves nothing behind, on whatever path it returns.
THEOREM StopIsQuiet == Spec => []StoppedIsQuiet
<1>1. Init => QuietInv BY DEF Init, QuietInv, InFlight, SlotsOf
<1>2. TypeOK /\ QuietInv /\ [Next]_vars => QuietInv' BY QuietStep
<1>3. QuietInv => StoppedIsQuiet BY DEF QuietInv, StoppedIsQuiet
<1>4. QED BY <1>1, <1>2, <1>3, TypeCorrect, PTL DEF Spec

\* From the moment a stop is requested no task is created.
THEOREM NothingStartsAfterStop == Spec => NoWorkAfterStop
<1> DEFINE A == \A s \in Slots : Stopping(Owner[s]) /\ pc[s] = "idle" => pc'[s] = "idle"
<1>1. ASSUME TypeOK, [Next]_vars, NEW s \in Slots, Stopping(Owner[s]), pc[s] = "idle"
      PROVE  pc'[s] = "idle"
  <2>1. CASE UNCHANGED vars BY <1>1, <2>1 DEF vars
  <2>2. ASSUME NEW m \in Messages, Expire(m) \/ ExpireEarly(m) PROVE pc' = pc
    BY <2>2 DEF Expire, ExpireEarly, Requeue
  <2>3. ASSUME NEW w \in Workers, NEW t \in Slots, Dispatch(w, t) PROVE pc'[s] = pc[s]
    BY <1>1, <2>3 DEF Dispatch, SlotsOf, TypeOK
  <2>4. ASSUME NEW w \in Workers,
               Start(w) \/ LoopTop(w) \/ Pull(w) \/ PullNothing(w) \/ DropBatch(w) \/ EndBatch(w) \/ Stop(w)
        PROVE  pc' = pc
    BY <2>4 DEF Start, LoopTop, Pull, PullNothing, DropBatch, EndBatch, Stop
  <2>5. ASSUME NEW w \in Workers, StopStep(w) \/ Crash(w) PROVE pc'[s] = "idle"
    BY <1>1, <2>5 DEF StopStep, StopGather, StopDone, DeadlineInLoop, DeadlineInGather, Crash, Kill
  <2>6. ASSUME NEW t \in Slots, TaskStep(t) \/ Fail(t) PROVE pc'[s] = "idle"
    BY <1>1, <2>6 DEF TaskStep, Find, Check, Save, Settle, Ack, Trigger, Fail, Goto, EndTask, TypeOK
  <2>7. ASSUME NEW w \in Workers, LoopStep(w) PROVE pc'[s] = pc[s]
    BY <2>3, <2>4, <2>7 DEF LoopStep
  <2>8. QED BY <1>1, <2>1, <2>2, <2>4, <2>5, <2>6, <2>7 DEF Next
<1>2. TypeOK /\ [Next]_vars => A BY <1>1
<1>3. TypeOK /\ [Next]_vars => [A]_vars BY <1>2
<1>4. QED BY <1>3, TypeCorrect, PTL DEF Spec, NoWorkAfterStop

-----------------------------------------------------------------------------
(* Copies. *)

\* The copies of a signal and the tasks about to save another one.
CopiesInv == \A e \in Events : saved[e] + Cardinality(Saving(e)) <= Cardinality(Slots)

LEMMA SavingFinite ==
  ASSUME NEW e \in Events
  PROVE  /\ IsFiniteSet(Saving(e)) /\ IsFiniteSet(Saving(e)')
         /\ Cardinality(Saving(e)) \in Nat /\ Cardinality(Saving(e)') \in Nat
         /\ Cardinality(Saving(e)') <= Cardinality(Slots) /\ Cardinality(Slots) \in Nat
<1>1. Saving(e) \subseteq Slots /\ Saving(e)' \subseteq Slots BY DEF Saving
<1>2. QED BY <1>1, FS_Subset, FS_CardinalityType

\* A task comes to its save only while the repository holds no copy.
LEMMA SavingGrowth ==
  ASSUME TypeOK, [Next]_vars, NEW e \in Events, NEW t \in Saving(e)', t \notin Saving(e)
  PROVE  saved[e] = 0 /\ saved' = saved
<1>1. t \in Slots /\ pc'[t] = "save" /\ Event(t)' = e BY DEF Saving
<1>2. ~(pc'[t] = pc[t] /\ msg'[t] = msg[t]) BY <1>1 DEF Saving, Event
<1>3. ~Save(t) /\ ~Ack(t) BY <1>1 DEF Save, Ack, Goto, TypeOK
<1>4. Find(t) BY <1>1, <1>2, <1>3, TaskChange
<1>5. saved' = saved BY <1>4 DEF Find, store
<1>6. Event(t) # Odd BY <1>1, <1>4 DEF Find, Check, EndTask, TypeOK
<1>7. ~(Event(t) = Bad \/ saved[Event(t)] > 0) /\ msg' = msg
  BY <1>1, <1>4, <1>6 DEF Find, Check, Goto, TypeOK
<1>8. Event(t) = e BY <1>1, <1>7 DEF Event
<1>9. QED BY <1>5, <1>7, <1>8 DEF TypeOK

LEMMA CopiesStep ==
  ASSUME TypeOK, CopiesInv, [Next]_vars
  PROVE  CopiesInv'
<1> SUFFICES ASSUME NEW e \in Events
             PROVE  saved'[e] + Cardinality(Saving(e)') <= Cardinality(Slots)
  BY DEF CopiesInv
<1>0. /\ saved[e] \in Nat /\ saved[e] + Cardinality(Saving(e)) <= Cardinality(Slots)
  BY DEF TypeOK, CopiesInv
<1>1. CASE ~(Saving(e)' \subseteq Saving(e))
  <2>1. saved'[e] = 0 BY <1>1, SavingGrowth
  <2>2. QED BY <2>1, SavingFinite
<1>2. CASE Saving(e)' \subseteq Saving(e) /\ saved'[e] = saved[e]
  <2>1. Cardinality(Saving(e)') <= Cardinality(Saving(e))
    BY <1>2, SavingFinite, FS_Subset
  <2>2. QED BY <1>0, <1>2, <2>1, SavingFinite
<1>3. CASE Saving(e)' \subseteq Saving(e) /\ saved'[e] # saved[e]
  <2>1. PICK s \in Slots : Save(s) BY <1>3, SavedChange
  <2>2. Event(s) = e /\ saved'[e] = saved[e] + 1 BY <1>3, <2>1 DEF Save, TypeOK
  <2>3. s \in Saving(e) BY <2>1, <2>2 DEF Save, Saving
  <2>4. s \notin Saving(e)' BY <2>1 DEF Save, Goto, Saving, TypeOK
  <2>5. Saving(e)' \subseteq Saving(e) \ {s} BY <1>3, <2>4
  <2>6. /\ Cardinality(Saving(e) \ {s}) = Cardinality(Saving(e)) - 1
        /\ IsFiniteSet(Saving(e) \ {s})
    BY <2>3, SavingFinite, FS_RemoveElement
  <2>7. Cardinality(Saving(e)') <= Cardinality(Saving(e)) - 1
    BY <2>5, <2>6, FS_Subset
  <2>8. QED BY <1>0, <2>2, <2>7, SavingFinite
<1>4. QED BY <1>1, <1>2, <1>3

\* The lookup and the save are two awaits, and yet there are never more copies of a
\* signal than the semaphores have permits.
THEOREM FewCopies == Spec => []CopiesBounded
<1>1. Init => CopiesInv
  <2> SUFFICES ASSUME Init, NEW e \in Events
               PROVE  saved[e] + Cardinality(Saving(e)) <= Cardinality(Slots)
    BY DEF CopiesInv
  <2>1. saved[e] = 0 BY DEF Init
  <2>2. Saving(e) = {} BY DEF Init, Saving
  <2>3. QED BY <2>1, <2>2, FS_EmptySet, FS_CardinalityType
<1>2. TypeOK /\ CopiesInv /\ [Next]_vars => CopiesInv' BY CopiesStep
<1>3. TypeOK /\ CopiesInv => CopiesBounded
  <2> SUFFICES ASSUME TypeOK, CopiesInv, NEW e \in Events
               PROVE  saved[e] <= Cardinality(Slots)
    BY DEF CopiesBounded
  <2>1. saved[e] \in Nat /\ saved[e] + Cardinality(Saving(e)) <= Cardinality(Slots)
    BY DEF TypeOK, CopiesInv
  <2>2. QED BY <2>1, SavingFinite
<1>4. QED BY <1>1, <1>2, <1>3, TypeCorrect, PTL DEF Spec
=============================================================================
