-------------------------- MODULE SignalIngestion ---------------------------
(***************************************************************************)
(* Signals come in as Pub/Sub messages, delivered at least once, to any    *)
(* number of workers. A worker is one loop that pulls and dispatches, and  *)
(* one task per message under a semaphore; a task checks the message and   *)
(* looks its fingerprint up, saves the signal, acknowledges the message    *)
(* and then tells the detection trigger. One action is the code between    *)
(* two awaits.                                                             *)
(*                                                                         *)
(* Pub/Sub is the external part: a message is in the queue, leased to who  *)
(* pulled it, or settled. What is written, acknowledged or told when its   *)
(* task dies took effect just before or never.                             *)
(*                                                                         *)
(* Source: app/eventing/.                                                  *)
(***************************************************************************)
EXTENDS Naturals, FiniteSets

CONSTANTS
  Messages, Events,   \* an event is a fingerprint
  Bad,                \* a content that is refused with an IngestionError
  Odd,                \* a content on which the adapter raises something else
  Nobody,             \* what an idle slot works on
  Content,            \* Content[m]: the event of message m, Bad or Odd
  Workers, Slots,     \* permits of the workers' semaphores (max_concurrency)
  Owner,              \* Owner[s]: the worker that slot s belongs to
  MaxPull,            \* pubsub_pull_max_messages
  MaxFaults           \* bound: failures, early redeliveries, stops, crashes

ASSUME NobodyAssumption == Nobody \notin Messages
ASSUME ContentAssumption ==
  /\ Bad \notin Events /\ Odd \notin Events /\ Bad # Odd
  /\ Content \in [Messages -> Events \cup {Bad, Odd}]
ASSUME SlotAssumption == IsFiniteSet(Slots) /\ Owner \in [Slots -> Workers]
ASSUME BoundAssumption == MaxPull \in Nat /\ MaxFaults \in Nat

VARIABLES
  queue, leased,   \* messages to deliver; delivered and not acknowledged
  loop,            \* loop[w]: where _run_loop is
  batch,           \* batch[w]: messages pulled and not dispatched yet
  life,            \* life[w]: running, or where stop() is
  pc, msg,         \* pc[s], msg[s]: the task in slot s and its message
  saved,           \* saved[e]: Signals persisted for event e
  heard,           \* events the detection trigger was told of
  faults

broker == <<queue, leased>>
loops == <<loop, batch, life>>
store == <<saved, heard>>
vars == <<broker, loops, pc, msg, store, faults>>

Init ==
  /\ queue = Messages /\ leased = {}
  /\ loop = [w \in Workers |-> "off"]
  /\ batch = [w \in Workers |-> {}]
  /\ life = [w \in Workers |-> "stopped"]
  /\ pc = [s \in Slots |-> "idle"]
  /\ msg = [s \in Slots |-> Nobody]
  /\ saved = [e \in Events |-> 0]
  /\ heard = {}
  /\ faults = 0

Fault == faults < MaxFaults /\ faults' = faults + 1

SlotsOf(w) == {s \in Slots : Owner[s] = w}
InFlight(w) == {s \in SlotsOf(w) : pc[s] # "idle"}
Stopping(w) == life[w] # "running"

(***************************************************************************)
(* The broker: a lease that nobody works under runs out; it may also run   *)
(* out early, and the message is then delivered to somebody else as well.  *)
(***************************************************************************)
Held(m) == (\E s \in Slots : msg[s] = m) \/ (\E w \in Workers : m \in batch[w])

Requeue(m) ==
  /\ m \in leased
  /\ leased' = leased \ {m}
  /\ queue' = queue \cup {m}
  /\ UNCHANGED <<loops, pc, msg, store>>

Expire(m) == ~Held(m) /\ Requeue(m) /\ UNCHANGED faults
ExpireEarly(m) == Held(m) /\ Requeue(m) /\ Fault

\* An acknowledgement is for what is leased: one that comes late is ignored.
Acknowledge(m) == leased' = leased \ {m} /\ UNCHANGED queue

(***************************************************************************)
(* The loop: stop requested? pull, then dispatch message by message.       *)
(***************************************************************************)
Start(w) ==
  /\ life[w] = "stopped"
  /\ life' = [life EXCEPT ![w] = "running"]
  /\ loop' = [loop EXCEPT ![w] = "top"]
  /\ UNCHANGED <<broker, batch, pc, msg, store, faults>>

LoopTop(w) ==
  /\ loop[w] = "top"
  /\ loop' = [loop EXCEPT ![w] = IF Stopping(w) THEN "ended" ELSE "pull"]
  /\ UNCHANGED <<broker, batch, life, pc, msg, store, faults>>

\* What is pulled is not put back when a stop was requested meanwhile.
Pull(w) ==
  /\ loop[w] = "pull"
  /\ \E pulled \in SUBSET queue :
       /\ pulled # {} /\ Cardinality(pulled) <= MaxPull
       /\ batch' = [batch EXCEPT ![w] = pulled]
       /\ leased' = leased \cup pulled
       /\ queue' = queue \ pulled
  /\ loop' = [loop EXCEPT ![w] = "dispatch"]
  /\ UNCHANGED <<life, pc, msg, store, faults>>

\* Nothing to pull, or the pull failed; a failure that is tried again changes
\* nothing.
PullNothing(w) ==
  /\ loop[w] = "pull"
  /\ queue = {} \/ Stopping(w)
  /\ loop' = [loop EXCEPT ![w] = "top"]
  /\ UNCHANGED <<broker, batch, life, pc, msg, store, faults>>

Dispatch(w, s) ==
  /\ loop[w] = "dispatch" /\ s \in SlotsOf(w) /\ pc[s] = "idle"
  /\ ~Stopping(w)
  /\ \E m \in batch[w] :
       /\ pc' = [pc EXCEPT ![s] = "find"]
       /\ msg' = [msg EXCEPT ![s] = m]
       /\ batch' = [batch EXCEPT ![w] = @ \ {m}]
  /\ UNCHANGED <<broker, loop, life, store, faults>>

\* The permit came after the stop: the rest of the batch is left unacknowledged.
DropBatch(w) ==
  /\ loop[w] = "dispatch" /\ Stopping(w) /\ batch[w] # {}
  /\ \E s \in SlotsOf(w) : pc[s] = "idle"
  /\ batch' = [batch EXCEPT ![w] = {}]
  /\ loop' = [loop EXCEPT ![w] = "top"]
  /\ UNCHANGED <<broker, life, pc, msg, store, faults>>

EndBatch(w) ==
  /\ loop[w] = "dispatch" /\ batch[w] = {}
  /\ loop' = [loop EXCEPT ![w] = "top"]
  /\ UNCHANGED <<broker, batch, life, pc, msg, store, faults>>

(***************************************************************************)
(* ingest_one, run by a task. Whatever escapes it is swallowed by _process *)
(* and leaves the message unacknowledged.                                  *)
(***************************************************************************)
Event(s) == Content[msg[s]]

Goto(s, label) ==
  /\ pc' = [pc EXCEPT ![s] = label]
  /\ UNCHANGED msg

EndTask(s) ==
  /\ pc' = [pc EXCEPT ![s] = "idle"]
  /\ msg' = [msg EXCEPT ![s] = Nobody]

\* What the adapter makes of the message, and the lookup of its fingerprint:
\* permanent failures and duplicates are acknowledged and dropped.
CheckOrDie(s) ==   \* fault: an IngestionError escapes as well
  IF Event(s) \in {Bad, Odd} THEN EndTask(s)
  ELSE Goto(s, IF saved[Event(s)] > 0 THEN "settle" ELSE "save")

CheckOnly(s) ==   \* fault: a duplicate is saved again
  IF Event(s) = Odd THEN EndTask(s)
  ELSE Goto(s, IF Event(s) = Bad THEN "settle" ELSE "save")

Check(s) ==
  IF Event(s) = Odd THEN EndTask(s)
  ELSE Goto(s, IF Event(s) = Bad \/ saved[Event(s)] > 0 THEN "settle" ELSE "save")

Find(s) ==
  /\ pc[s] = "find"
  /\ Check(s)
  /\ UNCHANGED <<broker, loops, store, faults>>

Save(s) ==
  /\ pc[s] = "save"
  /\ saved' = [saved EXCEPT ![Event(s)] = @ + 1]
  /\ Goto(s, "ack")
  /\ UNCHANGED <<broker, loops, heard, faults>>

\* The acknowledgement of a duplicate or of a permanent failure.
Settle(s) ==
  /\ pc[s] = "settle"
  /\ Acknowledge(msg[s])
  /\ EndTask(s)
  /\ UNCHANGED <<loops, store, faults>>

Ack(s) ==
  /\ pc[s] = "ack"
  /\ Acknowledge(msg[s])
  /\ Goto(s, "trigger")
  /\ UNCHANGED <<loops, store, faults>>

\* Detection runs inside this call; its failures are swallowed.
Trigger(s) ==
  /\ pc[s] = "trigger"
  /\ heard' = heard \cup {Event(s)}
  /\ EndTask(s)
  /\ UNCHANGED <<broker, loops, saved, faults>>

\* An await that raises: the lookup, the save (with or without effect), an
\* acknowledgement.
FailDropped(s) ==   \* fault: a failed save is acknowledged
  /\ pc[s] \in {"find", "save", "settle", "ack"}
  /\ Fault
  /\ IF pc[s] = "save" THEN Acknowledge(msg[s]) ELSE UNCHANGED broker
  /\ EndTask(s)
  /\ UNCHANGED <<loops, store>>

Fail(s) ==
  /\ pc[s] \in {"find", "save", "settle", "ack"}
  /\ Fault
  /\ EndTask(s)
  /\ UNCHANGED <<broker, loops, store>>

(***************************************************************************)
(* stop(): wait for the loop, then for the tasks; a deadline cuts both off *)
(* while the tasks are awaited. While the loop is awaited it only cuts off *)
(* the loop: _run_loop swallows the cancellation and returns, and stop()   *)
(* goes on to gather the tasks, now without a deadline.                    *)
(***************************************************************************)
Kill(w) ==
  /\ pc' = [s \in Slots |-> IF Owner[s] = w THEN "idle" ELSE pc[s]]
  /\ msg' = [s \in Slots |-> IF Owner[s] = w THEN Nobody ELSE msg[s]]
  /\ UNCHANGED store

Stop(w) ==
  /\ life[w] = "running" /\ Fault
  /\ life' = [life EXCEPT ![w] = "draining"]
  /\ UNCHANGED <<broker, loop, batch, pc, msg, store>>

StopGather(w) ==
  /\ life[w] = "draining" /\ loop[w] = "ended"
  /\ life' = [life EXCEPT ![w] = "gathering"]
  /\ UNCHANGED <<broker, loop, batch, pc, msg, store, faults>>

StopEarly(w) ==   \* fault: only the loop is awaited
  /\ life[w] \in {"gathering", "overdue"}
  /\ life' = [life EXCEPT ![w] = "stopped"]
  /\ loop' = [loop EXCEPT ![w] = "off"]
  /\ UNCHANGED <<broker, batch, pc, msg, store, faults>>

StopDone(w) ==
  /\ life[w] \in {"gathering", "overdue"} /\ InFlight(w) = {}
  /\ life' = [life EXCEPT ![w] = "stopped"]
  /\ loop' = [loop EXCEPT ![w] = "off"]
  /\ UNCHANGED <<broker, batch, pc, msg, store, faults>>

Waiting(w) == loop[w] = "pull" \/ (loop[w] = "dispatch" /\ InFlight(w) = SlotsOf(w))

DeadlineInLoop(w) ==
  /\ life[w] = "draining" /\ Waiting(w)
  /\ life' = [life EXCEPT ![w] = "overdue"]
  /\ loop' = [loop EXCEPT ![w] = "ended"]
  /\ batch' = [batch EXCEPT ![w] = {}]
  /\ UNCHANGED <<broker, pc, msg, store, faults>>

DeadlineInGather(w) ==
  /\ life[w] = "gathering" /\ InFlight(w) # {}
  /\ Kill(w)
  /\ UNCHANGED <<broker, loops, faults>>

\* The process dies at any point.
Crash(w) ==
  /\ life[w] # "stopped" /\ Fault
  /\ Kill(w)
  /\ life' = [life EXCEPT ![w] = "stopped"]
  /\ loop' = [loop EXCEPT ![w] = "off"]
  /\ batch' = [batch EXCEPT ![w] = {}]
  /\ UNCHANGED broker

LoopStep(w) ==
  \/ LoopTop(w) \/ Pull(w) \/ PullNothing(w) \/ DropBatch(w) \/ EndBatch(w)
  \/ \E s \in Slots : Dispatch(w, s)

TaskStep(s) == Find(s) \/ Save(s) \/ Settle(s) \/ Ack(s) \/ Trigger(s)

StopStep(w) ==
  StopGather(w) \/ StopDone(w) \/ DeadlineInLoop(w) \/ DeadlineInGather(w)

Next ==
  \/ \E m \in Messages : Expire(m) \/ ExpireEarly(m)
  \/ \E w \in Workers : Start(w) \/ LoopStep(w) \/ Stop(w) \/ StopStep(w) \/ Crash(w)
  \/ \E s \in Slots : TaskStep(s) \/ Fail(s)

Spec == Init /\ [][Next]_vars

PullOf(w, m) == Pull(w) /\ m \in batch'[w]

\* The event loop runs whatever is ready, a lease runs out, and the broker
\* does not pass a message over for ever.
LoopFairness ==
  /\ \A m \in Messages : WF_vars(Expire(m))
  /\ \A w \in Workers, m \in Messages : SF_vars(PullOf(w, m))
  /\ \A w \in Workers : WF_vars(LoopStep(w)) /\ WF_vars(StopStep(w))

\* The calls of a task return: each of them has a timeout of its own.
FairSpec == Spec /\ LoopFairness /\ \A s \in Slots : WF_vars(TaskStep(s))

\* A call of a task may hang.
HangSpec == Spec /\ LoopFairness

-----------------------------------------------------------------------------
TypeOK ==
  /\ queue \subseteq Messages /\ leased \subseteq Messages
  /\ loop \in [Workers -> {"off", "top", "pull", "dispatch", "ended"}]
  /\ batch \in [Workers -> SUBSET Messages]
  /\ life \in [Workers -> {"running", "draining", "gathering", "overdue", "stopped"}]
  /\ pc \in [Slots -> {"idle", "find", "save", "settle", "ack", "trigger"}]
  /\ msg \in [Slots -> Messages \cup {Nobody}]
  /\ \A s \in Slots : pc[s] # "idle" => msg[s] \in Messages
  /\ \A s \in Slots : pc[s] \in {"save", "ack", "trigger"} => Event(s) \in Events
  /\ saved \in [Events -> Nat]
  /\ heard \subseteq Events
  /\ faults \in 0..MaxFaults

\* Ack discipline (ingest_one, lines 14-19 of its module): a message that the
\* broker will not deliver again was refused for good, or its signal is persisted,
\* whatever failed, was redelivered, stopped or crashed on the way.
Settled == Messages \ (queue \cup leased)
NothingLost == \A m \in Settled : Content[m] = Bad \/
                 (Content[m] \in Events /\ saved[Content[m]] > 0)

\* The refinement: a message is outstanding while the broker has it in its queue or
\* under a lease, an event persisted once it has a copy. However deliveries, leases,
\* failures, stops and crashes interleave, what outsiders see is SignalDelivery.
Persisted == {e \in Events : saved[e] > 0}
SD == INSTANCE SignalDelivery WITH
        outstanding <- queue \cup leased, persisted <- Persisted, told <- heard
Delivery == SD!DeliverySpec

\* The lookup and the save of ingest_one are two awaits, so redeliveries may
\* leave copies of a signal; but only tasks that ran at one time can, so there
\* are never more copies than the semaphores have permits, however often a
\* message is delivered and whatever crashes.
Saving(e) == {s \in Slots : pc[s] = "save" /\ Event(s) = e}
CopiesBounded == \A e \in Events : saved[e] <= Cardinality(Slots)

\* stop() leaves nothing behind: when it has returned, neither the loop nor a
\* task of this worker goes on, and none of its messages is held.
StoppedIsQuiet ==
  \A w \in Workers : life[w] = "stopped" =>
    loop[w] = "off" /\ batch[w] = {} /\ InFlight(w) = {}

\* From the moment a stop is requested no task is created, whether the loop was
\* pulling, or waiting for a permit with messages in hand.
NoWorkAfterStop ==
  [][\A s \in Slots : Stopping(Owner[s]) /\ pc[s] = "idle" => pc'[s] = "idle"]_vars

\* While a worker stays up every message gets settled, except those on which an
\* adapter raises what ingest_one does not expect: they come back for ever.
EveryMessageSettled ==
  (\E w \in Workers : <>[](life[w] = "running"))
    => <>[](\A m \in Messages : Content[m] # Odd => m \in Settled)

\* stop() returns, if what the tasks call does.
StopEnds == \A w \in Workers : life[w] = "draining" ~> life[w] = "stopped"

\* Docstring of stop: "anything still running past that deadline is cancelled
\* rather than awaited forever", that is, stop() returns even if a task hangs.
StopNeverWaitsForever == StopEnds

\* eventing/errors.py: "a single malformed message can never wedge a subscription
\* in an infinite redelivery loop", that is, every message gets settled.
MalformedIsDropped ==
  (\E w \in Workers : <>[](life[w] = "running"))
    => <>[](\A m \in Messages : m \in Settled)
=============================================================================
