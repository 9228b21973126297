--------------------------- MODULE SignalDelivery ---------------------------
(***************************************************************************)
(* What the ingestion of signals promises, without brokers, leases, loops, *)
(* tasks, permits and stops: at-least-once delivery. A message stays       *)
(* outstanding until its signal is persisted or it was refused for good,   *)
(* and the detection trigger hears only of persisted signals.              *)
(*                                                                         *)
(* Source: the contract of ingest_one, app/eventing/ingestion_service.py.  *)
(***************************************************************************)
CONSTANTS Messages, Events, Bad, Content

VARIABLES
  outstanding, \* messages that will be delivered, or delivered again
  persisted,   \* events with a signal in the repository
  told         \* events the detection trigger was told of

deliveryVars == <<outstanding, persisted, told>>

DeliveryInit == outstanding = Messages /\ persisted = {} /\ told = {}

Persist(m) ==
  /\ m \in outstanding /\ Content[m] \in Events
  /\ persisted' = persisted \cup {Content[m]}
  /\ UNCHANGED <<outstanding, told>>

Release(m) ==
  /\ m \in outstanding
  /\ Content[m] = Bad \/ Content[m] \in persisted
  /\ outstanding' = outstanding \ {m}
  /\ UNCHANGED <<persisted, told>>

Tell(e) ==
  /\ e \in persisted
  /\ told' = told \cup {e}
  /\ UNCHANGED <<outstanding, persisted>>

DeliveryNext ==
  \/ \E m \in Messages : Persist(m) \/ Release(m)
  \/ \E e \in Events : Tell(e)

DeliverySpec == DeliveryInit /\ [][DeliveryNext]_deliveryVars
=============================================================================
