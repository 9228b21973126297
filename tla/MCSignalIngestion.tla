------------------------- MODULE MCSignalIngestion --------------------------
(***************************************************************************)
(* One worker with two permits and three messages: one with a signal, one  *)
(* that is refused, one on which the adapter fails; or two workers and two *)
(* messages with the same signal.                                          *)
(***************************************************************************)
EXTENDS SignalIngestion

CONSTANTS w1, w2, s1, s2, bad, odd

MCContent == [m \in Messages |-> CASE m \in {1, 2} -> "e" [] m = 3 -> bad [] OTHER -> odd]
MCOwner == [s \in Slots |-> IF s = s2 /\ w2 \in Workers THEN w2 ELSE w1]
=============================================================================
