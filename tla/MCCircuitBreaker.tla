-------------------------- MODULE MCCircuitBreaker --------------------------
(***************************************************************************)
(* Three callers of one breaker, interchangeable.                          *)
(***************************************************************************)
EXTENDS CircuitBreaker, TLC

CONSTANTS c1, c2, c3

Coroutines == Permutations({c1, c2, c3})
=============================================================================
