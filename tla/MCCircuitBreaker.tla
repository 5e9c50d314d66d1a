--------------------------- MODULE MCCircuitBreaker ---------------------------
(***************************************************************************)
(* CircuitBreaker on small instances: two or three workers, one or two     *)
(* platforms.                                                              *)
(***************************************************************************)
EXTENDS CircuitBreaker, TLC

\* Nothing tells the workers apart; only the safety runs use it.
Workers == Permutations(Worker)

=============================================================================
