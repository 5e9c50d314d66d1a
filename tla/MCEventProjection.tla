-------------------------- MODULE MCEventProjection ---------------------------
(***************************************************************************)
(* EventProjection on small instances: one run, whose rows have one target *)
(* on a platform.                                                          *)
(***************************************************************************)
EXTENDS EventProjection

CONSTANTS r1, t1, u1, c1

MCRunOf == [i \in Item |-> r1]

MCTargetOf == [i \in Item |-> t1]

=============================================================================
