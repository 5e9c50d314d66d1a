----------------------------- MODULE MCPublishRun -----------------------------
(***************************************************************************)
(* PublishRun on small instances: a fresh run, the runs that resume it,    *)
(* and one or two items.                                                   *)
(***************************************************************************)
EXTENDS PublishRun

CONSTANTS fresh, resume, p1, p2, k1, k2

\* Each run is a process of its own.
MCPidOf == [w \in Run |-> IF w = fresh THEN p1 ELSE p2]

\* Items 1 and 2 of two keys, or of one.
MCKeyOf == [i \in Item |-> IF i = 1 THEN k1 ELSE k2]

MCOneKey == [i \in Item |-> k1]

=============================================================================
