---------------------------- MODULE MCPublishDedup ----------------------------
(***************************************************************************)
(* PublishDedup on small instances: up to three runs in two processes.     *)
(***************************************************************************)
EXTENDS PublishDedup, TLC

CONSTANTS r1, r2, r3, p1, p2

\* r1 and r2 are threads of one process, r3 is a process of its own.
MCPidOf == [r \in Run |-> IF r = r3 THEN p2 ELSE p1]

MCOnePid == [r \in Run |-> p1]

=============================================================================
