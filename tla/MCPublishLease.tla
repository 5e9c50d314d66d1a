---------------------------- MODULE MCPublishLease ----------------------------
(***************************************************************************)
(* PublishLease on small instances: three pids and two platforms.          *)
(***************************************************************************)
EXTENDS PublishLease, TLC

\* Nothing tells the pids apart; only the safety runs use it.
Pids == Permutations(Proc)

=============================================================================
