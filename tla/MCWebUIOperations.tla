-------------------------- MODULE MCWebUIOperations ---------------------------
(***************************************************************************)
(* WebUIOperations on a small instance: two operations that publish, the   *)
(* one two targets, the other one of them, so that its row may be skipped  *)
(* as a duplicate.                                                         *)
(***************************************************************************)
EXTENDS WebUIOperations

CONSTANTS o1, t1

MCRows == [o \in Publishing |-> IF o = o1 THEN Target ELSE {t1}]

=============================================================================
