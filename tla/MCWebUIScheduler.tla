--------------------------- MODULE MCWebUIScheduler ---------------------------
(***************************************************************************)
(* WebUIScheduler on a small instance: two tasks, a draft and two requests *)
(* that add tasks.                                                         *)
(***************************************************************************)
EXTENDS WebUIScheduler

=============================================================================
