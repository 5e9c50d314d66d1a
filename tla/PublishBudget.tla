---------------------------- MODULE PublishBudget ----------------------------
(***************************************************************************)
(* What cross-run publish idempotency promises, with no store, no process  *)
(* and no crash: a key has one permit to post.  Posting spends it, a run   *)
(* that dies or holds the row loses it, and only an operator's override    *)
(* (a force, a forget) grants another.  What happens outside the contract  *)
(* (dispatching in observe mode over a recorded row, ...) voids the key:   *)
(* nothing is promised about it from then on.                              *)
(***************************************************************************)
EXTENDS Naturals

CONSTANT Key

VARIABLES
  permits,   \* posts that may still be made for the key
  posted,    \* posts that were made
  granted,   \* overrides by the operator
  void       \* the key has left the contract

vars == <<permits, posted, granted, void>>

Init ==
  /\ permits = [k \in Key |-> 1]
  /\ posted  = [k \in Key |-> 0]
  /\ granted = [k \in Key |-> 0]
  /\ void    = [k \in Key |-> FALSE]

Spend(k) ==
  /\ permits'[k] < permits[k]
  /\ posted'[k] = posted[k] + 1
  /\ granted'[k] = granted[k]

Lose(k) ==
  /\ permits'[k] <= permits[k]
  /\ posted'[k] = posted[k]
  /\ granted'[k] = granted[k]

Grant(k) ==
  /\ permits'[k] <= permits[k] + 1
  /\ posted'[k] = posted[k]
  /\ granted'[k] = granted[k] + 1

\* One process may die while it holds several keys: the keys move together.
KeyStep(k) ==
  \/ /\ ~void[k] /\ ~void'[k]
     /\ Spend(k) \/ Lose(k) \/ Grant(k)
  \/ void'[k]

Next == \A k \in Key : KeyStep(k)

Spec == Init /\ [][Next]_vars

=============================================================================
