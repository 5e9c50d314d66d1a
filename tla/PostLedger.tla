------------------------------ MODULE PostLedger ------------------------------
(***************************************************************************)
(* What checkpoints, event log and reconcilers promise of the posts, with  *)
(* no files, no flushes and no processes: a post is confirmed at most      *)
(* once, after it was made, and an item is done only for a target that has *)
(* a post, with no URL but one that was got for it.  What is done may be   *)
(* undone: two processes that rewrite the rows of a run lose each other's  *)
(* updates.                                                                *)
(***************************************************************************)
EXTENDS Naturals

CONSTANTS Run, Item, RunOf, Target, TargetOf, Live, NoUrl, NoTarget

VARIABLES
  post,       \* the target each URL is a post for
  sent,       \* the items that were published, each with its URL
  done,       \* items that are settled
  url,        \* the URLs of the items
  confirmed   \* how often a URL is confirmed

vars == <<post, sent, done, url, confirmed>>

Init ==
  /\ post = [u \in Live |-> NoTarget]
  /\ sent = {}
  /\ done = {}
  /\ url = [i \in Item |-> NoUrl]
  /\ confirmed = [u \in Live |-> 0]

\* An item gets a URL: that of a new post, or of one for its target.
Send(i, u) ==
  /\ post[u] \in {NoTarget, TargetOf[i]}
  /\ post' = [post EXCEPT ![u] = TargetOf[i]]
  /\ sent' = sent \cup {<<i, u>>}
  /\ UNCHANGED <<done, url, confirmed>>

Landed(i) == \E u \in Live : post[u] = TargetOf[i]

\* What is said of an item, now or in the next state.
Kept(i) == url'[i] = url[i] /\ (i \in done' <=> i \in done)

Justified(i) ==
  /\ i \in done' => Landed(i)
  /\ url'[i] # NoUrl => i \in done' /\ <<i, url'[i]>> \in sent

\* The items of a run are written anew.
Rewrite(r) ==
  /\ \A i \in Item : IF RunOf[i] = r THEN Justified(i) ELSE Kept(i)
  /\ UNCHANGED <<post, sent, confirmed>>

\* Posts are confirmed together.
Confirm(S) ==
  /\ \A u \in S : post[u] # NoTarget /\ confirmed[u] = 0
  /\ confirmed' = [u \in Live |-> confirmed[u] + IF u \in S THEN 1 ELSE 0]
  /\ UNCHANGED <<post, sent, done, url>>

Next ==
  \/ \E i \in Item, u \in Live : Send(i, u)
  \/ \E r \in Run : Rewrite(r)
  \/ \E S \in SUBSET Live : Confirm(S)

Spec == Init /\ [][Next]_vars

=============================================================================
