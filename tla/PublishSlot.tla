----------------------------- MODULE PublishSlot ------------------------------
(***************************************************************************)
(* What the WebUI's operations promise of their publishes, with no record, *)
(* no future, no request and no crash: there is one slot.  An operation    *)
(* takes it at most once, posts only while it has it, and turns green only *)
(* as it leaves it, and only if one of its targets has a post by then.     *)
(***************************************************************************)
CONSTANTS
  Op,       \* operations that publish
  Target,   \* what can be posted
  Rows      \* the targets of an operation

VARIABLES
  slot,     \* the operation that has the slot, in a set of at most one
  closed,   \* operations that may not take it any more
  live,     \* targets that have a post
  posted,   \* operations that made one
  green     \* operations that are shown as successful

vars == <<slot, closed, live, posted, green>>

Init == slot = {} /\ closed = {} /\ live = {} /\ posted = {} /\ green = {}

Take(o) ==
  /\ slot = {} /\ o \notin closed
  /\ slot' = {o} /\ closed' = closed \cup {o}
  /\ UNCHANGED <<live, posted, green>>

Post(o, new) ==
  /\ o \in slot
  /\ new \subseteq Rows[o] /\ new # {}
  /\ live' = live \cup new
  /\ posted' = posted \cup {o}
  /\ UNCHANGED <<slot, closed, green>>

Leave(o) ==
  /\ o \in slot
  /\ slot' = {}
  /\ UNCHANGED <<closed, live, posted, green>>

Succeed(o) ==
  /\ o \in slot /\ Rows[o] \cap live # {}
  /\ slot' = {} /\ green' = green \cup {o}
  /\ UNCHANGED <<closed, live, posted>>

\* It is refused the slot, for good.
Close(o) ==
  /\ closed' = closed \cup {o}
  /\ UNCHANGED <<slot, live, posted, green>>

\* A late cancel.
Retract(o) ==
  /\ green' = green \ {o}
  /\ UNCHANGED <<slot, closed, live, posted>>

\* Somebody else posts.
PostElsewhere(t) ==
  /\ live' = live \cup {t}
  /\ UNCHANGED <<slot, closed, posted, green>>

\* Whoever has the slot loses it, and who waits for it does not get it.
Die ==
  /\ slot' = {} /\ closed \subseteq closed' /\ closed' \subseteq Op
  /\ UNCHANGED <<live, posted, green>>

Next ==
  \/ \E o \in Op : Take(o) \/ Leave(o) \/ Succeed(o) \/ Close(o) \/ Retract(o)
  \/ \E o \in Op, new \in SUBSET Target : Post(o, new)
  \/ \E t \in Target : PostElsewhere(t)
  \/ Die

Spec == Init /\ [][Next]_vars

=============================================================================
