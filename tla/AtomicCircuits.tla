---------------------------- MODULE AtomicCircuits ----------------------------
(***************************************************************************)
(* What the circuit breaker's state file promises, with no file, no lock   *)
(* and no calls: a circuit per platform, each of which changes by itself   *)
(* and in one step, from what it is at that moment.  When the table is     *)
(* damaged it forgets; whatever mends it leaves healthy circuits.          *)
(***************************************************************************)
CONSTANT Platform

VARIABLES
  circuit,   \* state, tripped, and how old the trip is
  damaged

vars == <<circuit, damaged>>

Closed == [state |-> "closed", tripped |-> FALSE, ts |-> "none"]

AllClosed == [plat \in Platform |-> Closed]

\* A circuit that is not closed was tripped, and one that was tripped knows when: the
\* cooldown ends for it.
Healthy(c) ==
  /\ c.state # "closed" => c.tripped
  /\ c.tripped => c.ts # "none"

Init == circuit = AllClosed /\ damaged = FALSE

Becomes(plat, c) ==
  /\ ~damaged
  /\ circuit' = [circuit EXCEPT ![plat] = c]
  /\ UNCHANGED damaged

Trip(plat) == Becomes(plat, [state |-> "open", tripped |-> TRUE, ts |-> "fresh"])

HalfOpen(plat) == Becomes(plat, [state |-> "half_open", tripped |-> TRUE, ts |-> "fresh"])

\* It remembers that it was tripped.
Succeed(plat) == Becomes(plat, [circuit[plat] EXCEPT !.state = "closed"])

Cool(plat) == circuit[plat].ts = "fresh" /\ Becomes(plat, [circuit[plat] EXCEPT !.ts = "cooled"])

Reset(plat) == Becomes(plat, Closed)

Damage == ~damaged /\ damaged' = TRUE /\ circuit' = AllClosed

Mend ==
  /\ damaged /\ damaged' = FALSE
  /\ \A plat \in Platform : Healthy(circuit'[plat])

Next ==
  \/ \E plat \in Platform : Trip(plat) \/ HalfOpen(plat) \/ Succeed(plat) \/ Cool(plat) \/ Reset(plat)
  \/ Damage \/ Mend

Spec == Init /\ [][Next]_vars

=============================================================================
