------------------------------ MODULE DedupStore ------------------------------
(***************************************************************************)
(* The rows of dedup.db and the operations of idempotency/store.py on one  *)
(* row.  Every write of DedupStore runs in one BEGIN IMMEDIATE             *)
(* transaction, so each operation below is the body of one transaction: a  *)
(* function from the row it reads to the row it commits.  The processes    *)
(* that call them, and what happens between two calls, are PublishDedup's. *)
(*                                                                         *)
(* A key that has no row is the row Absent.  owner stands for owner_run_id *)
(* and, through PidOf, for owner_pid.  aged abstracts the clock: it says   *)
(* that now - updated_at exceeds _STALE_TTL_S, and every write clears it.  *)
(*                                                                         *)
(* A definition marked Variant is a plausible mistake in the one that      *)
(* follows it: nothing uses it but the checks that a property notices it.  *)
(***************************************************************************)

CONSTANTS
  Run,      \* activities that publish rows: CLI runs, SDK and WebUI threads
  Pid,      \* operating-system process ids
  PidOf,    \* the pid an activity runs under; threads of a process share it
  NoRun     \* a row that nobody owns (owner_pid IS NULL)

ASSUME RunAssumption == PidOf \in [Run -> Pid] /\ NoRun \notin Run

State == {"absent", "attempting", "done", "failed", "uncertain"}

\* _TERMINAL: the states transition() leaves only when told to.
Terminal == {"done", "failed"}

Row == [state : State, owner : Run \cup {NoRun}, aged : BOOLEAN]

Absent == [state |-> "absent", owner |-> NoRun, aged |-> FALSE]

-----------------------------------------------------------------------------

\* Variant: no TTL backstop, only the pid decides.
IsStaleAttempting_PidOnly(row, up) ==
  /\ row.state = "attempting"
  /\ row.owner # NoRun /\ ~up[PidOf[row.owner]]

\* An attempting row whose owner's pid is gone, or that outlived the TTL.  A
\* pid that was reused looks alive: only the TTL catches that row.
IsStaleAttempting(row, up) ==
  /\ row.state = "attempting"
  /\ \/ row.owner # NoRun /\ ~up[PidOf[row.owner]]
     \/ row.aged

\* _claim: the row as the run that is about to dispatch leaves it.
Claim(w) == [state |-> "attempting", owner |-> w, aged |-> FALSE]

\* Variant: a stale claim is dispatched again without a force.
GateVerdict_RedispatchesStale(row, force, up) ==
  CASE row.state \in {"absent", "failed"} -> "dispatch"
    [] row.state = "done"       -> IF force THEN "conflict" ELSE "skip"
    [] row.state = "uncertain"  -> IF force THEN "dispatch" ELSE "hold"
    [] row.state = "attempting" -> IF IsStaleAttempting(row, up)
                                     THEN "dispatch" ELSE "hold"

\* Variant: a force publishes over a done row instead of conflicting.
GateVerdict_ForcesDone(row, force, up) ==
  CASE row.state \in {"absent", "failed"} -> "dispatch"
    [] row.state = "attempting" -> IF force /\ IsStaleAttempting(row, up)
                                     THEN "dispatch" ELSE "hold"
    [] OTHER -> IF force THEN "dispatch" ELSE "hold"

\* Variant: everything but a done row and a live claim is retried.
GateVerdict_RetriesHeld(row, force, up) ==
  CASE row.state \in {"absent", "failed", "uncertain"} -> "dispatch"
    [] row.state = "done"       -> IF force THEN "conflict" ELSE "skip"
    [] row.state = "attempting" -> IF force /\ IsStaleAttempting(row, up)
                                     THEN "dispatch" ELSE "hold"

\* gate_and_claim's verdict on the row it read.
GateVerdict(row, force, up) ==
  CASE row.state \in {"absent", "failed"} -> "dispatch"
    [] row.state = "done"       -> IF force THEN "conflict" ELSE "skip"
    [] row.state = "uncertain"  -> IF force THEN "dispatch" ELSE "hold"
    [] row.state = "attempting" -> IF force /\ IsStaleAttempting(row, up)
                                     THEN "dispatch" ELSE "hold"

\* Variant: reclaiming a row leaves the owner columns of its last claim.
GateRow_KeepsOwner(row, w, force, up) ==
  CASE GateVerdict(row, force, up) = "dispatch" /\ row.state = "absent" -> Claim(w)
    [] GateVerdict(row, force, up) = "dispatch" -> [row EXCEPT !.state = "attempting"]
    [] GateVerdict(row, force, up) = "hold" /\ IsStaleAttempting(row, up)
         -> [state |-> "uncertain", owner |-> NoRun, aged |-> FALSE]
    [] OTHER -> row

\* The row gate_and_claim commits: claimed when it dispatches, a stale claim
\* promoted to uncertain when it holds, untouched otherwise.
GateRow(row, w, force, up) ==
  CASE GateVerdict(row, force, up) = "dispatch" -> Claim(w)
    [] GateVerdict(row, force, up) = "hold" /\ IsStaleAttempting(row, up)
         -> [state |-> "uncertain", owner |-> NoRun, aged |-> FALSE]
    [] OTHER -> row

\* intent_write inserts a claim and only ever into an absent key.
IntentWon(row) == row.state = "absent"

IntentRow(row, w) == IF IntentWon(row) THEN Claim(w) ELSE row

\* Variant: terminal states are left as easily as any other.
CanTransition_FromTerminal(row, allow_from_terminal, expect_from) ==
  row.state # "absent" /\ row.state \in expect_from

\* transition: raises unless the row exists, is in a state the caller expects
\* and, when terminal, the caller asked to leave a terminal state.
CanTransition(row, allow_from_terminal, expect_from) ==
  /\ row.state # "absent"
  /\ row.state \in expect_from
  /\ row.state \in Terminal => allow_from_terminal

TransitionRow(row, to_state) == [row EXCEPT !.state = to_state, !.aged = FALSE]

=============================================================================
