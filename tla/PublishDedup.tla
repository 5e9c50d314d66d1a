----------------------------- MODULE PublishDedup -----------------------------
(***************************************************************************)
(* Publishing one backlink at most once.  Concurrent runs (CLI processes,  *)
(* resumed runs, in-process SDK and WebUI threads) pass each row through   *)
(* the gate of cli/_dedup_gate.py, dispatch it to a platform and settle    *)
(* the row of the dedup store with the outcome; operators adjudicate,      *)
(* force and forget; processes die and pids are reused.                    *)
(*                                                                         *)
(* A dispatch is four steps that other runs interleave with: the gate (one *)
(* transaction), the post landing on the platform, the answer reaching the *)
(* run, and _record_terminal, which reads the row in one transaction and   *)
(* writes it in another.                                                   *)
(*                                                                         *)
(* posts, clean and overrides are history variables: what the platform     *)
(* really holds, whether a key is still inside the contract of enforce     *)
(* mode, and how often an operator overrode the store.                     *)
(***************************************************************************)
EXTENDS DedupStore, FiniteSets, Naturals

CONSTANTS
  Key,           \* DedupKeys: (platform, account, target_url)
  NoKey,         \* an idle run works on no key
  Observing,     \* the runs without BACKLINK_PUBLISHER_DEDUP_ENFORCE=1
  MaxPosts,      \* bound on the posts of a key the model counts
  Overrides,     \* the overrides operators use, of "force" and "forget"
  MaxOverrides   \* bound on the overrides of a key

ASSUME KeyAssumption == NoKey \notin Key
ASSUME FiniteAssumption == IsFiniteSet(Run)
ASSUME ModeAssumption == Observing \subseteq Run
ASSUME OverrideAssumption == Overrides \subseteq {"force", "forget"}
ASSUME BoundAssumption == MaxPosts \in Nat /\ MaxOverrides \in Nat

VARIABLES
  row,        \* the dedup store: a row for each key
  up,         \* is there a live process with this pid?
  job,        \* what each run is doing
  posts,      \* posts on the platform for each key
  clean,      \* nothing outside the contract happened to the key
  overrides   \* forces and forgets that overrode a recorded state

vars == <<row, up, job, posts, clean, overrides>>

\* http_5xx may have committed server-side; other stands for every class that
\* terminal_for_error_class calls confirmed not landed.
ErrorClass == {"http_5xx", "other"}

\* Variant: a 5xx is retried like any other failure.
TerminalForErrorClass_Retries(error_class) == "failed"

\* Variant: a class without a mapping is stored as the state.
TerminalForErrorClass_Verbatim(error_class) ==
  IF error_class = "http_5xx" THEN "uncertain" ELSE error_class

TerminalForErrorClass(error_class) ==
  IF error_class = "http_5xx" THEN "uncertain" ELSE "failed"

\* idle, in the adapter, about to read the row, about to write it.
Phase == {"idle", "dispatch", "settle", "write"}

\* sent: this dispatch's post landed.  to: the state to record, as soon as the
\* adapter has answered.  allow: allow_from_terminal, as soon as the row is read.
Job == [phase : Phase, key : Key \cup {NoKey}, sent : BOOLEAN,
        to : State, allow : BOOLEAN]

Idle == [phase |-> "idle", key |-> NoKey, sent |-> FALSE,
         to |-> "absent", allow |-> FALSE]

Dispatching(k) == [Idle EXCEPT !.phase = "dispatch", !.key = k]

Init ==
  /\ row = [k \in Key |-> Absent]
  /\ up = [p \in Pid |-> TRUE]
  /\ job = [w \in Run |-> Idle]
  /\ posts = [k \in Key |-> 0]
  /\ clean = [k \in Key |-> TRUE]
  /\ overrides = [k \in Key |-> 0]

-----------------------------------------------------------------------------
(***************************************************************************)
(* The gate.                                                               *)
(***************************************************************************)

CanStart(w) == job[w].phase = "idle" /\ up[PidOf[w]]

\* A force that publishes a key which would have been held.
Overriding(k, force) ==
  /\ force
  /\ row[k].state \in {"uncertain", "attempting"}
  /\ GateVerdict(row[k], force, up) = "dispatch"

\* gate() in enforce mode: read, decide and claim in one transaction.
GateEnforce(w, k, force) ==
  /\ w \notin Observing
  /\ CanStart(w)
  /\ force => "force" \in Overrides
  /\ Overriding(k, force) => overrides[k] < MaxOverrides
  /\ row' = [row EXCEPT ![k] = GateRow(@, w, force, up)]
  /\ job' = IF GateVerdict(row[k], force, up) = "dispatch"
              THEN [job EXCEPT ![w] = Dispatching(k)] ELSE job
  /\ overrides' = [overrides EXCEPT ![k] =
                     IF Overriding(k, force) THEN @ + 1 ELSE @]
  /\ UNCHANGED <<up, posts, clean>>

\* gate() in observe mode: record the intent if the key is absent, dispatch
\* whatever the store says.
GateObserve(w, k) ==
  /\ w \in Observing
  /\ CanStart(w)
  /\ row' = [row EXCEPT ![k] = IntentRow(@, w)]
  /\ job' = [job EXCEPT ![w] = Dispatching(k)]
  /\ clean' = [clean EXCEPT ![k] = @ /\ IntentWon(row[k])]
  /\ UNCHANGED <<up, posts, overrides>>

\* Variant: a store error dispatches in both modes.
GateFaultVerdict_FailsOpen(w) == "dispatch"

\* The verdict when the store cannot be read: enforce fails closed.
GateFaultVerdict(w) == IF w \in Observing THEN "dispatch" ELSE "hold"

\* The store raises in the gate: no row is written.
GateFault(w, k) ==
  /\ CanStart(w)
  /\ GateFaultVerdict(w) = "dispatch"
  /\ job' = [job EXCEPT ![w] = Dispatching(k)]
  /\ clean' = [clean EXCEPT ![k] = @ /\ w \notin Observing]
  /\ UNCHANGED <<row, up, posts, overrides>>

-----------------------------------------------------------------------------
(***************************************************************************)
(* The dispatch and its outcome.                                           *)
(***************************************************************************)

\* The platform creates the post, whatever the run will learn of it.
Land(w) ==
  LET k == job[w].key IN
  /\ job[w].phase = "dispatch" /\ ~job[w].sent
  /\ posts[k] < MaxPosts
  /\ posts' = [posts EXCEPT ![k] = @ + 1]
  /\ job' = [job EXCEPT ![w] = [@ EXCEPT !.sent = TRUE]]
  /\ UNCHANGED <<row, up, clean, overrides>>

\* The adapter returns a result without an error.
Succeed(w) ==
  /\ job[w].phase = "dispatch" /\ job[w].sent
  /\ job' = [job EXCEPT ![w] = [@ EXCEPT !.phase = "settle", !.to = "done"]]
  /\ UNCHANGED <<row, up, posts, clean, overrides>>

\* The adapter raises, or returns a result with an error.  An error of a class
\* that counts as confirmed not landed, after the post landed, is outside the
\* contract: the code cannot see it.
Fail(w, error_class) ==
  LET k == job[w].key IN
  /\ job[w].phase = "dispatch"
  /\ job' = [job EXCEPT ![w] = [@ EXCEPT !.phase = "settle",
                                         !.to = TerminalForErrorClass(error_class)]]
  /\ clean' = [clean EXCEPT ![k] = @ /\ (job[w].sent => error_class = "http_5xx")]
  /\ UNCHANGED <<row, up, posts, overrides>>

\* _record_terminal returns without writing on these rows.
SettleIsNoop(r, to) ==
  \/ r.state \in {"absent", "done"}
  \/ r.state = "uncertain" /\ to = "failed"
  \/ r.state = "failed" /\ to # "done"

\* _record_terminal, its store.get.
SettleRead(w) ==
  LET r == row[job[w].key] IN
  /\ job[w].phase = "settle"
  /\ job' = [job EXCEPT ![w] =
               IF SettleIsNoop(r, @.to) THEN Idle
               ELSE [@ EXCEPT !.phase = "write", !.allow = r.state = "failed"]]
  /\ UNCHANGED <<row, up, posts, clean, overrides>>

\* _record_terminal, its store.transition; what it raises is swallowed.
SettleWrite(w) ==
  LET k == job[w].key IN
  /\ job[w].phase = "write"
  /\ row' = [row EXCEPT ![k] =
               IF CanTransition(@, job[w].allow, State)
                 THEN TransitionRow(@, job[w].to) ELSE @]
  /\ job' = [job EXCEPT ![w] = Idle]
  /\ UNCHANGED <<up, posts, clean, overrides>>

\* The run drops the row without settling it: the store raises in
\* _record_terminal, or an exception escapes between the gate and the settle
\* (the audit append of a force, the post-publish verification).
Abandon(w) ==
  /\ job[w].phase # "idle"
  /\ job' = [job EXCEPT ![w] = Idle]
  /\ UNCHANGED <<row, up, posts, clean, overrides>>

-----------------------------------------------------------------------------
(***************************************************************************)
(* Processes and time.                                                     *)
(***************************************************************************)

\* A process dies: every run in it stops where it was.
Crash(p) ==
  /\ up[p]
  /\ up' = [up EXCEPT ![p] = FALSE]
  /\ job' = [w \in Run |-> IF PidOf[w] = p THEN Idle ELSE job[w]]
  /\ UNCHANGED <<row, posts, clean, overrides>>

\* The pid is in use again, by a new run or by an unrelated process.
Restart(p) ==
  /\ ~up[p]
  /\ up' = [up EXCEPT ![p] = TRUE]
  /\ UNCHANGED <<row, job, posts, clean, overrides>>

\* The run that claimed the row of k is still dispatching it.
OwnerInFlight(k) == row[k].owner # NoRun /\ job[row[k].owner].key = k

\* _STALE_TTL_S passes without a write to the row.  A dispatch that runs that
\* long breaks the assumption the TTL rests on ("no single dispatch runs that
\* long"), and the contract.
Age(k) ==
  /\ row[k].state = "attempting" /\ ~row[k].aged
  /\ row' = [row EXCEPT ![k] = [@ EXCEPT !.aged = TRUE]]
  /\ clean' = [clean EXCEPT ![k] = @ /\ ~OwnerInFlight(k)]
  /\ UNCHANGED <<up, job, posts, overrides>>

-----------------------------------------------------------------------------
(***************************************************************************)
(* Operators.                                                              *)
(***************************************************************************)

\* --forget deletes the row in any state, a live claim's included.
Forget(k) ==
  /\ row[k].state # "absent"
  /\ "forget" \in Overrides /\ overrides[k] < MaxOverrides
  /\ row' = [row EXCEPT ![k] = Absent]
  /\ overrides' = [overrides EXCEPT ![k] = @ + 1]
  /\ UNCHANGED <<up, job, posts, clean>>

\* _TO_STATE, what --to OUTCOME records.
Outcome == {"succeeded", "failed"}

\* Variant: the two outcomes are swapped.
ToState_Swapped(outcome) == IF outcome = "succeeded" THEN "failed" ELSE "done"

ToState(outcome) == IF outcome = "succeeded" THEN "done" ELSE "failed"

\* --adjudicate-uncertain and its bulk form: one guarded transition per row.
\* An operator who is wrong about the platform takes the key out of contract.
Adjudicate(k, outcome) ==
  /\ CanTransition(row[k], FALSE, {"uncertain"})
  /\ row' = [row EXCEPT ![k] = TransitionRow(@, ToState(outcome))]
  /\ clean' = [clean EXCEPT ![k] = @ /\ (outcome = "succeeded" <=> posts[k] > 0)]
  /\ UNCHANGED <<up, job, posts, overrides>>

-----------------------------------------------------------------------------

RunStep(w) ==
  \/ \E k \in Key : \/ \E force \in BOOLEAN : GateEnforce(w, k, force)
                    \/ GateObserve(w, k)
                    \/ GateFault(w, k)
  \/ Land(w) \/ Succeed(w)
  \/ \E error_class \in ErrorClass : Fail(w, error_class)
  \/ SettleRead(w) \/ SettleWrite(w) \/ Abandon(w)

ProcessStep(p) == Crash(p) \/ Restart(p)

OperatorStep(k) == Forget(k) \/ \E outcome \in Outcome : Adjudicate(k, outcome)

Next ==
  \/ \E w \in Run : RunStep(w)
  \/ \E p \in Pid : ProcessStep(p)
  \/ \E k \in Key : OperatorStep(k) \/ Age(k)

Spec == Init /\ [][Next]_vars

\* An adapter call returns (its requests time out) and its outcome is settled,
\* time passes, pids come back, and enforce runs of a key keep being started,
\* as cron does: the last is strong fairness because a start competes with
\* crashes.  Nothing is assumed of crashes, abandoned rows and operators.
Fairness ==
  /\ \A w \in Run :
       /\ WF_vars(Succeed(w) \/ \E error_class \in ErrorClass : Fail(w, error_class))
       /\ WF_vars(SettleRead(w) \/ SettleWrite(w))
  /\ \A p \in Pid : WF_vars(Restart(p))
  /\ \A k \in Key :
       /\ WF_vars(Age(k))
       /\ SF_vars(\E w \in Run : GateEnforce(w, k, FALSE))

FairSpec == Spec /\ Fairness

-----------------------------------------------------------------------------

(***************************************************************************)
(* Properties.                                                             *)
(***************************************************************************)

\* The variables keep their types: in particular every state written to the
\* store is one that gate_and_claim and transition know.
TypeOK ==
  /\ row \in [Key -> Row]
  /\ up \in [Pid -> BOOLEAN]
  /\ job \in [Run -> Job]
  /\ posts \in [Key -> 0..MaxPosts]
  /\ clean \in [Key -> BOOLEAN]
  /\ overrides \in [Key -> 0..MaxOverrides]

InContract(k) == clean[k] /\ overrides[k] = 0

\* The purpose of gate_and_claim and _record_terminal together: in contract, a
\* key is posted at most once, plus once for every override of an operator,
\* whatever runs crash, race or settle late.
AtMostOnePost ==
  \A k \in Key : clean[k] => posts[k] <= 1 + overrides[k]

\* The states from which gate() dispatches by itself, absent and failed, are
\* never those of a key whose post is live.
RepublishableIsNotLive ==
  \A k \in Key : InContract(k) /\ row[k].state \in {"absent", "failed"} => posts[k] = 0

\* A key the gate skips as already published really is, however late, and by
\* which run, its row was settled.
DoneIsLive ==
  \A k \in Key : clean[k] /\ row[k].state = "done" => posts[k] > 0

\* gate_and_claim is single-flight: in contract, a run that is dispatching or
\* settling a key is the run that owns its attempting row.
SingleFlight ==
  \A k \in Key : InContract(k) =>
    \A w \in Run : job[w].key = k => row[k].state = "attempting" /\ row[k].owner = w

\* "done" is immutable: neither a force, nor a late settle of another run, nor
\* an adjudication takes a key out of it; only --forget does.
DoneIsFinal ==
  [][\A k \in Key : row[k].state = "done" =>
       row'[k].state = "done" \/ (row'[k] = Absent /\ overrides'[k] = overrides[k] + 1)]_vars

\* A held key stays held: in contract, an uncertain row leaves that state only
\* by an adjudication.
HeldUntilAdjudicated ==
  [][\A k \in Key : row[k].state = "uncertain" /\ clean'[k] /\ overrides'[k] = 0 =>
       row'[k].state = "uncertain" \/ \E outcome \in Outcome : Adjudicate(k, outcome)]_vars

\* No claim is held for ever: when its run died, or dropped the row and lives
\* on, or its pid was reused, the row is still settled or held for an operator.
ClaimsEnd ==
  \A k \in Key : row[k].state = "attempting" ~> row[k].state # "attempting"

-----------------------------------------------------------------------------
(***************************************************************************)
(* PublishDedup implements PublishBudget.  A permit to post is held by a   *)
(* run whose dispatch may still land or fail, by a row the gate would      *)
(* dispatch, and by a key with no live post that is held, or claimed by    *)
(* nobody in flight, and may still be adjudicated as failed.               *)
(***************************************************************************)

MayPost(k) ==
  {w \in Run : job[w].key = k /\ ~job[w].sent /\ job[w].to # "done"}

Reopenable(k) ==
  \/ row[k].state \in {"absent", "failed"}
  \/ row[k].state = "uncertain" /\ posts[k] = 0
  \/ row[k].state = "attempting" /\ posts[k] = 0 /\ ~OwnerInFlight(k)

Permits(k) == Cardinality(MayPost(k)) + (IF Reopenable(k) THEN 1 ELSE 0)

Budget == INSTANCE PublishBudget
            WITH permits <- [k \in Key |-> Permits(k)],
                 posted  <- posts,
                 granted <- overrides,
                 void    <- [k \in Key |-> ~clean[k]]

\* Every step of the system spends, loses or is granted permits as
\* PublishBudget allows.
ImplementsBudget == Budget!Spec

\* A run in flight lives and has a key, its outcome is a state to record, and it
\* leaves a terminal state only for done.
PhaseOK(w) ==
  /\ job[w].phase = "idle" <=> job[w].key = NoKey
  /\ job[w].phase # "idle" => up[PidOf[w]]
  /\ job[w].phase \in {"idle", "dispatch"} => job[w].to = "absent"
  /\ job[w].phase \in {"settle", "write"} => job[w].to \in {"done", "failed", "uncertain"}
  /\ job[w].phase = "write" /\ job[w].allow => job[w].to = "done"

\* It records done only for a post that landed and, in contract, failed only
\* for one that did not.
OutcomeOK(w) ==
  /\ job[w].to = "done" => job[w].sent
  /\ job[w].sent => job[w].key # NoKey /\ posts[job[w].key] > 0
  /\ job[w].to = "failed" /\ clean[job[w].key] => ~job[w].sent

\* In contract, a claim that aged has no run in flight.
ClaimOK(k) ==
  clean[k] /\ row[k].state = "attempting" /\ row[k].aged => ~OwnerInFlight(k)

\* What the settle of a run may rely on, however long it was in flight.
FlightInv ==
  /\ \A w \in Run : PhaseOK(w) /\ OutcomeOK(w)
  /\ \A k \in Key : ClaimOK(k)

\* The invariant behind AtMostOnePost: posts made and permits left never
\* exceed one plus the overrides.
BudgetInv ==
  \A k \in Key : clean[k] => posts[k] + Permits(k) <= 1 + overrides[k]

=============================================================================
