---------------------------- MODULE CircuitBreaker ----------------------------
(***************************************************************************)
(* The circuit breaker of the publish policy: the state file of            *)
(* publishing/reliability/circuit.py, the failure counter of               *)
(* health/persistence/locked_store.py, and the calls of                    *)
(* publish_with_policy (publishing/reliability/policy.py) that use them.   *)
(*                                                                         *)
(* is_tripped, is_degraded and circuit_status read the file without the    *)
(* lock.  A write takes the lock, reads the whole file, changes one entry  *)
(* and writes the file back.                                               *)
(*                                                                         *)
(* A worker is a thread or a process that publishes or shows the health    *)
(* page.  A call with the policy off passes the breaker by and is not      *)
(* modelled; the health gate of the browser platforms only skips calls.    *)
(***************************************************************************)
EXTENDS Integers

CONSTANTS
  Worker,
  NoWorker,         \* nobody holds the lock
  Platform,
  Enforced,         \* platforms that are enforced: the others are observed
  AuthThreshold,    \* expired sessions in a row that trip the circuit
  ErrorThreshold,   \* external errors in a row that trip the circuit
  Faults            \* what may go wrong: see Fault

\* What the state file may hold instead of an object: no JSON at all, JSON that is not
\* an object, or bytes that are not UTF-8.  A file that cannot be opened counts as garbled.
Damage == {"garbled", "foreign", "undecodable"}

Fault == {"crash", "timeout", "health", "events", "reset"} \cup Damage

ASSUME WorkerAssumption == NoWorker \notin Worker
ASSUME PlatformAssumption == Platform # {} /\ Enforced \subseteq Platform
ASSUME ThresholdAssumption == AuthThreshold \in Nat \ {0} /\ ErrorThreshold \in Nat \ {0}
ASSUME FaultsAssumption == Faults \subseteq Fault

VARIABLES
  file,       \* the state file
  lock,       \* who holds the flock on the lock file
  failures,   \* consecutive_failures of each platform
  call,       \* the call of each worker
  alerts      \* history: what became of the alerts of each platform since it was reset

vars == <<file, lock, failures, call, alerts>>

\* ts tells whether tripped_at_iso is at least the cooldown ago.
Entry == [state : {"closed", "open", "half_open"}, tripped : BOOLEAN,
          ts : {"none", "fresh", "cooled"}]

\* Also what every reader takes a missing entry for.
Closed == [state |-> "closed", tripped |-> FALSE, ts |-> "none"]

NoEntries == [plat \in Platform |-> Closed]

\* entry is what a writer reads: nothing from a damaged file.
File == [form : {"ok"} \cup Damage, entry : [Platform -> Entry]]

\* A "degraded" decision was recorded; or one was called for that none was recorded of.
News == {"none", "recorded", "lost"}

PC == {"idle", "gate", "status", "dispatch", "count", "compare", "banned",
       "lock", "write", "reset", "alert"}

\* op: the write the call is about; half_open from open, renew from half_open.  snap: the entries read under the lock.
\* publishes: FALSE for the health page.
Call == [pc : PC, plat : Platform, publishes : BOOLEAN, limit : Nat, alert : BOOLEAN,
         op : {"none", "half_open", "renew", "success", "trip"}, snap : [Platform -> Entry]]

NewCall(plat, publishes) ==
  [pc |-> "gate", plat |-> plat, publishes |-> publishes, limit |-> 0,
   alert |-> FALSE, op |-> "none", snap |-> NoEntries]

Idle == [NewCall(CHOOSE plat \in Platform : TRUE, FALSE) EXCEPT !.pc = "idle"]

Init ==
  /\ file = [form |-> "ok", entry |-> NoEntries]
  /\ lock = NoWorker
  /\ failures = [plat \in Platform |-> 0]
  /\ call = [w \in Worker |-> Idle]
  /\ alerts = [plat \in Platform |-> "none"]

-----------------------------------------------------------------------------

\* _get_state: an unreadable file reads as a tripped circuit without a time.  On a
\* foreign one it raises an AttributeError that none of its callers handles.
Seen(plat) ==
  IF file.form = "ok" THEN file.entry[plat]
  ELSE [state |-> "open", tripped |-> TRUE, ts |-> "none"]

\* Variant: an unreadable file skips the publish as an open circuit does.
Status_FailsClosed(plat) ==
  LET e == Seen(plat) IN
  IF ~e.tripped THEN "closed"
  ELSE IF e.ts # "cooled" /\ e.state = "open" THEN "open" ELSE "half_open"

\* circuit_status.
Status(plat) ==
  LET e == file.entry[plat] IN
  IF file.form # "ok" \/ (e.tripped /\ e.ts = "none") THEN "unreadable"
  ELSE IF ~e.tripped THEN "closed"
  ELSE IF e.ts = "fresh" /\ e.state = "open" THEN "open" ELSE "half_open"

\* The call goes on at pc; at "idle" it is over.
Goto(w, pc) ==
  call' = [call EXCEPT ![w] = IF pc = "idle" THEN Idle ELSE [@ EXCEPT !.pc = pc]]

\* The call asks for the lock to write what op says.
Ask(w, op, alert) ==
  call' = [call EXCEPT ![w] = [@ EXCEPT !.pc = "lock", !.op = op, !.alert = alert]]

\* The circuit lets the call pass: the health page only wanted to know.
Pass(w) == IF call[w].publishes THEN "dispatch" ELSE "idle"

\* is_tripped: an open circuit only stops a call on an enforced platform, after the
\* second read of circuit_status.
Tripped(w) == IF call[w].publishes /\ call[w].plat \in Enforced THEN "status" ELSE Pass(w)

\* What is lost of the alerts of plat.
Lost(plat) == [alerts EXCEPT ![plat] = IF @ = "none" THEN "lost" ELSE @]

Begin(w, plat, publishes) ==
  /\ call[w].pc = "idle"
  /\ call' = [call EXCEPT ![w] = NewCall(plat, publishes)]
  /\ UNCHANGED <<file, lock, failures, alerts>>

\* The cooldown is over: the circuit is to become half open (again).
CooledDown(e) == e.state \in {"open", "half_open"} /\ e.ts = "cooled"

\* is_tripped, from the read to the decision.
Gate(w) ==
  LET e == Seen(call[w].plat) IN
  /\ call[w].pc = "gate"
  /\ IF file.form = "foreign" THEN Goto(w, "idle")
     ELSE IF CooledDown(e) THEN Ask(w, IF e.state = "open" THEN "half_open" ELSE "renew", FALSE)
     ELSE Goto(w, IF e.state = "open" THEN Tripped(w) ELSE Pass(w))
  /\ UNCHANGED <<file, lock, failures, alerts>>

\* _enforce_circuit_skip: only a genuine open circuit skips the publish.
EnforceSkip(w) ==
  /\ call[w].pc = "status"
  /\ Goto(w, IF Status(call[w].plat) = "open" THEN "idle" ELSE "dispatch")
  /\ UNCHANGED <<file, lock, failures, alerts>>

\* adapter_publish returns, or raises what publish_with_policy tells apart.
Answer(w) ==
  /\ call[w].pc = "dispatch"
  /\ \/ Ask(w, "success", FALSE)
     \/ Goto(w, "banned")
     \/ \E limit \in {AuthThreshold, ErrorThreshold} :
          call' = [call EXCEPT ![w] = [@ EXCEPT !.pc = "count", !.limit = limit]]
     \/ Goto(w, "idle")   \* any other exception
  /\ UNCHANGED <<file, lock, failures, alerts>>

\* Variant: the test comes after the trip, and always finds a degraded channel.
NewlyDegraded_AfterTrip(plat) == FALSE

\* not is_degraded, read before the trip.
NewlyDegraded(plat) == ~Seen(plat).tripped

\* A ban trips the circuit at once, and alerts on entering the degraded state.  A
\* file that cannot be read reports every platform degraded: there is no alert.
Banned(w) ==
  /\ call[w].pc = "banned"
  /\ IF file.form = "foreign" THEN Goto(w, "idle")
     ELSE Ask(w, "trip", NewlyDegraded(call[w].plat))
  /\ alerts' = IF file.form = "ok" THEN alerts ELSE Lost(call[w].plat)
  /\ UNCHANGED <<file, lock, failures>>

\* The counter is only compared with the thresholds: it stops at the larger one.
Saturation == IF AuthThreshold > ErrorThreshold THEN AuthThreshold ELSE ErrorThreshold

\* _record_failure_and_maybe_trip, the locked update.  A health store that
\* fails is ignored.
Count(w, fails) ==
  LET plat == call[w].plat IN
  /\ call[w].pc = "count"
  /\ fails => "health" \in Faults
  /\ failures' = IF fails \/ failures[plat] = Saturation THEN failures
                 ELSE [failures EXCEPT ![plat] = @ + 1]
  /\ Goto(w, IF fails THEN "idle" ELSE "compare")
  /\ UNCHANGED <<file, lock, alerts>>

\* The counter, read again without the lock, reached the threshold.
Reached(w) == failures[call[w].plat] >= call[w].limit

\* A counter that cannot be read counts as 0.
Compare(w, fails) ==
  /\ call[w].pc = "compare"
  /\ fails => "health" \in Faults
  /\ IF Reached(w) /\ ~fails THEN Ask(w, "trip", TRUE) ELSE Goto(w, "idle")
  /\ UNCHANGED <<file, lock, failures, alerts>>

\* Variant: the writes do without the lock.
MayLock_Lockless(w) == TRUE

MayLock(w) == lock = NoWorker

\* _acquire_lock and _read_state_unsafe.  A garbled file is taken for an empty one.
Lock(w) ==
  /\ call[w].pc = "lock" /\ MayLock(w) /\ file.form \in {"ok", "garbled"}
  /\ lock' = w
  /\ call' = [call EXCEPT ![w] = [@ EXCEPT !.pc = "write", !.snap = file.entry]]
  /\ UNCHANGED <<file, failures, alerts>>

\* The read or the change of what was read raises (a UnicodeDecodeError, a TypeError or
\* an AttributeError), the lock is given back and nothing is written.  is_tripped passes
\* over the error and returns what it found; elsewhere it ends the call.
WriteRaises(w) ==
  /\ call[w].pc = "lock" /\ MayLock(w) /\ file.form \in {"foreign", "undecodable"}
  /\ Goto(w, CASE call[w].op = "half_open" -> Tripped(w)
               [] call[w].op = "renew" -> Pass(w)
               [] OTHER -> "idle")
  /\ UNCHANGED <<file, lock, failures, alerts>>

\* The lock is held for more than 60 s: ExternalServiceError.  After a success
\* it is raised inside the try of the dispatch, and handled as an error of the
\* platform; elsewhere it ends the call.
LockTimeout(w) ==
  /\ "timeout" \in Faults
  /\ call[w].pc = "lock" /\ lock # NoWorker
  /\ IF call[w].op = "success"
       THEN call' = [call EXCEPT ![w] = [@ EXCEPT !.pc = "count", !.op = "none",
                                                  !.limit = ErrorThreshold]]
       ELSE Goto(w, "idle")
  /\ UNCHANGED <<file, lock, failures, alerts>>

\* The entry that record_success, trip or _transition_to_half_open writes: a
\* success leaves tripped and tripped_at_iso as they are.
Written(op, e) ==
  IF op = "success" THEN [e EXCEPT !.state = "closed"]
  ELSE [state |-> IF op = "trip" THEN "open" ELSE "half_open",
        tripped |-> TRUE, ts |-> "fresh"]

Probes(w) == call[w].op \in {"half_open", "renew"}

\* _write_state_unsafe and _release_lock.
Write(w) ==
  LET plat == call[w].plat
      snap == call[w].snap IN
  /\ call[w].pc = "write"
  /\ file' = [form |-> "ok",
              entry |-> [snap EXCEPT ![plat] = Written(call[w].op, @)]]
  /\ lock' = NoWorker
  /\ IF Probes(w) /\ ~call[w].publishes
       THEN Goto(w, "idle")
       ELSE call' = [call EXCEPT ![w] =
              [@ EXCEPT !.pc = IF Probes(w) THEN "dispatch" ELSE "reset",
                        !.op = "none", !.snap = NoEntries]]
  /\ UNCHANGED <<failures, alerts>>

\* _reset_failures, best effort.
ResetFailures(w, fails) ==
  /\ call[w].pc = "reset"
  /\ fails => "health" \in Faults
  /\ failures' = IF fails THEN failures ELSE [failures EXCEPT ![call[w].plat] = 0]
  /\ Goto(w, IF call[w].alert THEN "alert" ELSE "idle")
  /\ UNCHANGED <<file, lock, alerts>>

\* _record_decision "degraded", best effort.
RecordDegraded(w, fails) ==
  /\ call[w].pc = "alert"
  /\ fails => "events" \in Faults
  /\ alerts' = IF fails THEN Lost(call[w].plat)
               ELSE [alerts EXCEPT ![call[w].plat] = "recorded"]
  /\ Goto(w, "idle")
  /\ UNCHANGED <<file, lock, failures>>

\* The call tripped the circuit and is yet to alert.
Alerting(w) == call[w].alert /\ call[w].pc \in {"reset", "alert"}

\* The process dies; the kernel gives its flock back.
Crash(w) ==
  /\ "crash" \in Faults /\ call[w].pc # "idle"
  /\ lock' = IF lock = w THEN NoWorker ELSE lock
  /\ alerts' = IF Alerting(w) THEN Lost(call[w].plat) ELSE alerts
  /\ Goto(w, "idle")
  /\ UNCHANGED <<file, failures>>

Aged(e) == [e EXCEPT !.ts = IF @ = "fresh" THEN "cooled" ELSE @]

\* The cooldown passes since tripped_at_iso, wherever the entry was copied to.
Cool(plat) ==
  /\ file' = [file EXCEPT !.entry[plat] = Aged(@)]
  /\ call' = [w \in Worker |-> [call[w] EXCEPT !.snap[plat] = Aged(@)]]
  /\ \/ file.entry[plat].ts = "fresh"
     \/ \E w \in Worker : call[w].snap[plat].ts = "fresh"
  /\ UNCHANGED <<lock, failures, alerts>>

\* The call found plat tripped, waits for the lock to trip it or to make it half open,
\* and will not alert.
Silent(w, plat) ==
  /\ call[w].pc = "lock" /\ call[w].plat = plat
  /\ call[w].op # "success" /\ ~call[w].alert

\* The operator's reset_circuit; it raises as WriteRaises does.  The next trip is to be
\* alerted to: one that is under way and was decided before will not be.
ResetCircuit(plat) ==
  /\ "reset" \in Faults /\ lock = NoWorker /\ file.form \in {"ok", "garbled"}
  /\ file' = [form |-> "ok", entry |-> [file.entry EXCEPT ![plat] = Closed]]
  /\ alerts' = [alerts EXCEPT ![plat] = IF \E w \in Worker : Silent(w, plat) THEN "lost" ELSE "none"]
  /\ UNCHANGED <<lock, failures, call>>

\* Something damages the file.
Corrupt(form) ==
  /\ form \in Faults /\ file.form = "ok"
  /\ file' = [form |-> form, entry |-> NoEntries]
  /\ UNCHANGED <<lock, failures, call, alerts>>

Step(w) ==
  \/ Gate(w)
  \/ EnforceSkip(w)
  \/ Answer(w)
  \/ Banned(w)
  \/ \E fails \in BOOLEAN : \/ Count(w, fails) \/ Compare(w, fails)
                            \/ ResetFailures(w, fails) \/ RecordDegraded(w, fails)
  \/ Lock(w)
  \/ WriteRaises(w)
  \/ LockTimeout(w)
  \/ Write(w)

Next ==
  \/ \E w \in Worker, plat \in Platform, publishes \in BOOLEAN : Begin(w, plat, publishes)
  \/ \E w \in Worker : Step(w) \/ Crash(w)
  \/ \E plat \in Platform : Cool(plat) \/ ResetCircuit(plat)
  \/ \E form \in Damage : Corrupt(form)

Spec == Init /\ [][Next]_vars

\* A worker goes on with its call and gets the lock it polls for (the jitter of
\* _acquire_lock is there for that), time passes, and every platform is published
\* to again and again.
Fairness ==
  /\ \A w \in Worker : WF_vars(Step(w)) /\ SF_vars(Lock(w))
  /\ \A plat \in Platform : WF_vars(Cool(plat))
  /\ \A w \in Worker, plat \in Platform : SF_vars(Begin(w, plat, TRUE))

FairSpec == Spec /\ Fairness

-----------------------------------------------------------------------------

\* Types; and the lock is held exactly by the call between its read and its
\* write (flock across the read-modify-write).
TypeOK ==
  /\ file \in File
  /\ lock \in Worker \cup {NoWorker}
  /\ failures \in [Platform -> 0..Saturation]
  /\ call \in [Worker -> Call]
  /\ alerts \in [Platform -> News]
  /\ \A w \in Worker : (call[w].pc = "write") <=> (lock = w)

\* "flock-across-RMW": the call that writes the file for one platform leaves the
\* entries of all the others as they are in the file at that moment, so that no
\* trip of another platform is lost.
OthersKept ==
  [][\A w \in Worker : call[w].pc = "write" /\ call'[w].pc # "write" /\ file.form = "ok" =>
       \A plat \in Platform \ {call[w].plat} : file'.entry[plat] = file.entry[plat]]_vars

Circuits ==
  INSTANCE AtomicCircuits WITH circuit <- file.entry, damaged <- file.form # "ok"

\* The locked read-modify-write is atomic: the file changes one circuit at a time, from
\* what that circuit is in the file at that moment; and every circuit that is not
\* closed knows since when, so that its cooldown ends, also after a call that
\* read a damaged file, or was about to write when it was damaged, has written it anew.
ImplementsCircuits == Circuits!Spec

\* publish_with_policy alerts "on entering degraded, not on every re-dispatch": a
\* circuit that is tripped was alerted to since the operator last reset it, whatever
\* bans, threshold trips and cooldowns of the same platform overlap.  Alerts are lost
\* in four ways only: a ban read a damaged file, events.db failed, the process died
\* before it recorded the decision, or the reset came while a call that had found the
\* circuit tripped waited for the lock.
TrippedMeansAlerted ==
  \A plat \in Platform : file.entry[plat].tripped =>
    alerts[plat] # "none" \/ \E w \in Worker : Alerting(w) /\ call[w].plat = plat

\* is_tripped recovers by the cooldown alone: no circuit keeps the traffic away for
\* good, whatever the calls and the file went through.  There are two exceptions: waiting
\* for the lock of the file times out again and again for ever, or the file is found to
\* hold JSON that is no object, for ever or again and again.
ChannelRecovers ==
  <>[][\A w \in Worker : ~LockTimeout(w)]_vars =>
    \A plat \in Platform :
      \/ []<>(\E w \in Worker : call[w].plat = plat /\ call[w].pc = "dispatch")
      \/ []<>(file.form = "foreign")

=============================================================================
