----------------------------- MODULE PublishLease -----------------------------
(***************************************************************************)
(* The per-platform leases that keep two publish processes off the same    *)
(* platform: EventStore.acquire_lease and release_lease (events/store.py)  *)
(* and the runs that call them: those of the CLI, with                     *)
(* _acquire_publish_leases and its atexit release (cli/_publish_helpers),  *)
(* and those of the WebUI's process, one at a time under _PUBLISH_LOCK,    *)
(* with _PublishLeaseGuard (sdk/_publish_runtime.py).                      *)
(*                                                                         *)
(* acquire_lease selects the row of a platform and then inserts or updates *)
(* it.  The connection is a deferred one: the select is a transaction of   *)
(* its own, and another process may write between the two.                 *)
(*                                                                         *)
(* A process is identified by its pid.  The field lost of a process is a   *)
(* history variable: the leases it thinks it holds and may not hold any    *)
(* more, because they expired or because of the race above.                *)
(***************************************************************************)
EXTENDS Integers

CONSTANTS
  Proc,       \* pids
  Platform,   \* platforms, as integers: sorted() orders them
  NoProc,     \* a platform without a lease row
  MaxRuns,    \* bound on the publish runs that are started
  Faults      \* kills, pids that are reused and releases that fail occur

ASSUME ProcAssumption == NoProc \notin Proc
ASSUME PlatformAssumption == Platform \subseteq Int
ASSUME RunsAssumption == MaxRuns \in Nat
ASSUME FaultsAssumption == Faults \in BOOLEAN

VARIABLES
  lease,      \* the row of each platform: its owner, and whether it expired
  proc,       \* what each pid is doing
  runs,       \* publish runs started so far
  published   \* some run got all of its leases

vars == <<lease, proc, runs, published>>

Lease == [owner : Proc \cup {NoProc}, expired : BOOLEAN]

NoLease == [owner |-> NoProc, expired |-> FALSE]

\* down: no process has the pid.  up: a process has it that does not publish,
\* the WebUI's or an unrelated one.  The others are the steps of a publish run.
Phase == {"down", "up", "select", "write", "refused", "publish", "exit"}

\* seen: the row the last select returned.  acquired: as in the code, the
\* platforms whose acquire_lease returned True.
Process == [phase : Phase, wants : SUBSET Platform, acquired : SUBSET Platform,
            lost : SUBSET Platform, seen : Lease]

Down == [phase |-> "down", wants |-> {}, acquired |-> {}, lost |-> {}, seen |-> NoLease]

Init ==
  /\ lease = [plat \in Platform |-> NoLease]
  /\ proc = [p \in Proc |-> Down]
  /\ runs = 0
  /\ published = FALSE

-----------------------------------------------------------------------------

\* _pid_alive: an unrelated process with the pid looks alive too.
PidAlive(p) == proc[p].phase # "down"

\* sorted(): plat comes first in S.
IsFirst(plat, S) == plat \in S /\ \A other \in S : plat <= other

Left(p) == proc[p].wants \ proc[p].acquired

\* Variant: the order of the set itself, which differs between processes.
AsksFor_SetOrder(p, plat) ==
  IF p = (CHOOSE q \in Proc : TRUE)
    THEN plat \in Left(p) /\ \A other \in Left(p) : plat >= other
    ELSE IsFirst(plat, Left(p))

\* The platform whose lease a run acquires next.
AsksFor(p, plat) == IsFirst(plat, Left(p))

\* The takeover ladder: the lease expired, is the caller's own, or its owner
\* is dead.
MayTakeOver(p, l) == l.expired \/ l.owner = p \/ ~PidAlive(l.owner)

\* How a process goes on after a publish run: it ends, or it lives on.
Resting(stays) == [Down EXCEPT !.phase = IF stays THEN "up" ELSE "down"]

\* A publish run starts, in a process of its own or in a living one.
Launch(p, wants) ==
  /\ proc[p].phase \in {"down", "up"}
  /\ runs < MaxRuns
  /\ proc' = [proc EXCEPT ![p] = [Down EXCEPT !.phase = "select", !.wants = wants]]
  /\ runs' = runs + 1
  /\ UNCHANGED <<lease, published>>

\* acquire_lease, its SELECT and the verdict on the row.
Select(p, plat) ==
  LET l == lease[plat] IN
  /\ proc[p].phase = "select" /\ AsksFor(p, plat)
  /\ proc' = [proc EXCEPT ![p] = [@ EXCEPT
                !.seen = l,
                !.phase = IF l.owner = NoProc \/ MayTakeOver(p, l) THEN "write" ELSE "refused"]]
  /\ UNCHANGED <<lease, runs, published>>

\* Variant: the first lease is enough.
WithLease_FirstIsEnough(p, plat) ==
  [proc[p] EXCEPT !.acquired = @ \cup {plat}, !.seen = NoLease, !.phase = "publish"]

\* acquire_lease returned True: the loop goes on, and with all the leases it
\* wants the run publishes.
WithLease(p, plat) ==
  LET acquired == proc[p].acquired \cup {plat} IN
  [proc[p] EXCEPT !.acquired = acquired, !.seen = NoLease,
                  !.phase = IF acquired = proc[p].wants THEN "publish" ELSE "select"]

\* acquire_lease, its INSERT.  On a row that another process inserted in the
\* meantime the primary key refuses it: IntegrityError is not retried, and the
\* run fails before the release of what it acquired was registered, or the
\* try of the guard's release was entered.
Insert(p, plat, stays) ==
  LET next == IF lease[plat].owner = NoProc THEN WithLease(p, plat) ELSE Resting(stays) IN
  /\ proc[p].phase = "write" /\ AsksFor(p, plat) /\ proc[p].seen.owner = NoProc
  /\ lease' = IF lease[plat].owner = NoProc
                THEN [lease EXCEPT ![plat] = [owner |-> p, expired |-> FALSE]]
                ELSE lease
  /\ proc' = [proc EXCEPT ![p] = next]
  /\ published' = (published \/ next.phase = "publish")
  /\ UNCHANGED runs

\* The process that loses the lease to the race when p overwrites the row: its
\* owner, when p may not take it over any more, or p when the row is gone.
Loser(p, plat) ==
  IF lease[plat].owner = NoProc THEN {p}
  ELSE IF MayTakeOver(p, lease[plat]) THEN {} ELSE {lease[plat].owner}

\* acquire_lease, its UPDATE: it names the platform only, overwrites whatever
\* row is there, and the result is True also when the row is gone.
Update(p, plat) ==
  LET next == [proc EXCEPT ![p] = WithLease(p, plat)] IN
  /\ proc[p].phase = "write" /\ AsksFor(p, plat) /\ proc[p].seen.owner # NoProc
  /\ lease' = [lease EXCEPT ![plat] =
                 IF @.owner # NoProc THEN [owner |-> p, expired |-> FALSE] ELSE @]
  /\ proc' = [q \in Proc |-> IF q \in Loser(p, plat)
                             THEN [next[q] EXCEPT !.lost = (@ \cup {plat}) \cap next[q].acquired]
                             ELSE next[q]]
  /\ published' = (published \/ next[p].phase = "publish")
  /\ UNCHANGED runs

\* The run is over: sys.exit, the end of main or an exception; atexit follows,
\* or the finally of the guard.
Finish(p) ==
  /\ proc[p].phase = "publish"
  /\ proc' = [proc EXCEPT ![p].phase = "exit"]
  /\ UNCHANGED <<lease, runs, published>>

\* Variant: the owner is not part of the DELETE.
ReleaseDeletes_AnyOwner(p, plat) == TRUE

\* release_lease deletes a row of the caller's only.
ReleaseDeletes(p, plat) == lease[plat].owner = p

\* _release_acquired_leases, one lease; fails: what release_lease raises is
\* logged, and the next lease is released.
Release(p, plat, fails) ==
  /\ fails => Faults
  /\ proc[p].phase \in {"refused", "exit"} /\ IsFirst(plat, proc[p].acquired)
  /\ lease' = [lease EXCEPT ![plat] =
                 IF ReleaseDeletes(p, plat) /\ ~fails THEN NoLease ELSE @]
  /\ proc' = [proc EXCEPT ![p].acquired = @ \ {plat}, ![p].lost = @ \ {plat}]
  /\ UNCHANGED <<runs, published>>

\* Nothing is left to release: exit 3 when refused.
Exit(p, stays) ==
  /\ proc[p].phase \in {"refused", "exit"} /\ proc[p].acquired = {}
  /\ proc' = [proc EXCEPT ![p] = Resting(stays)]
  /\ UNCHANGED <<lease, runs, published>>

\* The process is killed, which runs no atexit handler; or an unrelated process
\* ends.
Kill(p) ==
  /\ Faults /\ PidAlive(p)
  /\ proc' = [proc EXCEPT ![p] = Down]
  /\ UNCHANGED <<lease, runs, published>>

\* An unrelated process gets the pid.
Reuse(p) ==
  /\ Faults /\ proc[p].phase = "down"
  /\ proc' = [proc EXCEPT ![p].phase = "up"]
  /\ UNCHANGED <<lease, runs, published>>

\* ttl_seconds pass.  Nothing renews a lease: a run that takes longer may lose
\* it.
Expire(plat) ==
  LET owner == lease[plat].owner IN
  /\ owner # NoProc /\ ~lease[plat].expired
  /\ lease' = [lease EXCEPT ![plat].expired = TRUE]
  /\ proc' = [proc EXCEPT ![owner].lost =
                IF plat \in proc[owner].acquired THEN @ \cup {plat} ELSE @]
  /\ UNCHANGED <<runs, published>>

Step(p) ==
  \/ \E plat \in Platform :
       \/ Select(p, plat)
       \/ Update(p, plat)
       \/ \E stays \in BOOLEAN : Insert(p, plat, stays)
       \/ \E fails \in BOOLEAN : Release(p, plat, fails)
  \/ Finish(p)
  \/ \E stays \in BOOLEAN : Exit(p, stays)

Next ==
  \/ \E p \in Proc, wants \in (SUBSET Platform) \ {{}} : Launch(p, wants)
  \/ \E p \in Proc : Step(p)
  \/ \E p \in Proc : Kill(p) \/ Reuse(p)
  \/ \E plat \in Platform : Expire(plat)

Spec == Init /\ [][Next]_vars

\* The operating system lets every process go on.
Fairness == \A p \in Proc : WF_vars(Step(p))

FairSpec == Spec /\ Fairness

-----------------------------------------------------------------------------

\* Types; and a run publishes with the leases of all of its platforms, and only
\* of them (_acquire_publish_leases returns after the whole loop).
TypeOK ==
  /\ lease \in [Platform -> Lease]
  /\ proc \in [Proc -> Process]
  /\ runs \in 0..MaxRuns
  /\ published \in BOOLEAN
  /\ \A p \in Proc :
       /\ proc[p].lost \subseteq proc[p].acquired
       /\ proc[p].acquired \subseteq proc[p].wants
       /\ proc[p].phase = "publish" => proc[p].acquired = proc[p].wants
       /\ proc[p].phase \in {"select", "write"} => proc[p].acquired # proc[p].wants
       /\ proc[p].phase \in {"down", "up"} => proc[p].acquired = {}

\* A lease that a run acquired is its row until the run releases it, unless the
\* TTL passed or the race took it: no refusal, release, takeover or death of
\* another process removes it (release_lease names the owner; acquire_lease
\* overwrites only expired, own and dead rows).
HolderOwnsRow ==
  \A p \in Proc : \A plat \in proc[p].acquired \ proc[p].lost :
    lease[plat].owner = p /\ ~lease[plat].expired

\* The purpose of the leases: two runs publish on the same platform only when
\* one of them lost its lease to the TTL or to the race in acquire_lease.
PublishersApart ==
  \A p, q \in Proc :
    p # q /\ proc[p].phase = "publish" /\ proc[q].phase = "publish" =>
      proc[p].acquired \cap proc[q].acquired \subseteq proc[p].lost \cup proc[q].lost

\* _pid_alive: "so we never steal a lease from a live process".  acquire_lease
\* never puts another owner into the unexpired row of a run that holds it.
LiveLeaseNotStolen ==
  [][\A plat \in Platform :
       LET owner == lease[plat].owner IN
       owner # NoProc /\ ~lease[plat].expired /\ plat \in proc[owner].acquired
         => lease'[plat].owner \in {owner, NoProc}]_vars

\* Runs that ask in sorted order do not all refuse for each other: as long as none
\* has published, one of them is still asking, whatever rows the others left.
NoStandoff ==
  runs > 0 /\ ~published => \E p \in Proc : proc[p].phase \in {"select", "write"}

\* _acquire_publish_leases asks in sorted order and refuses without waiting:
\* runs that want each other's platforms do not refuse each other all, one of
\* them publishes.
SomebodyPublishes == (runs > 0) ~> published

=============================================================================
