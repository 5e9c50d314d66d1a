-------------------------- MODULE PublishLeaseProofs --------------------------
(***************************************************************************)
(* What the leases guarantee for any number of processes, platforms and    *)
(* runs: HolderOwnsRow is inductive on top of TypeOK, and PublishersApart  *)
(* follows from it, since a row has one owner.  Without faults they do not *)
(* keep everybody off: the run that holds the highest lease goes on.       *)
(***************************************************************************)
EXTENDS PublishLease, TLAPS

-----------------------------------------------------------------------------

\* What asking for a platform means for the run that asks.
LEMMA AsksForNew ==
  ASSUME NEW p \in Proc, NEW plat, AsksFor(p, plat)
  PROVE  plat \in proc[p].wants /\ plat \notin proc[p].acquired
BY DEF AsksFor, IsFirst, Left

\* The record of a run whose acquire_lease returned True.
LEMMA WithLeaseType ==
  ASSUME TypeOK, NEW p \in Proc, NEW plat \in Platform, AsksFor(p, plat)
  PROVE  /\ WithLease(p, plat) \in Process
         /\ WithLease(p, plat).acquired = proc[p].acquired \cup {plat}
         /\ WithLease(p, plat).lost = proc[p].lost
         /\ WithLease(p, plat).wants = proc[p].wants
         /\ WithLease(p, plat).phase \in {"publish", "select"}
         /\ WithLease(p, plat).acquired \subseteq WithLease(p, plat).wants
         /\ WithLease(p, plat).phase = "publish"
              <=> WithLease(p, plat).acquired = WithLease(p, plat).wants
<1>1. proc[p] \in Process /\ proc[p].acquired \subseteq proc[p].wants
  BY DEF TypeOK
<1>2. plat \in proc[p].wants
  BY AsksForNew
<1>. QED
  BY <1>1, <1>2 DEF WithLease, Process, Phase, Lease, NoLease

\* TypeOK, the part about one process.
WellFormed(q) ==
  /\ q.lost \subseteq q.acquired
  /\ q.acquired \subseteq q.wants
  /\ q.phase = "publish" => q.acquired = q.wants
  /\ q.phase \in {"select", "write"} => q.acquired # q.wants
  /\ q.phase \in {"down", "up"} => q.acquired = {}

LEMMA TypeOKParts ==
  TypeOK <=> /\ lease \in [Platform -> Lease]
             /\ proc \in [Proc -> Process]
             /\ runs \in 0..MaxRuns
             /\ published \in BOOLEAN
             /\ \A p \in Proc : WellFormed(proc[p])
BY DEF TypeOK, WellFormed

LEMMA DownType == Down \in Process /\ WellFormed(Down) /\ NoLease \in Lease
BY DEF Down, Process, WellFormed, Phase, NoLease, Lease

LEMMA RestingType == \A stays : Resting(stays) \in Process /\ WellFormed(Resting(stays))
BY DEF Resting, Down, Process, WellFormed, Phase, NoLease, Lease

LEMMA TypeInit == Init => TypeOK
<1>. SUFFICES ASSUME Init PROVE TypeOK
  OBVIOUS
<1>. USE DownType DEF Init
<1>1. lease \in [Platform -> Lease]
  OBVIOUS
<1>2. proc \in [Proc -> Process] /\ \A p \in Proc : WellFormed(proc[p])
  OBVIOUS
<1>3. runs \in 0..MaxRuns
  BY RunsAssumption
<1>4. published \in BOOLEAN
  OBVIOUS
<1>. QED
  BY <1>1, <1>2, <1>3, <1>4, TypeOKParts

\* A step of one process keeps the types when its record and the row it writes
\* are well formed.
LEMMA OneProcess ==
  ASSUME TypeOK, NEW p \in Proc, NEW q \in Process, WellFormed(q),
         proc' = [proc EXCEPT ![p] = q],
         lease' \in [Platform -> Lease], runs' \in 0..MaxRuns, published' \in BOOLEAN
  PROVE  TypeOK'
<1>1. proc' \in [Proc -> Process]
  BY TypeOKParts
<1>2. \A r \in Proc : proc'[r] = IF r = p THEN q ELSE proc[r]
  BY TypeOKParts
<1>3. \A r \in Proc : WellFormed(proc'[r])
  BY <1>2, TypeOKParts
<1>. QED
  BY <1>1, <1>3 DEF TypeOK, WellFormed

LEMMA TypeNext == TypeOK /\ [Next]_vars => TypeOK'
<1>. SUFFICES ASSUME TypeOK, [Next]_vars PROVE TypeOK'
  OBVIOUS
<1>0. /\ lease \in [Platform -> Lease]
      /\ proc \in [Proc -> Process]
      /\ runs \in 0..MaxRuns
      /\ published \in BOOLEAN
      /\ \A p \in Proc : WellFormed(proc[p])
  BY TypeOKParts
<1>1. ASSUME NEW p \in Proc, NEW wants \in (SUBSET Platform) \ {{}}, Launch(p, wants)
      PROVE  TypeOK'
  <2>. DEFINE q == [Down EXCEPT !.phase = "select", !.wants = wants]
  <2>1. q \in Process /\ WellFormed(q)
    BY DEF Down, Process, WellFormed, Phase, NoLease, Lease
  <2>2. runs' \in 0..MaxRuns
    BY <1>0, <1>1, RunsAssumption DEF Launch
  <2>. QED
    BY <1>0, <1>1, <2>1, <2>2, OneProcess DEF Launch
<1>2. ASSUME NEW p \in Proc, NEW plat \in Platform, Select(p, plat)
      PROVE  TypeOK'
  <2>. DEFINE phase == IF lease[plat].owner = NoProc \/ MayTakeOver(p, lease[plat])
                         THEN "write" ELSE "refused"
              q == [proc[p] EXCEPT !.seen = lease[plat], !.phase = phase]
  <2>1. proc' = [proc EXCEPT ![p] = q]
    BY <1>2 DEF Select
  <2>2. phase \in {"write", "refused"}
    OBVIOUS
  <2>. HIDE DEF phase
  <2>3. q \in Process /\ WellFormed(q)
    BY <1>0, <1>2, <2>2 DEF Select, Process, WellFormed, Phase
  <2>. QED
    BY <1>0, <1>2, <2>1, <2>3, OneProcess DEF Select
<1>3. ASSUME NEW p \in Proc, NEW plat \in Platform, NEW stays \in BOOLEAN,
             Insert(p, plat, stays)
      PROVE  TypeOK'
  <2>. DEFINE q == IF lease[plat].owner = NoProc THEN WithLease(p, plat) ELSE Resting(stays)
  <2>1. WithLease(p, plat) \in Process /\ WellFormed(WithLease(p, plat))
    BY <1>0, <1>3, WithLeaseType DEF Insert, WellFormed
  <2>2. q \in Process /\ WellFormed(q)
    BY <2>1, RestingType
  <2>3. proc' = [proc EXCEPT ![p] = q] /\ published' = (published \/ q.phase = "publish")
    BY <1>3 DEF Insert
  <2>4. lease' \in [Platform -> Lease]
    BY <1>0, <1>3 DEF Insert, Lease
  <2>5. published' \in BOOLEAN
    BY <2>3
  <2>. QED
    BY <1>0, <1>3, <2>2, <2>3, <2>4, <2>5, OneProcess DEF Insert
<1>4. ASSUME NEW p \in Proc, NEW plat \in Platform, Update(p, plat)
      PROVE  TypeOK'
  <2>. DEFINE next == [proc EXCEPT ![p] = WithLease(p, plat)]
  <2>1. WithLease(p, plat) \in Process /\ WellFormed(WithLease(p, plat))
    BY <1>0, <1>4, WithLeaseType DEF Update, WellFormed
  <2>2. next \in [Proc -> Process] /\ \A q \in Proc : WellFormed(next[q])
    BY <1>0, <2>1
  <2>3. /\ proc' = [q \in Proc |->
                      IF q \in Loser(p, plat)
                        THEN [next[q] EXCEPT !.lost = (@ \cup {plat}) \cap next[q].acquired]
                        ELSE next[q]]
        /\ published' = (published \/ next[p].phase = "publish")
        /\ runs' = runs
    BY <1>4 DEF Update
  <2>. HIDE DEF next
  <2>4. proc' \in [Proc -> Process]
    BY <2>2, <2>3 DEF Process
  <2>5. \A q \in Proc : WellFormed(proc'[q])
    BY <2>2, <2>3 DEF WellFormed, Process
  <2>6. lease' \in [Platform -> Lease]
    BY <1>0, <1>4 DEF Update, Lease
  <2>. QED
    BY <1>0, <2>3, <2>4, <2>5, <2>6 DEF TypeOK, WellFormed
<1>5. ASSUME NEW p \in Proc, NEW plat \in Platform, NEW fails \in BOOLEAN,
             Release(p, plat, fails)
      PROVE  TypeOK'
  <2>. DEFINE q == [proc[p] EXCEPT !.acquired = @ \ {plat}, !.lost = @ \ {plat}]
  <2>1. proc' = [proc EXCEPT ![p] = q]
    BY <1>0, <1>5 DEF Release
  <2>2. q \in Process /\ WellFormed(q)
    BY <1>0, <1>5 DEF Release, Process, WellFormed
  <2>3. lease' \in [Platform -> Lease]
    BY <1>0, <1>5, DownType DEF Release
  <2>. QED
    BY <1>0, <1>5, <2>1, <2>2, <2>3, OneProcess DEF Release
<1>6. ASSUME NEW p \in Proc, Finish(p) PROVE TypeOK'
  <2>. DEFINE q == [proc[p] EXCEPT !.phase = "exit"]
  <2>1. proc' = [proc EXCEPT ![p] = q]
    BY <1>0, <1>6 DEF Finish
  <2>2. q \in Process /\ WellFormed(q)
    BY <1>0, <1>6 DEF Finish, Process, WellFormed, Phase
  <2>. QED
    BY <1>0, <1>6, <2>1, <2>2, OneProcess DEF Finish
<1>7. ASSUME NEW p \in Proc, (\E stays \in BOOLEAN : Exit(p, stays)) \/ Kill(p)
      PROVE  TypeOK'
  BY <1>0, <1>7, DownType, RestingType, OneProcess DEF Exit, Kill
<1>8. ASSUME NEW p \in Proc, Reuse(p) PROVE TypeOK'
  <2>. DEFINE q == [proc[p] EXCEPT !.phase = "up"]
  <2>1. proc' = [proc EXCEPT ![p] = q]
    BY <1>0, <1>8 DEF Reuse
  <2>2. q \in Process /\ WellFormed(q)
    BY <1>0, <1>8 DEF Reuse, Process, WellFormed, Phase
  <2>. QED
    BY <1>0, <1>8, <2>1, <2>2, OneProcess DEF Reuse
<1>9. ASSUME NEW plat \in Platform, Expire(plat) PROVE TypeOK'
  <2>. DEFINE p == lease[plat].owner
              q == [proc[p] EXCEPT !.lost = IF plat \in proc[p].acquired
                                              THEN @ \cup {plat} ELSE @]
  <2>1. p \in Proc
    BY <1>0, <1>9 DEF Expire, Lease
  <2>2. proc' = [proc EXCEPT ![p] = q]
    BY <1>0, <1>9 DEF Expire
  <2>3. q \in Process /\ WellFormed(q)
    BY <1>0, <2>1 DEF Process, WellFormed
  <2>4. lease' \in [Platform -> Lease]
    BY <1>0, <1>9 DEF Expire, Lease
  <2>. QED
    BY <1>0, <1>9, <2>1, <2>2, <2>3, <2>4, OneProcess DEF Expire
<1>10. CASE UNCHANGED vars
  BY <1>10 DEF vars, TypeOK
<1>. QED
  BY <1>1, <1>2, <1>3, <1>4, <1>5, <1>6, <1>7, <1>8, <1>9, <1>10 DEF Next, Step

\* Every state of the leases is well typed, and a run publishes with all of its
\* leases and only with them.
THEOREM LeaseTypeCorrect == Spec => []TypeOK
BY TypeInit, TypeNext, PTL DEF Spec

-----------------------------------------------------------------------------

\* HolderOwnsRow, for one process: t is the table of leases.
Owns(q, p, t) ==
  \A plat \in q.acquired \ q.lost : t[plat].owner = p /\ ~t[plat].expired

LEMMA HolderOwnsRowParts == HolderOwnsRow <=> \A p \in Proc : Owns(proc[p], p, lease)
BY DEF HolderOwnsRow, Owns

LEMMA OwnsNothing ==
  \A p, t, stays : Owns(Down, p, t) /\ Owns(Resting(stays), p, t)
BY DEF Owns, Resting, Down

LEMMA HolderInit == Init => HolderOwnsRow
BY OwnsNothing, HolderOwnsRowParts DEF Init

\* A step of one process that writes at most a row no other run holds.
LEMMA OneHolder ==
  ASSUME TypeOK, HolderOwnsRow, NEW p \in Proc, NEW q, proc' = [proc EXCEPT ![p] = q],
         Owns(q, p, lease'),
         \A r \in Proc \ {p} : \A plat \in proc[r].acquired \ proc[r].lost :
            lease'[plat] = lease[plat]
  PROVE  HolderOwnsRow'
<1>1. \A r \in Proc : proc'[r] = IF r = p THEN q ELSE proc[r]
  BY DEF TypeOK
<1>2. \A r \in Proc \ {p} : Owns(proc[r], r, lease')
  BY HolderOwnsRowParts DEF Owns
<1>. QED
  BY <1>1, <1>2 DEF HolderOwnsRow, Owns

LEMMA HolderNext == TypeOK /\ HolderOwnsRow /\ [Next]_vars => HolderOwnsRow'
<1>. SUFFICES ASSUME TypeOK, HolderOwnsRow, [Next]_vars PROVE HolderOwnsRow'
  OBVIOUS
<1>0. /\ lease \in [Platform -> Lease]
      /\ proc \in [Proc -> Process]
      /\ \A p \in Proc : WellFormed(proc[p]) /\ Owns(proc[p], p, lease)
  BY TypeOKParts, HolderOwnsRowParts
<1>a. \A r \in Proc : \A plat \in proc[r].acquired : plat \in Platform
  BY <1>0 DEF Process
<1>1. ASSUME NEW p \in Proc, NEW wants, Launch(p, wants) PROVE HolderOwnsRow'
  <2>1. Owns([Down EXCEPT !.phase = "select", !.wants = wants], p, lease)
    BY DEF Owns, Down
  <2>. QED
    BY <1>1, <2>1, OneHolder DEF Launch
<1>2. ASSUME NEW p \in Proc, NEW plat \in Platform, Select(p, plat) PROVE HolderOwnsRow'
  <2>. DEFINE phase == IF lease[plat].owner = NoProc \/ MayTakeOver(p, lease[plat])
                         THEN "write" ELSE "refused"
              q == [proc[p] EXCEPT !.seen = lease[plat], !.phase = phase]
  <2>1. proc' = [proc EXCEPT ![p] = q] /\ lease' = lease
    BY <1>2 DEF Select
  <2>2. q.acquired = proc[p].acquired /\ q.lost = proc[p].lost
    BY <1>0 DEF Process
  <2>. HIDE DEF q
  <2>3. Owns(q, p, lease)
    BY <1>0, <2>2 DEF Owns
  <2>. QED
    BY <2>1, <2>3, OneHolder
<1>3. ASSUME NEW p \in Proc, NEW plat \in Platform, NEW stays \in BOOLEAN,
             Insert(p, plat, stays)
      PROVE  HolderOwnsRow'
  <2>1. CASE lease[plat].owner # NoProc
    BY <1>3, <2>1, OwnsNothing, OneHolder DEF Insert
  <2>2. CASE lease[plat].owner = NoProc
    <3>1. /\ proc' = [proc EXCEPT ![p] = WithLease(p, plat)]
          /\ lease' = [lease EXCEPT ![plat] = [owner |-> p, expired |-> FALSE]]
      BY <1>3, <2>2 DEF Insert
    <3>2. Owns(WithLease(p, plat), p, lease')
      BY <1>0, <1>3, <3>1, WithLeaseType DEF Insert, Owns
    <3>3. \A r \in Proc : plat \notin proc[r].acquired \ proc[r].lost
      BY <1>0, <2>2, ProcAssumption DEF Owns
    <3>. QED
      BY <1>0, <1>a, <3>1, <3>2, <3>3, OneHolder
  <2>. QED
    BY <2>1, <2>2
<1>4. ASSUME NEW p \in Proc, NEW plat \in Platform, Update(p, plat) PROVE HolderOwnsRow'
  <2>. DEFINE next == [proc EXCEPT ![p] = WithLease(p, plat)]
  <2>1. /\ proc' = [q \in Proc |->
                      IF q \in Loser(p, plat)
                        THEN [next[q] EXCEPT !.lost = (@ \cup {plat}) \cap next[q].acquired]
                        ELSE next[q]]
        /\ lease' = [lease EXCEPT ![plat] =
                      IF @.owner # NoProc THEN [owner |-> p, expired |-> FALSE] ELSE @]
    BY <1>4 DEF Update
  <2>2. /\ WithLease(p, plat) \in Process
        /\ WithLease(p, plat).acquired = proc[p].acquired \cup {plat}
        /\ WithLease(p, plat).lost = proc[p].lost
        /\ plat \notin proc[p].acquired
    BY <1>4, WithLeaseType, AsksForNew DEF Update
  <2>3. \A r \in Proc : /\ next[r] = IF r = p THEN WithLease(p, plat) ELSE proc[r]
                        /\ next[r] \in Process
    BY <1>0, <2>2
  <2>. HIDE DEF next
  <2>4. \A r \in Proc :
          /\ proc'[r].acquired = next[r].acquired
          /\ proc'[r].lost = IF r \in Loser(p, plat)
                               THEN (next[r].lost \cup {plat}) \cap next[r].acquired
                               ELSE next[r].lost
    BY <2>1, <2>3 DEF Process
  <2>5. ASSUME NEW r \in Proc, NEW other \in proc'[r].acquired \ proc'[r].lost, other # plat
        PROVE  lease'[other].owner = r /\ ~lease'[other].expired
    <3>1. other \in proc[r].acquired \ proc[r].lost
      BY <2>2, <2>3, <2>4, <2>5
    <3>2. lease'[other] = lease[other]
      BY <1>0, <1>a, <2>1, <2>5, <3>1
    <3>. QED
      BY <1>0, <3>1, <3>2 DEF Owns
  <2>6. ASSUME NEW r \in Proc, plat \in proc'[r].acquired \ proc'[r].lost
        PROVE  lease'[plat].owner = r /\ ~lease'[plat].expired
    <3>1. r \notin Loser(p, plat)
      BY <2>4, <2>6
    <3>2. CASE r = p
      <4>1. lease[plat].owner # NoProc
        BY <3>1, <3>2 DEF Loser
      <4>. QED
        BY <1>0, <2>1, <3>2, <4>1
    <3>3. CASE r # p
      <4>1. plat \in proc[r].acquired \ proc[r].lost
        BY <2>3, <2>4, <2>6, <3>1, <3>3
      <4>2. lease[plat].owner = r /\ ~lease[plat].expired
        BY <1>0, <4>1 DEF Owns
      <4>3. PidAlive(r)
        BY <1>0, <4>1 DEF PidAlive, WellFormed
      <4>4. ~MayTakeOver(p, lease[plat]) /\ lease[plat].owner # NoProc
        BY <3>3, <4>2, <4>3, ProcAssumption DEF MayTakeOver
      <4>. QED
        BY <3>1, <4>2, <4>4 DEF Loser
    <3>. QED
      BY <3>2, <3>3
  <2>. QED
    BY <2>5, <2>6 DEF HolderOwnsRow
<1>5. ASSUME NEW p \in Proc, NEW plat \in Platform, NEW fails, Release(p, plat, fails)
      PROVE  HolderOwnsRow'
  <2>. DEFINE q == [proc[p] EXCEPT !.acquired = @ \ {plat}, !.lost = @ \ {plat}]
  <2>1. proc' = [proc EXCEPT ![p] = q]
    BY <1>0, <1>5 DEF Release
  <2>2. lease' = [lease EXCEPT ![plat] =
                   IF lease[plat].owner = p /\ ~fails THEN NoLease ELSE @]
    BY <1>5 DEF Release, ReleaseDeletes
  <2>3. q.acquired = proc[p].acquired \ {plat} /\ q.lost = proc[p].lost \ {plat}
    BY <1>0 DEF Process
  <2>. HIDE DEF q
  <2>4. Owns(q, p, lease')
    BY <1>0, <1>a, <2>2, <2>3 DEF Owns
  <2>5. ASSUME NEW r \in Proc \ {p}, NEW other \in proc[r].acquired \ proc[r].lost
        PROVE  lease'[other] = lease[other]
    BY <1>0, <1>a, <2>2, <2>5 DEF Owns
  <2>. QED
    BY <2>1, <2>4, <2>5, OneHolder
<1>6. ASSUME NEW p \in Proc, Finish(p) PROVE HolderOwnsRow'
  <2>. DEFINE q == [proc[p] EXCEPT !.phase = "exit"]
  <2>1. proc' = [proc EXCEPT ![p] = q] /\ lease' = lease
    BY <1>0, <1>6 DEF Finish
  <2>2. Owns(q, p, lease)
    BY <1>0 DEF Owns, Process
  <2>. QED
    BY <2>1, <2>2, OneHolder
<1>7. ASSUME NEW p \in Proc, (\E stays \in BOOLEAN : Exit(p, stays)) \/ Kill(p)
      PROVE  HolderOwnsRow'
  BY <1>7, OwnsNothing, OneHolder DEF Exit, Kill
<1>8. ASSUME NEW p \in Proc, Reuse(p) PROVE HolderOwnsRow'
  <2>. DEFINE q == [proc[p] EXCEPT !.phase = "up"]
  <2>1. proc' = [proc EXCEPT ![p] = q] /\ lease' = lease
    BY <1>0, <1>8 DEF Reuse
  <2>2. Owns(q, p, lease)
    BY <1>0 DEF Owns, Process
  <2>. QED
    BY <2>1, <2>2, OneHolder
<1>9. ASSUME NEW plat \in Platform, Expire(plat) PROVE HolderOwnsRow'
  <2>. DEFINE p == lease[plat].owner
              q == [proc[p] EXCEPT !.lost = IF plat \in proc[p].acquired
                                              THEN @ \cup {plat} ELSE @]
  <2>1. p \in Proc
    BY <1>0, <1>9 DEF Expire, Lease
  <2>2. /\ proc' = [proc EXCEPT ![p] = q]
        /\ lease' = [lease EXCEPT ![plat].expired = TRUE]
    BY <1>0, <1>9 DEF Expire
  <2>3. /\ q.acquired = proc[p].acquired
        /\ plat \notin q.acquired \ q.lost
        /\ q.acquired \ q.lost \subseteq proc[p].acquired \ proc[p].lost
    BY <1>0, <2>1 DEF Process
  <2>4. \A other \in Platform \ {plat} : lease'[other] = lease[other]
    BY <1>0, <2>2
  <2>. HIDE DEF q
  <2>5. Owns(q, p, lease')
    BY <1>0, <1>a, <2>1, <2>3, <2>4 DEF Owns
  <2>6. \A r \in Proc \ {p} : plat \notin proc[r].acquired \ proc[r].lost
    BY <1>0 DEF Owns
  <2>7. \A r \in Proc \ {p} : \A other \in proc[r].acquired \ proc[r].lost :
          lease'[other] = lease[other]
    BY <1>a, <2>4, <2>6
  <2>. HIDE DEF p
  <2>. QED
    BY <2>1, <2>2, <2>5, <2>7, OneHolder
<1>10. CASE UNCHANGED vars
  BY <1>10 DEF vars, HolderOwnsRow
<1>. QED
  BY <1>1, <1>2, <1>3, <1>4, <1>5, <1>6, <1>7, <1>8, <1>9, <1>10 DEF Next, Step

\* A run's lease is its row until the run releases it, the TTL passes or the
\* race in acquire_lease takes it.
THEOREM HolderCorrect == Spec => []HolderOwnsRow
BY LeaseTypeCorrect, HolderInit, HolderNext, PTL DEF Spec

\* A row has one owner, so the runs that own theirs are apart.
LEMMA OwnersApart == TypeOK /\ HolderOwnsRow => PublishersApart
BY DEF HolderOwnsRow, PublishersApart

\* Two runs publish on the same platform only when one of them lost its lease
\* to the TTL or to the race in acquire_lease.
THEOREM LeaseExcludes == Spec => []PublishersApart
BY LeaseTypeCorrect, HolderCorrect, OwnersApart, PTL

-----------------------------------------------------------------------------
(***************************************************************************)
(* Without faults one run goes on.  The run that holds the highest lease   *)
(* finds no row on what it still asks for; a run that leaves its rows      *)
(* behind was refused, or lost a race, by a row above all of its own.      *)
(***************************************************************************)

Asking(q) == q.phase \in {"select", "write"}

\* A run asks in the order of the platforms.
Ordered(q) ==
  Asking(q) => \A held \in q.acquired, plat \in q.wants \ q.acquired : held < plat

\* No row is above what it has acquired.
Leads(q, t) ==
  /\ Asking(q)
  /\ \A plat \in Platform : t[plat].owner # NoProc => \E held \in q.acquired : plat <= held

StandoffInv ==
  /\ \A p \in Proc : Ordered(proc[p])
  /\ runs = 0 => /\ \A p \in Proc : proc[p].phase = "down"
                 /\ \A plat \in Platform : lease[plat].owner = NoProc
  /\ ~published => \A p \in Proc : proc[p].phase # "publish"
  /\ runs > 0 /\ ~published => \E p \in Proc : Leads(proc[p], lease)

\* A run that asks for a platform with a row does not lead.
LEMMA RowAhead ==
  ASSUME TypeOK, StandoffInv, NEW p \in Proc, NEW plat \in Platform,
         AsksFor(p, plat), lease[plat].owner # NoProc
  PROVE  ~Leads(proc[p], lease)
<1>1. plat \in proc[p].wants \ proc[p].acquired
  BY AsksForNew
<1>2. SUFFICES ASSUME Leads(proc[p], lease) PROVE FALSE
  OBVIOUS
<1>3. PICK held \in proc[p].acquired : plat <= held
  BY <1>2 DEF Leads
<1>4. held < plat
  BY <1>1, <1>2 DEF StandoffInv, Ordered, Leads
<1>5. held \in Int /\ plat \in Int
  BY PlatformAssumption DEF TypeOK, Process
<1> QED BY <1>3, <1>4, <1>5

\* What a run has acquired stays in order, and above every row when it has led.
LEMMA WithLeaseOrder ==
  ASSUME TypeOK, StandoffInv, NEW p \in Proc, NEW plat \in Platform,
         AsksFor(p, plat), Asking(proc[p])
  PROVE  /\ Ordered(WithLease(p, plat))
         /\ \A held \in proc[p].acquired : held < plat
<1> DEFINE q == WithLease(p, plat)
<1>1. /\ plat \in proc[p].wants \ proc[p].acquired
      /\ \A other \in proc[p].wants \ proc[p].acquired : plat <= other
  BY DEF AsksFor, IsFirst, Left
<1>2. \A held \in proc[p].acquired : \A other \in proc[p].wants \ proc[p].acquired : held < other
  BY DEF StandoffInv, Ordered
<1>3. proc[p].acquired \subseteq Int /\ proc[p].wants \subseteq Int
  BY PlatformAssumption DEF TypeOK, Process
<1>4. q.acquired = proc[p].acquired \cup {plat} /\ q.wants = proc[p].wants
  BY WithLeaseType
<1> HIDE DEF q
<1>5. \A held \in q.acquired, other \in q.wants \ q.acquired : held < other
  BY <1>1, <1>2, <1>3, <1>4
<1> QED BY <1>1, <1>2, <1>5 DEF Ordered, q

\* The step of one process.
LEMMA OneStandoff ==
  ASSUME TypeOK, StandoffInv, NEW p \in Proc, NEW q,
         proc'[p] = q, Ordered(q),
         \A r \in Proc \ {p} : /\ proc'[r].phase = proc[r].phase
                               /\ proc'[r].acquired = proc[r].acquired
                               /\ proc'[r].wants = proc[r].wants,
         proc[p].phase # "down", runs' = runs, published' = (published \/ q.phase = "publish"),
         ~published' => \E r \in Proc : Leads(proc'[r], lease')
  PROVE  StandoffInv'
<1>1. \A r \in Proc : Ordered(proc'[r])
  <2> SUFFICES ASSUME NEW r \in Proc PROVE Ordered(proc'[r])
    OBVIOUS
  <2>1. CASE r = p
    BY <2>1
  <2>2. CASE r # p
    BY <2>2 DEF StandoffInv, Ordered, Asking
  <2> QED BY <2>1, <2>2
<1>2. runs' # 0
  BY DEF StandoffInv
<1>3. ~published' => \A r \in Proc : proc'[r].phase # "publish"
  BY DEF StandoffInv
<1> QED BY <1>1, <1>2, <1>3 DEF StandoffInv, Ordered, Leads, Asking

\* A leader still leads after a step that adds no row.
LEMMA LeaderKept ==
  ASSUME TypeOK, StandoffInv, NEW p \in Proc, proc[p].phase # "down", ~published,
         ~Leads(proc[p], lease),
         \A r \in Proc \ {p} : /\ proc'[r].phase = proc[r].phase
                               /\ proc'[r].acquired = proc[r].acquired,
         \A plat \in Platform : lease'[plat].owner # NoProc => lease[plat].owner # NoProc
  PROVE  \E r \in Proc : Leads(proc'[r], lease')
<1>1. runs > 0
  BY DEF StandoffInv, TypeOK
<1>2. PICK r \in Proc : Leads(proc[r], lease)
  BY <1>1 DEF StandoffInv
<1>3. r # p
  BY <1>2
<1> QED BY <1>2, <1>3 DEF Leads, Asking


\* Nor does a run that acquires a lease leave the runs without a leader: the one
\* that led still does, or the new lease is the highest.
LEMMA LeaderClimbs ==
  ASSUME TypeOK, StandoffInv, NEW p \in Proc, NEW plat \in Platform, ~published,
         AsksFor(p, plat), Asking(proc[p]), Asking(proc'[p]),
         proc'[p].acquired = proc[p].acquired \cup {plat},
         \A r \in Proc \ {p} : /\ proc'[r].phase = proc[r].phase
                               /\ proc'[r].acquired = proc[r].acquired,
         \A other \in Platform \ {plat} : lease'[other] = lease[other]
  PROVE  \E r \in Proc : Leads(proc'[r], lease')
<1>1. runs > 0
  <2>1. proc[p].phase # "down"
    BY DEF Asking
  <2> QED BY <2>1 DEF StandoffInv, TypeOK
<1>2. PICK r \in Proc : Leads(proc[r], lease)
  BY <1>1 DEF StandoffInv
<1>3. \A u \in Proc : proc[u].acquired \subseteq Int
  BY PlatformAssumption DEF TypeOK, Process
<1>4. plat \in Int /\ Platform \subseteq Int
  BY PlatformAssumption
<1>5. CASE r = p
  <2>1. Leads(proc'[p], lease')
    BY <1>2, <1>4, <1>5 DEF Leads
  <2> QED BY <2>1
<1>6. CASE r # p /\ \E held \in proc[r].acquired : plat <= held
  <2>1. Leads(proc'[r], lease')
    BY <1>2, <1>6 DEF Leads, Asking
  <2> QED BY <2>1
<1>7. CASE \A held \in proc[r].acquired : ~(plat <= held)
  <2>1. ASSUME NEW other \in Platform, lease'[other].owner # NoProc
        PROVE  other <= plat
    <3>1. CASE other = plat
      BY <1>4, <3>1
    <3>2. CASE other # plat
      <4>1. PICK held \in proc[r].acquired : other <= held
        BY <1>2, <2>1, <3>2 DEF Leads
      <4>2. held \in Int /\ ~(plat <= held)
        BY <1>3, <1>7, <4>1
      <4>3. other \in Int
        BY <1>4
      <4> QED BY <1>4, <4>1, <4>2, <4>3
    <3> QED BY <3>1, <3>2
  <2>2. Leads(proc'[p], lease')
    BY <2>1 DEF Leads
  <2> QED BY <2>2
<1> QED BY <1>5, <1>6, <1>7

LEMMA StandoffInit == Init => StandoffInv
BY DEF Init, StandoffInv, Ordered, Asking, Down, NoLease

LEMMA StandoffStep ==
  ASSUME TypeOK, StandoffInv, NEW p \in Proc, Step(p)
  PROVE  StandoffInv'
<1>0. lease \in [Platform -> Lease] /\ proc \in [Proc -> Process]
  BY DEF TypeOK
<1>1. ASSUME NEW plat \in Platform, Select(p, plat)
      PROVE  StandoffInv'
  <2> DEFINE q == [proc[p] EXCEPT !.seen = lease[plat],
                     !.phase = IF lease[plat].owner = NoProc \/ MayTakeOver(p, lease[plat])
                                 THEN "write" ELSE "refused"]
  <2>1. /\ proc' = [proc EXCEPT ![p] = q] /\ lease' = lease /\ runs' = runs
        /\ published' = published /\ proc[p].phase = "select" /\ AsksFor(p, plat)
    BY <1>1 DEF Select
  <2>2. /\ q.acquired = proc[p].acquired /\ q.wants = proc[p].wants
        /\ \/ q.phase = "write"
           \/ q.phase = "refused" /\ lease[plat].owner # NoProc
    BY <1>0 DEF Process
  <2> HIDE DEF q
  <2>3. proc'[p] = q /\ \A r \in Proc \ {p} : proc'[r] = proc[r]
    BY <1>0, <2>1
  <2>4. Ordered(q)
    BY <2>1, <2>2 DEF StandoffInv, Ordered, Asking
  <2>5. ASSUME ~published'
        PROVE  \E r \in Proc : Leads(proc'[r], lease')
    <3>1. CASE q.phase = "write"
      <4>1. \A r \in Proc : Leads(proc[r], lease) => Leads(proc'[r], lease')
        BY <2>1, <2>2, <2>3, <3>1 DEF Leads, Asking
      <4>2. runs > 0
        BY <2>1 DEF StandoffInv, TypeOK
      <4> QED BY <2>1, <2>5, <4>1, <4>2 DEF StandoffInv
    <3>2. CASE q.phase # "write"
      <4>1. ~Leads(proc[p], lease)
        BY <2>1, <2>2, <3>2, RowAhead
      <4>2. proc[p].phase # "down" /\ ~published
        BY <2>1, <2>5
      <4> QED BY <2>1, <2>3, <4>1, <4>2, LeaderKept
    <3> QED BY <3>1, <3>2
  <2>6. published' = (published \/ q.phase = "publish") /\ proc[p].phase # "down"
    BY <2>1, <2>2 DEF TypeOK
  <2> QED BY <2>1, <2>3, <2>4, <2>5, <2>6, OneStandoff
<1>2. ASSUME NEW plat \in Platform, NEW stays \in BOOLEAN, Insert(p, plat, stays)
      PROVE  StandoffInv'
  <2>0. AsksFor(p, plat) /\ proc[p].phase = "write" /\ Asking(proc[p]) /\ runs' = runs
    BY <1>2 DEF Insert, Asking
  <2>1. CASE lease[plat].owner # NoProc
    <3>1. /\ proc' = [proc EXCEPT ![p] = Resting(stays)] /\ lease' = lease
          /\ published' = (published \/ Resting(stays).phase = "publish")
      BY <1>2, <2>1 DEF Insert
    <3>2. Resting(stays).phase \in {"up", "down"}
      BY DEF Resting, Down
    <3>3. Ordered(Resting(stays)) /\ published' = published
      BY <3>1, <3>2 DEF Ordered, Asking, TypeOK
    <3>4. proc'[p] = Resting(stays) /\ \A r \in Proc \ {p} : proc'[r] = proc[r]
      BY <1>0, <3>1
    <3>5. ~published' => \E r \in Proc : Leads(proc'[r], lease')
      BY <2>0, <2>1, <3>1, <3>3, <3>4, RowAhead, LeaderKept
    <3> QED BY <2>0, <3>1, <3>3, <3>4, <3>5, OneStandoff
  <2>2. CASE lease[plat].owner = NoProc
    <3> DEFINE q == WithLease(p, plat)
    <3>1. /\ proc' = [proc EXCEPT ![p] = q]
          /\ lease' = [lease EXCEPT ![plat] = [owner |-> p, expired |-> FALSE]]
          /\ published' = (published \/ q.phase = "publish")
      BY <1>2, <2>2 DEF Insert
    <3>2. /\ q.acquired = proc[p].acquired \cup {plat} /\ Ordered(q)
          /\ q.phase \in {"publish", "select"}
      BY <2>0, WithLeaseType, WithLeaseOrder
    <3> HIDE DEF q
    <3>3. proc'[p] = q /\ \A r \in Proc \ {p} : proc'[r] = proc[r]
      BY <1>0, <3>1
    <3>4. \A other \in Platform \ {plat} : lease'[other] = lease[other]
      BY <1>0, <3>1
    <3>5. ASSUME ~published'
          PROVE  \E r \in Proc : Leads(proc'[r], lease')
      <4>1. ~published /\ Asking(proc'[p])
        BY <3>1, <3>2, <3>3, <3>5 DEF Asking
      <4> QED BY <2>0, <3>2, <3>3, <3>4, <4>1, LeaderClimbs
    <3> QED BY <2>0, <3>1, <3>2, <3>3, <3>5, OneStandoff
  <2> QED BY <2>1, <2>2
<1>3. ASSUME NEW plat \in Platform, Update(p, plat)
      PROVE  StandoffInv'
  <2> DEFINE next == [proc EXCEPT ![p] = WithLease(p, plat)]
             q == proc'[p]
  <2>0. AsksFor(p, plat) /\ proc[p].phase = "write" /\ Asking(proc[p]) /\ runs' = runs
    BY <1>3 DEF Update, Asking
  <2>1. /\ proc' = [r \in Proc |-> IF r \in Loser(p, plat)
                                   THEN [next[r] EXCEPT !.lost = (@ \cup {plat}) \cap next[r].acquired]
                                   ELSE next[r]]
        /\ lease' = [lease EXCEPT ![plat] =
                       IF @.owner # NoProc THEN [owner |-> p, expired |-> FALSE] ELSE @]
        /\ published' = (published \/ next[p].phase = "publish")
    BY <1>3 DEF Update
  <2>2. /\ WithLease(p, plat) \in Process
        /\ WithLease(p, plat).acquired = proc[p].acquired \cup {plat}
        /\ WithLease(p, plat).phase \in {"publish", "select"}
        /\ Ordered(WithLease(p, plat))
    BY <2>0, WithLeaseType, WithLeaseOrder
  <2>3. /\ next[p] = WithLease(p, plat) /\ \A r \in Proc \ {p} : next[r] = proc[r]
        /\ \A r \in Proc : next[r] \in Process
    BY <1>0, <2>2
  <2> HIDE DEF next
  <2>4. \A r \in Proc : /\ proc'[r].phase = next[r].phase
                        /\ proc'[r].acquired = next[r].acquired
                        /\ proc'[r].wants = next[r].wants
    BY <2>1, <2>3 DEF Process
  <2> HIDE DEF q
  <2>5. /\ q.phase \in {"publish", "select"} /\ Ordered(q)
        /\ proc'[p].acquired = proc[p].acquired \cup {plat}
        /\ published' = (published \/ q.phase = "publish")
    BY <2>1, <2>2, <2>3, <2>4 DEF q, Ordered, Asking
  <2>6. \A other \in Platform \ {plat} : lease'[other] = lease[other]
    BY <1>0, <2>1
  <2>7. \A r \in Proc \ {p} : /\ proc'[r].phase = proc[r].phase
                              /\ proc'[r].acquired = proc[r].acquired
                              /\ proc'[r].wants = proc[r].wants
    BY <2>3, <2>4
  <2>8. ASSUME ~published'
        PROVE  \E r \in Proc : Leads(proc'[r], lease')
    <3>1. ~published /\ Asking(proc'[p])
      BY <2>5, <2>8 DEF Asking, q
    <3> QED BY <2>0, <2>5, <2>6, <2>7, <3>1, LeaderClimbs
  <2>9. q = proc'[p]
    BY DEF q
  <2> QED BY <2>0, <2>5, <2>7, <2>8, <2>9, OneStandoff
\* A step of a run that does not ask any more.
<1>4. ASSUME NEW q, ~Asking(proc[p]), proc[p].phase # "down", ~Asking(q), q.phase # "publish",
             proc' = [proc EXCEPT ![p] = q], runs' = runs, published' = published,
             \A plat \in Platform : lease'[plat].owner # NoProc => lease[plat].owner # NoProc
      PROVE  StandoffInv'
  <2>1. proc'[p] = q /\ \A r \in Proc \ {p} : proc'[r] = proc[r]
    BY <1>0, <1>4
  <2>2. Ordered(q) /\ ~Leads(proc[p], lease)
    BY <1>4 DEF Ordered, Leads
  <2>3. ~published' => \E r \in Proc : Leads(proc'[r], lease')
    BY <1>4, <2>1, <2>2, LeaderKept
  <2>4. published' = (published \/ q.phase = "publish")
    BY <1>4 DEF TypeOK
  <2> QED BY <1>4, <2>1, <2>2, <2>3, <2>4, OneStandoff
<1>5. ASSUME NEW plat \in Platform, NEW fails \in BOOLEAN, Release(p, plat, fails)
      PROVE  StandoffInv'
  <2> DEFINE q == [proc[p] EXCEPT !.acquired = @ \ {plat}, !.lost = @ \ {plat}]
  <2>1. /\ proc' = [proc EXCEPT ![p] = q] /\ proc[p].phase \in {"refused", "exit"}
        /\ runs' = runs /\ published' = published
    BY <1>0, <1>5 DEF Release
  <2>2. q.phase = proc[p].phase
    BY <1>0 DEF Process
  <2> HIDE DEF q
  <2>3. \A other \in Platform : lease'[other].owner # NoProc => lease[other].owner # NoProc
    BY <1>0, <1>5 DEF Release, NoLease
  <2> QED BY <1>4, <2>1, <2>2, <2>3 DEF Asking
<1>6. ASSUME Finish(p)
      PROVE  StandoffInv'
  <2> DEFINE q == [proc[p] EXCEPT !.phase = "exit"]
  <2>1. /\ proc' = [proc EXCEPT ![p] = q] /\ proc[p].phase = "publish" /\ lease' = lease
        /\ runs' = runs /\ published' = published
    BY <1>0, <1>6 DEF Finish
  <2>2. q.phase = "exit"
    BY <1>0 DEF Process
  <2> HIDE DEF q
  <2> QED BY <1>4, <2>1, <2>2 DEF Asking
<1>7. ASSUME NEW stays \in BOOLEAN, Exit(p, stays)
      PROVE  StandoffInv'
  <2>1. /\ proc' = [proc EXCEPT ![p] = Resting(stays)] /\ proc[p].phase \in {"refused", "exit"}
        /\ lease' = lease /\ runs' = runs /\ published' = published
    BY <1>7 DEF Exit
  <2>2. Resting(stays).phase \in {"up", "down"}
    BY DEF Resting, Down
  <2> QED BY <1>4, <2>1, <2>2 DEF Asking
<1> QED BY <1>1, <1>2, <1>3, <1>5, <1>6, <1>7 DEF Step

LEMMA StandoffNext == ~Faults /\ TypeOK /\ StandoffInv /\ [Next]_vars => StandoffInv'
<1> SUFFICES ASSUME ~Faults, TypeOK, StandoffInv, [Next]_vars PROVE StandoffInv'
  OBVIOUS
<1>0. lease \in [Platform -> Lease] /\ proc \in [Proc -> Process]
  BY DEF TypeOK
<1>1. ASSUME NEW p \in Proc, NEW wants \in (SUBSET Platform) \ {{}}, Launch(p, wants)
      PROVE  StandoffInv'
  <2> DEFINE q == [Down EXCEPT !.phase = "select", !.wants = wants]
  <2>1. /\ proc' = [proc EXCEPT ![p] = q] /\ proc[p].phase \in {"down", "up"}
        /\ lease' = lease /\ published' = published /\ runs' = runs + 1
    BY <1>1 DEF Launch
  <2>2. q.phase = "select" /\ q.acquired = {}
    BY DEF Down
  <2> HIDE DEF q
  <2>3. proc'[p] = q /\ \A r \in Proc \ {p} : proc'[r] = proc[r]
    BY <1>0, <2>1
  <2>4. \A r \in Proc : Ordered(proc'[r])
    BY <2>2, <2>3 DEF StandoffInv, Ordered
  <2>5. ASSUME ~published
        PROVE  \E r \in Proc : Leads(proc'[r], lease')
    <3>1. CASE runs = 0
      <4>1. Leads(q, lease)
        BY <2>2, <3>1 DEF StandoffInv, Leads, Asking
      <4> QED BY <2>1, <2>3, <4>1
    <3>2. CASE runs # 0
      BY <2>1, <2>3, <2>5, <3>2 DEF StandoffInv, TypeOK, Leads, Asking
    <3> QED BY <3>1, <3>2
  <2>6. ~published' => \A r \in Proc : proc'[r].phase # "publish"
    BY <2>1, <2>2, <2>3 DEF StandoffInv
  <2>7. runs' # 0
    BY <2>1 DEF TypeOK
  <2> QED BY <2>1, <2>4, <2>5, <2>6, <2>7 DEF StandoffInv, Ordered, Leads, Asking
<1>2. ASSUME NEW plat \in Platform, Expire(plat)
      PROVE  StandoffInv'
  <2>1. /\ lease' = [lease EXCEPT ![plat].expired = TRUE] /\ lease[plat].owner # NoProc
        /\ runs' = runs /\ published' = published
        /\ \A r \in Proc : /\ proc'[r].phase = proc[r].phase
                           /\ proc'[r].acquired = proc[r].acquired
                           /\ proc'[r].wants = proc[r].wants
    BY <1>0, <1>2 DEF Expire, Process
  <2>2. \A other \in Platform : lease'[other].owner = lease[other].owner
    BY <1>0, <2>1 DEF Lease
  <2> QED BY <2>1, <2>2 DEF StandoffInv, Ordered, Leads, Asking
<1>3. CASE UNCHANGED vars
  BY <1>3 DEF vars, StandoffInv
<1>4. ASSUME NEW p \in Proc, Kill(p) \/ Reuse(p)
      PROVE  FALSE
  BY <1>4 DEF Kill, Reuse
<1> QED BY <1>1, <1>2, <1>3, <1>4, StandoffStep DEF Next

\* Of any number of runs that want each other's platforms, as long as none has
\* published, one is still asking: not all of them refuse.  Without faults: a kill
\* may take the run that leads.
THEOREM NobodyStandsOff ==
  ASSUME ~Faults
  PROVE  Spec => []NoStandoff
<1>1. StandoffInv => NoStandoff
  BY DEF StandoffInv, NoStandoff, Leads, Asking
<1>2. TypeOK /\ StandoffInv /\ [Next]_vars => StandoffInv'
  BY StandoffNext
<1> QED BY <1>1, <1>2, LeaseTypeCorrect, StandoffInit, PTL DEF Spec

=============================================================================
