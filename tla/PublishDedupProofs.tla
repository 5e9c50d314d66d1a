--------------------------- MODULE PublishDedupProofs ---------------------------
(***************************************************************************)
(* Theorems of PublishDedup, for any runs, processes, keys, modes and      *)
(* bounds.                                                                 *)
(***************************************************************************)
EXTENDS PublishDedup, FiniteSetTheorems, TLAPS

\* The row gate_and_claim commits is a row, whatever row it read.
LEMMA GateRowType ==
  ASSUME NEW r \in Row, NEW w \in Run, NEW force \in BOOLEAN, NEW u \in [Pid -> BOOLEAN]
  PROVE  GateRow(r, w, force, u) \in Row
<1>1. Claim(w) \in Row
  BY DEF Claim, Row, State
<1>2. [state |-> "uncertain", owner |-> NoRun, aged |-> FALSE] \in Row
  BY DEF Row, State
<1> QED
  BY <1>1, <1>2 DEF GateRow

\* Every job a run can be given is a job.
LEMMA JobType ==
  /\ Idle \in Job
  /\ \A k \in Key : Dispatching(k) \in Job
BY DEF Idle, Dispatching, Job, Phase, State

LEMMA InitType == Init => TypeOK
<1> SUFFICES ASSUME Init PROVE TypeOK
  OBVIOUS
<1>1. Absent \in Row
  BY DEF Absent, Row, State
<1> QED
  BY <1>1, JobType, BoundAssumption DEF Init, TypeOK

\* One step per action: no handler writes a row, a job or a counter outside
\* its type.
LEMMA NextType == TypeOK /\ [Next]_vars => TypeOK'
<1> SUFFICES ASSUME TypeOK, [Next]_vars PROVE TypeOK'
  OBVIOUS
<1> USE DEF TypeOK
<1>1. ASSUME NEW w \in Run, NEW k \in Key, NEW force \in BOOLEAN, GateEnforce(w, k, force)
      PROVE  TypeOK'
  <2>1. row' \in [Key -> Row]
    BY <1>1, GateRowType DEF GateEnforce
  <2>2. job' \in [Run -> Job]
    BY <1>1, JobType DEF GateEnforce
  <2>3. overrides' \in [Key -> 0..MaxOverrides]
    BY <1>1, BoundAssumption DEF GateEnforce
  <2> QED
    BY <1>1, <2>1, <2>2, <2>3 DEF GateEnforce
<1>2. ASSUME NEW w \in Run, NEW k \in Key, GateObserve(w, k)
      PROVE  TypeOK'
  <2>1. IntentRow(row[k], w) \in Row
    BY DEF IntentRow, Claim, Row, State
  <2>2. IntentWon(row[k]) \in BOOLEAN
    BY DEF IntentWon
  <2> QED
    BY <1>2, <2>1, <2>2, JobType DEF GateObserve
<1>3. ASSUME NEW w \in Run, NEW k \in Key, GateFault(w, k)
      PROVE  TypeOK'
  BY <1>3, JobType DEF GateFault
<1>4. ASSUME NEW w \in Run, Land(w)
      PROVE  TypeOK'
  <2>1. [job[w] EXCEPT !.sent = TRUE] \in Job
    BY DEF Job
  <2>2. job' \in [Run -> Job]
    BY <1>4, <2>1 DEF Land
  <2>3. posts' \in [Key -> 0..MaxPosts]
    <3>1. ASSUME NEW k \in Key, posts[k] < MaxPosts PROVE posts[k] + 1 \in 0..MaxPosts
      BY <3>1, BoundAssumption
    <3> QED
      BY <1>4, <3>1 DEF Land
  <2> QED
    BY <1>4, <2>2, <2>3 DEF Land
<1>5. ASSUME NEW w \in Run, Succeed(w)
      PROVE  TypeOK'
  <2>1. [job[w] EXCEPT !.phase = "settle", !.to = "done"] \in Job
    BY DEF Job, Phase, State
  <2> QED
    BY <1>5, <2>1 DEF Succeed
<1>6. ASSUME NEW w \in Run, NEW error_class \in ErrorClass, Fail(w, error_class)
      PROVE  TypeOK'
  <2>1. TerminalForErrorClass(error_class) \in State
    BY DEF TerminalForErrorClass, State
  <2>2. [job[w] EXCEPT !.phase = "settle",
                       !.to = TerminalForErrorClass(error_class)] \in Job
    BY <2>1 DEF Job, Phase
  <2> QED
    BY <1>6, <2>2 DEF Fail
<1>7. ASSUME NEW w \in Run, SettleRead(w)
      PROVE  TypeOK'
  <2>1. [job[w] EXCEPT !.phase = "write", !.allow = row[job[w].key].state = "failed"] \in Job
    BY DEF Job, Phase
  <2> QED
    BY <1>7, <2>1, JobType DEF SettleRead
<1>8. ASSUME NEW w \in Run, SettleWrite(w)
      PROVE  TypeOK'
  <2>1. ASSUME NEW k \in Key PROVE TransitionRow(row[k], job[w].to) \in Row
    BY DEF TransitionRow, Row, Job
  <2> QED
    BY <1>8, <2>1, JobType DEF SettleWrite
<1>9. ASSUME NEW w \in Run, Abandon(w)
      PROVE  TypeOK'
  BY <1>9, JobType DEF Abandon
<1>10. ASSUME NEW p \in Pid, ProcessStep(p)
       PROVE  TypeOK'
  BY <1>10, JobType DEF ProcessStep, Crash, Restart
<1>11. ASSUME NEW k \in Key, Age(k)
       PROVE  TypeOK'
  <2>1. row' \in [Key -> Row]
    BY <1>11 DEF Age, Row
  <2> QED
    BY <1>11, <2>1 DEF Age, OwnerInFlight
<1>12. ASSUME NEW k \in Key, Forget(k)
       PROVE  TypeOK'
  <2>1. Absent \in Row
    BY DEF Absent, Row, State
  <2> QED
    BY <1>12, <2>1, BoundAssumption DEF Forget
<1>13. ASSUME NEW k \in Key, NEW outcome \in Outcome, Adjudicate(k, outcome)
       PROVE  TypeOK'
  <2>1. TransitionRow(row[k], ToState(outcome)) \in Row
    BY DEF TransitionRow, ToState, Row, State
  <2> QED
    BY <1>13, <2>1 DEF Adjudicate
<1>14. CASE UNCHANGED vars
  BY <1>14 DEF vars
<1> QED
  BY <1>1, <1>2, <1>3, <1>4, <1>5, <1>6, <1>7, <1>8, <1>9, <1>10, <1>11, <1>12,
     <1>13, <1>14 DEF Next, RunStep, OperatorStep

\* Type correctness of the store, the runs and the history variables.
THEOREM TypeCorrect == Spec => []TypeOK
BY InitType, NextType, PTL DEF Spec

-----------------------------------------------------------------------------

LEMMA FlightInit == Init => FlightInv
BY KeyAssumption DEF Init, FlightInv, PhaseOK, OutcomeOK, ClaimOK, Idle, Absent

\* One step per action, and one per part of the invariant.  The interesting
\* ones are Fail (the contract is what makes a failed outcome mean that nothing
\* landed), SettleRead (only a failed row lets a terminal state be left, and
\* only for done) and Age (a claim that ages in contract has no run in flight).
LEMMA FlightNext == TypeOK /\ FlightInv /\ [Next]_vars => FlightInv'
<1> SUFFICES ASSUME TypeOK, FlightInv, [Next]_vars PROVE FlightInv'
  OBVIOUS
<1> USE RunAssumption, KeyAssumption
<1>1. ASSUME NEW w \in Run, NEW k \in Key, NEW force \in BOOLEAN, GateEnforce(w, k, force)
      PROVE  FlightInv'
  <2>1. \A v \in Run : PhaseOK(v)' /\ OutcomeOK(v)'
    BY <1>1 DEF GateEnforce, CanStart, TypeOK, Dispatching, Idle, FlightInv, PhaseOK, OutcomeOK, Job
  <2>2. \A l \in Key : ClaimOK(l)'
    BY <1>1 DEF GateEnforce, CanStart, TypeOK, Dispatching, Idle, GateRow, Claim, OwnerInFlight,
                FlightInv, PhaseOK, ClaimOK, Job, Row
  <2> QED
    BY <2>1, <2>2 DEF FlightInv
<1>2. ASSUME NEW w \in Run, NEW k \in Key, GateObserve(w, k)
      PROVE  FlightInv'
  <2>1. \A v \in Run : PhaseOK(v)' /\ OutcomeOK(v)'
    BY <1>2 DEF GateObserve, CanStart, TypeOK, Dispatching, Idle, FlightInv, PhaseOK, OutcomeOK, Job
  <2>2. \A l \in Key : ClaimOK(l)'
    BY <1>2 DEF GateObserve, CanStart, TypeOK, Dispatching, Idle, IntentRow, IntentWon, Claim,
                OwnerInFlight, FlightInv, PhaseOK, ClaimOK, Job, Row
  <2> QED
    BY <2>1, <2>2 DEF FlightInv
<1>3. ASSUME NEW w \in Run, NEW k \in Key, GateFault(w, k)
      PROVE  FlightInv'
  <2>1. \A v \in Run : PhaseOK(v)' /\ OutcomeOK(v)'
    BY <1>3 DEF GateFault, CanStart, TypeOK, Dispatching, Idle, FlightInv, PhaseOK, OutcomeOK, Job
  <2>2. \A l \in Key : ClaimOK(l)'
    BY <1>3 DEF GateFault, GateFaultVerdict, CanStart, TypeOK, Dispatching, Idle, OwnerInFlight,
                FlightInv, PhaseOK, ClaimOK, Job, Row
  <2> QED
    BY <2>1, <2>2 DEF FlightInv
<1>4. ASSUME NEW w \in Run, Land(w)
      PROVE  FlightInv'
  <2>1. \A v \in Run : PhaseOK(v)' /\ OutcomeOK(v)'
    BY <1>4 DEF Land, TypeOK, FlightInv, PhaseOK, OutcomeOK, Job
  <2>2. \A l \in Key : ClaimOK(l)'
    BY <1>4 DEF Land, TypeOK, OwnerInFlight, FlightInv, ClaimOK, Job, Row
  <2> QED
    BY <2>1, <2>2 DEF FlightInv
<1>5. ASSUME NEW w \in Run, Succeed(w)
      PROVE  FlightInv'
  <2>1. \A v \in Run : PhaseOK(v)' /\ OutcomeOK(v)'
    BY <1>5 DEF Succeed, TypeOK, FlightInv, PhaseOK, OutcomeOK, Job
  <2>2. \A l \in Key : ClaimOK(l)'
    BY <1>5 DEF Succeed, TypeOK, OwnerInFlight, FlightInv, ClaimOK, Job, Row
  <2> QED
    BY <2>1, <2>2 DEF FlightInv
<1>6. ASSUME NEW w \in Run, NEW error_class \in ErrorClass, Fail(w, error_class)
      PROVE  FlightInv'
  <2>1. job[w].phase = "dispatch" /\ job[w].key \in Key
    BY <1>6 DEF Fail, TypeOK, FlightInv, PhaseOK, Job
  <2>2. \A k \in Key : clean'[k] => clean[k]
    BY <1>6, <2>1 DEF Fail, TypeOK
  <2>3. TerminalForErrorClass(error_class) = "failed" /\ clean'[job[w].key] => ~job[w].sent
    BY <1>6, <2>1 DEF Fail, TypeOK, TerminalForErrorClass
  <2>4. \A v \in Run : PhaseOK(v)'
    BY <1>6, <2>1 DEF Fail, TerminalForErrorClass, TypeOK, FlightInv, PhaseOK, Job
  <2>5. \A v \in Run : OutcomeOK(v)'
    <3>1. OutcomeOK(w)'
      <4>1. /\ job'[w].key = job[w].key /\ job'[w].sent = job[w].sent
            /\ job'[w].to = TerminalForErrorClass(error_class)
        BY <1>6 DEF Fail, TypeOK, Job
      <4> QED
        BY <1>6, <4>1, <2>3 DEF Fail, FlightInv, OutcomeOK, TerminalForErrorClass
    <3>2. ASSUME NEW v \in Run, v # w PROVE OutcomeOK(v)'
      <4>1. job'[v] = job[v]
        BY <1>6, <3>2 DEF Fail, TypeOK
      <4>2. job[v].to = "failed" /\ clean'[job[v].key] => ~job[v].sent
        <5>1. CASE job[v].key \in Key
          BY <5>1, <2>2 DEF FlightInv, OutcomeOK
        <5>2. CASE job[v].key = NoKey
          BY <5>2 DEF FlightInv, OutcomeOK
        <5> QED
          BY <5>1, <5>2 DEF TypeOK, Job
      <4> QED
        BY <1>6, <4>1, <4>2 DEF Fail, FlightInv, OutcomeOK
    <3> QED
      BY <3>1, <3>2
  <2>6. \A l \in Key : ClaimOK(l)'
    <3>1. \A v \in Run : job'[v].key = job[v].key
      BY <1>6 DEF Fail, TypeOK, Job
    <3> QED
      BY <1>6, <2>2, <3>1 DEF Fail, TypeOK, OwnerInFlight, FlightInv, ClaimOK, Row
  <2> QED
    BY <2>4, <2>5, <2>6 DEF FlightInv
<1>7. ASSUME NEW w \in Run, SettleRead(w)
      PROVE  FlightInv'
  <2>1. ASSUME NEW v \in Run, v # w PROVE job'[v] = job[v]
    BY <1>7, <2>1 DEF SettleRead, TypeOK
  <2>2. CASE SettleIsNoop(row[job[w].key], job[w].to)
    <3>1. job'[w] = Idle
      BY <1>7, <2>2 DEF SettleRead, TypeOK
    <3>2. PhaseOK(w)' /\ OutcomeOK(w)'
      BY <3>1 DEF Idle, PhaseOK, OutcomeOK
    <3>3. \A l \in Key : ClaimOK(l)'
      BY <1>7, <2>1, <3>1 DEF SettleRead, Idle, TypeOK, OwnerInFlight, FlightInv, ClaimOK, Row
    <3>4. \A v \in Run : PhaseOK(v)' /\ OutcomeOK(v)'
      BY <1>7, <2>1, <3>2 DEF SettleRead, FlightInv, PhaseOK, OutcomeOK
    <3> QED
      BY <3>3, <3>4 DEF FlightInv
  <2>3. CASE ~SettleIsNoop(row[job[w].key], job[w].to)
    <3>1. /\ job'[w].phase = "write" /\ job'[w].allow = (row[job[w].key].state = "failed")
          /\ job'[w].key = job[w].key /\ job'[w].to = job[w].to /\ job'[w].sent = job[w].sent
      BY <1>7, <2>3 DEF SettleRead, TypeOK, Job
    <3>2. row[job[w].key].state = "failed" => job[w].to = "done"
      BY <2>3 DEF SettleIsNoop
    <3>3. PhaseOK(w)' /\ OutcomeOK(w)'
      BY <1>7, <3>1, <3>2 DEF SettleRead, FlightInv, PhaseOK, OutcomeOK
    <3>4. \A v \in Run : PhaseOK(v)' /\ OutcomeOK(v)'
      BY <1>7, <2>1, <3>3 DEF SettleRead, FlightInv, PhaseOK, OutcomeOK
    <3>5. \A l \in Key : ClaimOK(l)'
      BY <1>7, <2>1, <3>1 DEF SettleRead, TypeOK, OwnerInFlight, FlightInv, ClaimOK, Row
    <3> QED
      BY <3>4, <3>5 DEF FlightInv
  <2> QED
    BY <2>2, <2>3
<1>8. ASSUME NEW w \in Run, SettleWrite(w)
      PROVE  FlightInv'
  <2>1. \A v \in Run : PhaseOK(v)' /\ OutcomeOK(v)'
    BY <1>8 DEF SettleWrite, Idle, TypeOK, FlightInv, PhaseOK, OutcomeOK, Job
  <2>2. \A l \in Key : ClaimOK(l)'
    BY <1>8 DEF SettleWrite, TransitionRow, Idle, TypeOK, OwnerInFlight, FlightInv, ClaimOK, Job, Row
  <2> QED
    BY <2>1, <2>2 DEF FlightInv
<1>9. ASSUME NEW w \in Run, Abandon(w)
      PROVE  FlightInv'
  BY <1>9 DEF Abandon, Idle, TypeOK, OwnerInFlight, FlightInv, PhaseOK, OutcomeOK, ClaimOK, Job, Row
<1>10. ASSUME NEW p \in Pid, ProcessStep(p)
       PROVE  FlightInv'
  BY <1>10 DEF ProcessStep, Crash, Restart, Idle, TypeOK, OwnerInFlight, FlightInv, PhaseOK,
               OutcomeOK, ClaimOK, Job, Row
<1>11. ASSUME NEW k \in Key, Age(k)
       PROVE  FlightInv'
  BY <1>11 DEF Age, TypeOK, OwnerInFlight, FlightInv, PhaseOK, OutcomeOK, ClaimOK, Job, Row
<1>12. ASSUME NEW k \in Key, Forget(k)
       PROVE  FlightInv'
  BY <1>12 DEF Forget, Absent, TypeOK, OwnerInFlight, FlightInv, PhaseOK, OutcomeOK, ClaimOK, Job, Row
<1>13. ASSUME NEW k \in Key, NEW outcome \in Outcome, Adjudicate(k, outcome)
       PROVE  FlightInv'
  BY <1>13 DEF Adjudicate, TransitionRow, TypeOK, OwnerInFlight, FlightInv, PhaseOK, OutcomeOK,
               ClaimOK, Job, Row
<1>14. CASE UNCHANGED vars
  BY <1>14 DEF vars, OwnerInFlight, FlightInv, PhaseOK, OutcomeOK, ClaimOK
<1> QED
  BY <1>1, <1>2, <1>3, <1>4, <1>5, <1>6, <1>7, <1>8, <1>9, <1>10, <1>11, <1>12,
     <1>13, <1>14 DEF Next, RunStep, OperatorStep

\* What a run in flight and an aged claim may rely on, in every behaviour.
THEOREM FlightCorrect == Spec => []FlightInv
BY InitType, NextType, FlightInit, FlightNext, PTL DEF Spec

-----------------------------------------------------------------------------
(***************************************************************************)
(* Counting permits.  A step changes who may still post for a key, and     *)
(* whether its row may be opened again; these lemmas say what that does to *)
(* the number of permits.                                                  *)
(***************************************************************************)

LEMMA CountSmaller ==
  ASSUME NEW S \in SUBSET Run, NEW T \in SUBSET S
  PROVE  /\ Cardinality(S) \in Nat /\ Cardinality(T) \in Nat
         /\ Cardinality(T) <= Cardinality(S)
         /\ \A w \in S \ T : Cardinality(T) + 1 <= Cardinality(S)
<1>1. IsFiniteSet(S)
  BY FiniteAssumption, FS_Subset
<1>2. IsFiniteSet(T) /\ Cardinality(T) <= Cardinality(S)
  BY <1>1, FS_Subset
<1>3. Cardinality(S) \in Nat /\ Cardinality(T) \in Nat
  BY <1>1, <1>2, FS_CardinalityType
<1>4. ASSUME NEW w \in S \ T PROVE Cardinality(T) + 1 <= Cardinality(S)
  <2>1. T \in SUBSET (S \ {w})
    BY <1>4
  <2>2. IsFiniteSet(S \ {w}) /\ Cardinality(S \ {w}) = Cardinality(S) - 1
    BY <1>1, <1>4, FS_RemoveElement
  <2>3. Cardinality(T) <= Cardinality(S \ {w})
    BY <2>1, <2>2, FS_Subset
  <2> QED
    BY <1>3, <2>2, <2>3
<1> QED
  BY <1>2, <1>3, <1>4

LEMMA CountOneMore ==
  ASSUME NEW S \in SUBSET Run, NEW w \in Run, NEW T \in SUBSET (S \cup {w})
  PROVE  Cardinality(T) <= Cardinality(S) + 1
<1>1. IsFiniteSet(S)
  BY FiniteAssumption, FS_Subset
<1>2. /\ IsFiniteSet(S \cup {w})
      /\ Cardinality(S \cup {w}) = IF w \in S THEN Cardinality(S) ELSE Cardinality(S) + 1
  BY <1>1, FS_AddElement
<1>3. Cardinality(S) \in Nat /\ Cardinality(T) \in Nat /\ Cardinality(T) <= Cardinality(S \cup {w})
  BY <1>1, <1>2, FS_Subset, FS_CardinalityType
<1> QED
  BY <1>2, <1>3

LEMMA PermitsType == \A k \in Key : Permits(k) \in Nat /\ Permits(k)' \in Nat
<1> SUFFICES ASSUME NEW k \in Key PROVE Permits(k) \in Nat /\ Permits(k)' \in Nat
  OBVIOUS
<1>1. MayPost(k) \in SUBSET Run /\ MayPost(k)' \in SUBSET Run
  BY DEF MayPost
<1>2. Cardinality(MayPost(k)) \in Nat /\ Cardinality(MayPost(k)') \in Nat
  BY <1>1, CountSmaller
<1> QED
  BY <1>2 DEF Permits

\* Nobody new may post, and the row does not open.
LEMMA PermitsKept ==
  ASSUME NEW k \in Key, MayPost(k)' \subseteq MayPost(k), Reopenable(k)' => Reopenable(k)
  PROVE  Permits(k)' <= Permits(k)
<1>1. MayPost(k) \in SUBSET Run
  BY DEF MayPost
<1>2. /\ Cardinality(MayPost(k)) \in Nat /\ Cardinality(MayPost(k)') \in Nat
      /\ Cardinality(MayPost(k)') <= Cardinality(MayPost(k))
  BY <1>1, CountSmaller
<1> QED
  BY <1>2 DEF Permits

\* A run gives its permit up: at worst the row opens in exchange.
LEMMA PermitsGivenUp ==
  ASSUME NEW k \in Key, MayPost(k)' \subseteq MayPost(k),
         NEW w \in MayPost(k), w \notin MayPost(k)'
  PROVE  /\ Permits(k)' <= Permits(k)
         /\ (Reopenable(k)' => Reopenable(k)) => Permits(k)' < Permits(k)
<1>1. MayPost(k) \in SUBSET Run
  BY DEF MayPost
<1>2. /\ Cardinality(MayPost(k)) \in Nat /\ Cardinality(MayPost(k)') \in Nat
      /\ Cardinality(MayPost(k)') + 1 <= Cardinality(MayPost(k))
  BY <1>1, CountSmaller
<1> QED
  BY <1>2 DEF Permits

\* A run takes the permit of an open row, or one that an override grants.
LEMMA PermitsTaken ==
  ASSUME NEW k \in Key, NEW w \in Run, MayPost(k)' \subseteq MayPost(k) \cup {w}, ~Reopenable(k)'
  PROVE  /\ Permits(k)' <= Permits(k) + 1
         /\ Reopenable(k) => Permits(k)' <= Permits(k)
<1>1. MayPost(k) \in SUBSET Run /\ MayPost(k)' \in SUBSET Run
  BY DEF MayPost
<1>2. Cardinality(MayPost(k)') <= Cardinality(MayPost(k)) + 1
  BY <1>1, CountOneMore
<1>3. Cardinality(MayPost(k)) \in Nat /\ Cardinality(MayPost(k)') \in Nat
  BY <1>1, CountSmaller
<1> QED
  BY <1>2, <1>3 DEF Permits

\* The three ways a step may treat the budget of a key.
Spends(k) == Permits(k)' < Permits(k) /\ posts'[k] = posts[k] + 1 /\ overrides'[k] = overrides[k]
Loses(k)  == Permits(k)' <= Permits(k) /\ posts'[k] = posts[k] /\ overrides'[k] = overrides[k]
Grants(k) == Permits(k)' <= Permits(k) + 1 /\ posts'[k] = posts[k] /\ overrides'[k] = overrides[k] + 1

KeepsBudget(k) == clean'[k] => clean[k] /\ (Spends(k) \/ Loses(k) \/ Grants(k))

\* A key whose row, posts and runs a step leaves alone.
LEMMA OtherKey ==
  ASSUME NEW k \in Key, row'[k] = row[k], posts'[k] = posts[k], clean'[k] = clean[k],
         overrides'[k] = overrides[k], TypeOK,
         \A v \in Run : \/ job'[v] = job[v]
                        \/ job'[v].key # k /\ job[v].key # k
  PROVE  KeepsBudget(k)
<1>1. MayPost(k)' \subseteq MayPost(k)
  BY DEF MayPost
<1>2. OwnerInFlight(k)' <=> OwnerInFlight(k)
  BY DEF OwnerInFlight, TypeOK, Row
<1>3. Reopenable(k)' => Reopenable(k)
  BY <1>2 DEF Reopenable
<1> QED
  BY <1>1, <1>3, PermitsKept DEF KeepsBudget, Loses

LEMMA DispatchingFields ==
  \A k \in Key : Dispatching(k).key = k /\ ~Dispatching(k).sent /\ Dispatching(k).to = "absent"
BY DEF Dispatching, Idle

LEMMA BudgetGate ==
  ASSUME TypeOK, FlightInv, NEW w \in Run, NEW k \in Key, NEW force \in BOOLEAN, GateEnforce(w, k, force)
  PROVE  \A l \in Key : KeepsBudget(l)
<1>1. job[w].key = NoKey
  BY DEF GateEnforce, CanStart, FlightInv, PhaseOK
<1>2. ASSUME NEW l \in Key, l # k PROVE KeepsBudget(l)
  <2>1. \A v \in Run : job'[v] = job[v] \/ (job'[v].key # l /\ job[v].key # l)
    <3>1. job'[w] = job[w] \/ job'[w] = Dispatching(k)
      BY DEF GateEnforce, TypeOK
    <3>2. \A v \in Run : v # w => job'[v] = job[v]
      BY DEF GateEnforce, TypeOK
    <3> QED
      BY <1>1, <1>2, <3>1, <3>2, DispatchingFields, KeyAssumption
  <2> QED
    BY <1>2, <2>1, OtherKey DEF GateEnforce, TypeOK
<1>3. CASE GateVerdict(row[k], force, up) = "dispatch"
  <2>1. row'[k] = Claim(w) /\ job'[w] = Dispatching(k)
    BY <1>3 DEF GateEnforce, GateRow, TypeOK
  <2>2. MayPost(k)' \subseteq MayPost(k) \cup {w}
    BY <1>3 DEF GateEnforce, MayPost, TypeOK
  <2>3. ~Reopenable(k)'
    BY <2>1, DispatchingFields, RunAssumption DEF Reopenable, Claim, OwnerInFlight
  <2>4. \/ Reopenable(k) /\ overrides'[k] = overrides[k]
        \/ overrides'[k] = overrides[k] + 1
    <3>1. row[k].state \in {"absent", "failed"} \/ Overriding(k, force)
      BY <1>3 DEF GateVerdict, Overriding, TypeOK, Row, State
    <3> QED
      BY <3>1 DEF GateEnforce, Overriding, Reopenable, TypeOK
  <2>5. KeepsBudget(k)
    <3>1. CASE Reopenable(k) /\ overrides'[k] = overrides[k]
      BY <2>2, <2>3, <3>1, PermitsTaken DEF KeepsBudget, Loses, GateEnforce
    <3>2. CASE overrides'[k] = overrides[k] + 1
      BY <2>2, <2>3, <3>2, PermitsTaken DEF KeepsBudget, Grants, GateEnforce
    <3> QED
      BY <2>4, <3>1, <3>2
  <2> QED
    BY <1>2, <2>5
<1>4. CASE GateVerdict(row[k], force, up) # "dispatch"
  <2>1. job' = job /\ posts' = posts /\ clean' = clean /\ overrides'[k] = overrides[k]
    BY <1>4 DEF GateEnforce, Overriding, TypeOK
  <2>2. MayPost(k)' \subseteq MayPost(k)
    BY <2>1 DEF MayPost
  <2>3. clean[k] => (Reopenable(k)' => Reopenable(k))
    <3>1. CASE row'[k] = row[k]
      BY <2>1, <3>1 DEF Reopenable, OwnerInFlight
    <3>2. CASE IsStaleAttempting(row[k], up) /\ row'[k].state = "uncertain"
      <4>1. clean[k] => ~OwnerInFlight(k)
        BY <3>2, KeyAssumption DEF IsStaleAttempting, FlightInv, ClaimOK, PhaseOK, OwnerInFlight,
                                   TypeOK, Row
      <4> QED
        BY <2>1, <3>2, <4>1 DEF Reopenable, IsStaleAttempting
    <3> QED
      BY <1>4, <3>1, <3>2 DEF GateEnforce, GateRow, TypeOK
  <2>4. KeepsBudget(k)
    BY <2>1, <2>2, <2>3, PermitsKept DEF KeepsBudget, Loses
  <2> QED
    BY <1>2, <2>4
<1> QED
  BY <1>3, <1>4

LEMMA BudgetObserve ==
  ASSUME TypeOK, FlightInv, NEW w \in Run, NEW k \in Key, GateObserve(w, k) \/ GateFault(w, k)
  PROVE  \A l \in Key : KeepsBudget(l)
<1>1. job[w].key = NoKey
  BY DEF GateObserve, GateFault, CanStart, FlightInv, PhaseOK
<1>2. ASSUME NEW l \in Key, l # k PROVE KeepsBudget(l)
  <2>1. \A v \in Run : job'[v] = job[v] \/ (job'[v].key # l /\ job[v].key # l)
    <3>1. job'[w] = Dispatching(k)
      BY DEF GateObserve, GateFault, TypeOK
    <3>2. \A v \in Run : v # w => job'[v] = job[v]
      BY DEF GateObserve, GateFault, TypeOK
    <3> QED
      BY <1>1, <1>2, <3>1, <3>2, DispatchingFields, KeyAssumption
  <2> QED
    BY <1>2, <2>1, OtherKey DEF GateObserve, GateFault, TypeOK
<1>3. KeepsBudget(k)
  <2>1. CASE GateObserve(w, k) /\ row[k].state = "absent"
    <3>1. row'[k] = Claim(w) /\ job'[w] = Dispatching(k)
      BY <2>1 DEF GateObserve, IntentRow, IntentWon, TypeOK
    <3>2. MayPost(k)' \subseteq MayPost(k) \cup {w}
      BY <2>1 DEF GateObserve, MayPost, TypeOK
    <3>3. ~Reopenable(k)'
      BY <3>1, DispatchingFields, RunAssumption DEF Reopenable, Claim, OwnerInFlight
    <3>4. Permits(k)' <= Permits(k)
      BY <2>1, <3>2, <3>3, PermitsTaken DEF Reopenable
    <3> QED
      BY <2>1, <3>4 DEF GateObserve, KeepsBudget, Loses, TypeOK
  <2>2. CASE GateObserve(w, k) /\ row[k].state # "absent"
    BY <2>2 DEF GateObserve, IntentWon, KeepsBudget, TypeOK
  <2>3. CASE GateFault(w, k)
    BY <2>3 DEF GateFault, GateFaultVerdict, KeepsBudget, TypeOK
  <2> QED
    BY <2>1, <2>2, <2>3
<1> QED
  BY <1>2, <1>3

LEMMA BudgetDispatch ==
  ASSUME TypeOK, FlightInv, NEW w \in Run, NEW k \in Key, job[w].key = k,
         \/ Land(w)
         \/ Succeed(w)
         \/ \E error_class \in ErrorClass : Fail(w, error_class)
  PROVE  \A l \in Key : KeepsBudget(l)
<1>1. job[w].to = "absent"
  BY DEF Land, Succeed, Fail, FlightInv, PhaseOK
<1>2. \A v \in Run : v # w => job'[v] = job[v]
  BY DEF Land, Succeed, Fail, TypeOK
<1>3. job'[w].key = k
  <2>1. Land(w) => job'[w].key = k
    BY DEF Land, TypeOK, Job
  <2>2. Succeed(w) => job'[w].key = k
    BY DEF Succeed, TypeOK, Job
  <2>3. ASSUME NEW error_class \in ErrorClass, Fail(w, error_class) PROVE job'[w].key = k
    BY <2>3 DEF Fail, TypeOK, Job
  <2> QED
    BY <2>1, <2>2, <2>3
<1>4. row' = row /\ overrides' = overrides
  BY DEF Land, Succeed, Fail
<1>5. ASSUME NEW l \in Key, l # k PROVE KeepsBudget(l)
  <2>1. posts'[l] = posts[l] /\ clean'[l] = clean[l]
    BY <1>5 DEF Land, Succeed, Fail, TypeOK
  <2> QED
    BY <1>2, <1>3, <1>4, <1>5, <2>1, OtherKey
<1>6. OwnerInFlight(k)' <=> OwnerInFlight(k)
  BY <1>2, <1>3, <1>4 DEF OwnerInFlight, TypeOK, Row
<1>7. CASE Land(w)
  <2>1. job'[w].sent /\ ~job[w].sent /\ posts'[k] = posts[k] + 1 /\ clean' = clean
    BY <1>7 DEF Land, TypeOK, Job
  <2>2. w \in MayPost(k) /\ w \notin MayPost(k)' /\ MayPost(k)' \subseteq MayPost(k)
    BY <1>1, <1>2, <2>1 DEF MayPost
  <2>3. Reopenable(k)' => Reopenable(k)
    BY <1>4, <2>1 DEF Reopenable, TypeOK
  <2>4. KeepsBudget(k)
    BY <1>4, <2>1, <2>2, <2>3, PermitsGivenUp DEF KeepsBudget, Spends
  <2> QED
    BY <1>5, <2>4
<1>8. CASE Succeed(w) \/ \E error_class \in ErrorClass : Fail(w, error_class)
  <2>1. job'[w].sent = job[w].sent
    <3>1. Succeed(w) => job'[w].sent = job[w].sent
      BY DEF Succeed, TypeOK, Job
    <3>2. ASSUME NEW error_class \in ErrorClass, Fail(w, error_class)
          PROVE  job'[w].sent = job[w].sent
      BY <3>2 DEF Fail, TypeOK, Job
    <3> QED
      BY <1>8, <3>1, <3>2
  <2>2. posts' = posts /\ (clean'[k] => clean[k])
    BY <1>8 DEF Succeed, Fail, TypeOK
  <2>3. MayPost(k)' \subseteq MayPost(k)
    BY <1>1, <1>2, <2>1 DEF MayPost
  <2>4. Reopenable(k)' => Reopenable(k)
    BY <1>4, <1>6, <2>2 DEF Reopenable
  <2>5. KeepsBudget(k)
    BY <1>4, <2>2, <2>3, <2>4, PermitsKept DEF KeepsBudget, Loses
  <2> QED
    BY <1>5, <2>5
<1> QED
  BY <1>7, <1>8

\* A run drops the key it works on: if the row it owned opens, the run had not
\* posted and gives its own permit up.
LEMMA BudgetDropped ==
  ASSUME TypeOK, FlightInv, NEW k \in Key, NEW W \in SUBSET Run,
         \A w \in W : job'[w] = Idle,
         \A v \in Run \ W : job'[v] = job[v],
         row' = row, posts' = posts, clean' = clean, overrides' = overrides
  PROVE  KeepsBudget(k)
<1>1. \A w \in W : job'[w].key # k
  BY KeyAssumption DEF Idle
<1>2. MayPost(k)' \subseteq MayPost(k)
  BY <1>1 DEF MayPost
<1>3. CASE Reopenable(k)' => Reopenable(k)
  BY <1>2, <1>3, PermitsKept DEF KeepsBudget, Loses
<1>4. CASE Reopenable(k)' /\ ~Reopenable(k)
  <2>1. posts[k] = 0 /\ OwnerInFlight(k) /\ ~OwnerInFlight(k)'
    BY <1>4 DEF Reopenable
  <2> DEFINE o == row[k].owner
  <2>2. o \in Run /\ job[o].key = k /\ job'[o].key # k
    BY <2>1 DEF OwnerInFlight, TypeOK, Row
  <2>3. ~job[o].sent /\ job[o].to # "done"
    BY <2>1, <2>2 DEF FlightInv, OutcomeOK, TypeOK
  <2>4. o \in MayPost(k) /\ o \notin MayPost(k)'
    BY <2>2, <2>3 DEF MayPost
  <2> QED
    BY <1>2, <2>4, PermitsGivenUp DEF KeepsBudget, Loses
<1> QED
  BY <1>3, <1>4

LEMMA BudgetSettleRead ==
  ASSUME TypeOK, FlightInv, NEW w \in Run, SettleRead(w)
  PROVE  \A l \in Key : KeepsBudget(l)
<1>1. \A v \in Run : v # w => job'[v] = job[v]
  BY DEF SettleRead, TypeOK
<1>2. row' = row /\ posts' = posts /\ clean' = clean /\ overrides' = overrides
  BY DEF SettleRead
<1> SUFFICES ASSUME NEW l \in Key PROVE KeepsBudget(l)
  OBVIOUS
<1>3. CASE job'[w] = Idle
  <2> DEFINE W == {w}
  <2>1. /\ W \in SUBSET Run
        /\ \A v \in W : job'[v] = Idle
        /\ \A v \in Run \ W : job'[v] = job[v]
    BY <1>1, <1>3
  <2> HIDE DEF W
  <2> QED
    BY <1>2, <2>1, BudgetDropped
<1>4. CASE /\ job'[w].key = job[w].key
           /\ job'[w].sent = job[w].sent /\ job'[w].to = job[w].to
  <2>1. MayPost(l)' \subseteq MayPost(l)
    BY <1>1, <1>4 DEF MayPost
  <2>2. OwnerInFlight(l)' <=> OwnerInFlight(l)
    BY <1>1, <1>2, <1>4 DEF OwnerInFlight, TypeOK, Row
  <2>3. Reopenable(l)' => Reopenable(l)
    BY <1>2, <2>2 DEF Reopenable
  <2> QED
    BY <1>2, <2>1, <2>3, PermitsKept DEF KeepsBudget, Loses
<1>5. \/ job'[w] = Idle
      \/ job'[w].key = job[w].key /\ job'[w].sent = job[w].sent /\ job'[w].to = job[w].to
  BY DEF SettleRead, TypeOK, Job
<1> QED
  BY <1>3, <1>4, <1>5

\* The write that settles a row.  It opens the row only if it records failed, or
\* uncertain with no post live, over a claim in flight: then the run itself
\* never posted and gives its permit up.
LEMMA BudgetSettleWrite ==
  ASSUME TypeOK, FlightInv, NEW w \in Run, SettleWrite(w)
  PROVE  \A l \in Key : KeepsBudget(l)
<1>1. PICK k \in Key : job[w].key = k
  BY DEF SettleWrite, FlightInv, PhaseOK, TypeOK, Job
<1>2. /\ job'[w] = Idle
      /\ \A v \in Run : v # w => job'[v] = job[v]
      /\ posts' = posts /\ clean' = clean /\ overrides' = overrides
  BY DEF SettleWrite, TypeOK
<1>3. job'[w].key # k /\ job'[w].key \notin Key
  BY <1>2, KeyAssumption DEF Idle
<1>4. ASSUME NEW l \in Key, l # k PROVE KeepsBudget(l)
  <2>1. row'[l] = row[l]
    BY <1>1, <1>4 DEF SettleWrite, TypeOK
  <2> QED
    BY <1>1, <1>2, <1>3, <1>4, <2>1, OtherKey
<1>5. w \notin MayPost(k)' /\ MayPost(k)' \subseteq MayPost(k)
  BY <1>2, <1>3 DEF MayPost
<1>6. CASE w \in MayPost(k)
  <2>1. Permits(k)' <= Permits(k)
    BY <1>5, <1>6, PermitsGivenUp
  <2> QED
    BY <1>2, <1>4, <2>1 DEF KeepsBudget, Loses
<1>7. CASE w \notin MayPost(k)
  <2>1. job[w].sent /\ posts[k] > 0
    BY <1>1, <1>7 DEF MayPost, FlightInv, OutcomeOK
  <2>2. clean[k] => (Reopenable(k)' => Reopenable(k))
    <3>1. CASE CanTransition(row[k], job[w].allow, State)
      <4>1. row'[k].state = job[w].to
        BY <1>1, <3>1 DEF SettleWrite, TransitionRow, TypeOK, Row
      <4>2. job[w].to \in {"done", "uncertain", "failed"}
        BY DEF SettleWrite, FlightInv, PhaseOK
      <4>3. clean[k] => job[w].to # "failed"
        BY <1>1, <2>1 DEF FlightInv, OutcomeOK
      <4> QED
        BY <1>2, <2>1, <4>1, <4>2, <4>3 DEF Reopenable, TypeOK
    <3>2. CASE ~CanTransition(row[k], job[w].allow, State)
      <4>1. row'[k] = row[k] /\ row[k].state # "attempting"
        BY <1>1, <3>2 DEF SettleWrite, CanTransition, Terminal, TypeOK, Row
      <4> QED
        BY <1>2, <4>1 DEF Reopenable
    <3> QED
      BY <3>1, <3>2
  <2>3. KeepsBudget(k)
    BY <1>2, <1>5, <2>2, PermitsKept DEF KeepsBudget, Loses
  <2> QED
    BY <1>4, <2>3
<1> QED
  BY <1>6, <1>7

LEMMA BudgetProcess ==
  ASSUME TypeOK, FlightInv, NEW p \in Pid, ProcessStep(p)
  PROVE  \A l \in Key : KeepsBudget(l)
<1> SUFFICES ASSUME NEW l \in Key PROVE KeepsBudget(l)
  OBVIOUS
<1>1. CASE Crash(p)
  <2> DEFINE W == {w \in Run : PidOf[w] = p}
  <2>1. /\ \A w \in W : job'[w] = Idle
        /\ \A v \in Run \ W : job'[v] = job[v]
    BY <1>1 DEF Crash
  <2>2. W \in SUBSET Run
    OBVIOUS
  <2> HIDE DEF W
  <2> QED
    BY <1>1, <2>1, <2>2, BudgetDropped DEF Crash
<1>2. CASE Restart(p)
  BY <1>2, OtherKey DEF Restart
<1> QED
  BY <1>1, <1>2 DEF ProcessStep

LEMMA BudgetOperator ==
  ASSUME TypeOK, FlightInv, NEW k \in Key,
         Age(k) \/ Forget(k) \/ \E outcome \in Outcome : Adjudicate(k, outcome)
  PROVE  \A l \in Key : KeepsBudget(l)
<1>1. job' = job /\ posts' = posts
  BY DEF Age, Forget, Adjudicate
<1>2. ASSUME NEW l \in Key, l # k PROVE KeepsBudget(l)
  <2>1. row'[l] = row[l] /\ clean'[l] = clean[l] /\ overrides'[l] = overrides[l]
    BY <1>2 DEF Age, Forget, Adjudicate, TypeOK
  <2> QED
    BY <1>1, <2>1, OtherKey
<1>3. MayPost(k)' \subseteq MayPost(k)
  BY <1>1 DEF MayPost
<1>4. CASE Age(k)
  <2>1. /\ row'[k].state = row[k].state /\ row'[k].owner = row[k].owner
        /\ overrides' = overrides /\ (clean'[k] => clean[k])
    BY <1>4 DEF Age, TypeOK, Row
  <2>2. Reopenable(k)' => Reopenable(k)
    BY <1>1, <2>1 DEF Reopenable, OwnerInFlight
  <2>3. KeepsBudget(k)
    BY <1>1, <1>3, <2>1, <2>2, PermitsKept DEF KeepsBudget, Loses
  <2> QED
    BY <1>2, <2>3
<1>5. CASE Forget(k)
  <2>1. overrides'[k] = overrides[k] + 1 /\ clean' = clean
    BY <1>5 DEF Forget, TypeOK
  <2>2. Permits(k)' <= Permits(k) + 1
    <3>1. MayPost(k)' \in SUBSET MayPost(k) /\ MayPost(k) \in SUBSET Run
      BY <1>3 DEF MayPost
    <3>2. /\ Cardinality(MayPost(k)) \in Nat /\ Cardinality(MayPost(k)') \in Nat
          /\ Cardinality(MayPost(k)') <= Cardinality(MayPost(k))
      BY <3>1, CountSmaller
    <3> QED
      BY <3>2 DEF Permits
  <2>3. KeepsBudget(k)
    BY <1>1, <2>1, <2>2 DEF KeepsBudget, Grants
  <2> QED
    BY <1>2, <2>3
<1>6. ASSUME NEW outcome \in Outcome, Adjudicate(k, outcome) PROVE \A l \in Key : KeepsBudget(l)
  <2>1. row[k].state = "uncertain" /\ row'[k].state = ToState(outcome)
    <3>1. row' = [row EXCEPT ![k] = TransitionRow(@, ToState(outcome))]
      BY <1>6 DEF Adjudicate
    <3>2. row[k].state = "uncertain"
      BY <1>6 DEF Adjudicate, CanTransition
    <3> QED
      BY <3>1, <3>2 DEF TransitionRow, TypeOK, Row
  <2> DEFINE confirmed == outcome = "succeeded" <=> posts[k] > 0
  <2>2. overrides' = overrides /\ (clean'[k] => clean[k] /\ confirmed)
    <3>1. clean' = [clean EXCEPT ![k] = @ /\ confirmed]
      BY <1>6 DEF Adjudicate
    <3> HIDE DEF confirmed
    <3> QED
      BY <1>6, <3>1 DEF Adjudicate, TypeOK
  <2>4. clean'[k] => (Reopenable(k)' => Reopenable(k))
    BY <1>1, <2>1, <2>2 DEF Reopenable, ToState, Outcome, TypeOK
  <2>3. KeepsBudget(k)
    BY <1>1, <1>3, <2>2, <2>4, PermitsKept DEF KeepsBudget, Loses
  <2> QED
    BY <1>2, <2>3
<1> QED
  BY <1>4, <1>5, <1>6

\* Every step of the system keeps the budget of every key.
LEMMA BudgetStep ==
  TypeOK /\ FlightInv /\ [Next]_vars => \A k \in Key : KeepsBudget(k)
<1> SUFFICES ASSUME TypeOK, FlightInv, [Next]_vars PROVE \A k \in Key : KeepsBudget(k)
  OBVIOUS
<1>1. ASSUME NEW w \in Run, RunStep(w) PROVE \A k \in Key : KeepsBudget(k)
  <2>1. CASE \E k \in Key, force \in BOOLEAN : GateEnforce(w, k, force)
    BY <2>1, BudgetGate
  <2>2. CASE \E k \in Key : GateObserve(w, k) \/ GateFault(w, k)
    BY <2>2, BudgetObserve
  <2>3. CASE Land(w) \/ Succeed(w) \/ \E error_class \in ErrorClass : Fail(w, error_class)
    <3>1. PICK k \in Key : job[w].key = k
      BY <2>3 DEF Land, Succeed, Fail, FlightInv, PhaseOK, TypeOK, Job
    <3> QED
      BY <2>3, <3>1, BudgetDispatch
  <2>4. CASE SettleRead(w)
    BY <2>4, BudgetSettleRead
  <2>5. CASE SettleWrite(w)
    BY <2>5, BudgetSettleWrite
  <2>6. CASE Abandon(w)
    <3> DEFINE W == {w}
    <3>1. /\ W \in SUBSET Run
          /\ \A v \in W : job'[v] = Idle
          /\ \A v \in Run \ W : job'[v] = job[v]
      BY <2>6 DEF Abandon, TypeOK
    <3> HIDE DEF W
    <3> QED
      BY <2>6, <3>1, BudgetDropped DEF Abandon
  <2> QED
    BY <1>1, <2>1, <2>2, <2>3, <2>4, <2>5, <2>6 DEF RunStep
<1>2. ASSUME NEW p \in Pid, ProcessStep(p) PROVE \A k \in Key : KeepsBudget(k)
  BY <1>2, BudgetProcess
<1>3. ASSUME NEW k \in Key, OperatorStep(k) \/ Age(k) PROVE \A l \in Key : KeepsBudget(l)
  BY <1>3, BudgetOperator DEF OperatorStep
<1>4. CASE UNCHANGED vars
  BY <1>4, OtherKey DEF vars
<1> QED
  BY <1>1, <1>2, <1>3, <1>4 DEF Next

LEMMA InitPermits == Init => \A k \in Key : Permits(k) = 1
<1> SUFFICES ASSUME Init, NEW k \in Key PROVE Permits(k) = 1
  OBVIOUS
<1>1. MayPost(k) = {}
  BY KeyAssumption DEF Init, MayPost, Idle
<1>2. Reopenable(k)
  BY DEF Init, Reopenable, Absent
<1> QED
  BY <1>1, <1>2, FS_EmptySet DEF Permits

-----------------------------------------------------------------------------
(***************************************************************************)
(* PublishDedup implements PublishBudget, and what follows from it.        *)
(***************************************************************************)

\* The detailed specification implements the abstract one: the initial states
\* map to initial states, and every step to a step or a stutter.
THEOREM BudgetImplemented == Spec => ImplementsBudget
<1>1. Init => Budget!Init
  BY InitPermits DEF Init, Budget!Init
<1>2. TypeOK /\ FlightInv /\ [Next]_vars => [Budget!Next]_(Budget!vars)
  <2> SUFFICES ASSUME TypeOK, FlightInv, [Next]_vars PROVE Budget!Next
    OBVIOUS
  <2> SUFFICES ASSUME NEW k \in Key PROVE Budget!KeyStep(k)
    BY DEF Budget!Next
  <2>1. KeepsBudget(k)
    BY BudgetStep
  <2>2. clean[k] \in BOOLEAN /\ clean'[k] \in BOOLEAN
    BY NextType DEF TypeOK
  <2> QED
    BY <2>1, <2>2 DEF KeepsBudget, Spends, Loses, Grants, Budget!KeyStep, Budget!Spend,
                      Budget!Lose, Budget!Grant
<1> QED
  BY <1>1, <1>2, TypeCorrect, FlightCorrect, PTL DEF Spec, ImplementsBudget, Budget!Spec

LEMMA BudgetInit == Init => BudgetInv
BY InitPermits DEF Init, BudgetInv

LEMMA BudgetNext == TypeOK /\ FlightInv /\ BudgetInv /\ [Next]_vars => BudgetInv'
<1> SUFFICES ASSUME TypeOK, FlightInv, BudgetInv, [Next]_vars, NEW k \in Key, clean'[k]
             PROVE  posts'[k] + Permits(k)' <= 1 + overrides'[k]
  BY DEF BudgetInv
<1>1. KeepsBudget(k)
  BY BudgetStep
<1>2. posts[k] + Permits(k) <= 1 + overrides[k]
  BY <1>1 DEF KeepsBudget, BudgetInv
<1>3. posts[k] \in Nat /\ overrides[k] \in Nat /\ Permits(k) \in Nat /\ Permits(k)' \in Nat
  BY PermitsType, BoundAssumption DEF TypeOK
<1> QED
  BY <1>1, <1>2, <1>3 DEF KeepsBudget, Spends, Loses, Grants

\* The posts made and the permits left of a key never exceed one plus the
\* operator's overrides.
THEOREM BudgetCorrect == Spec => []BudgetInv
BY TypeCorrect, FlightCorrect, BudgetInit, BudgetNext, PTL DEF Spec

\* At most one post for a key in contract, plus one for every override,
\* whatever runs crash, race or settle late.
THEOREM PostsBounded == Spec => []AtMostOnePost
<1>1. TypeOK /\ BudgetInv => AtMostOnePost
  <2> SUFFICES ASSUME TypeOK, BudgetInv, NEW k \in Key, clean[k]
               PROVE  posts[k] <= 1 + overrides[k]
    BY DEF AtMostOnePost
  <2>1. posts[k] + Permits(k) <= 1 + overrides[k]
    BY DEF BudgetInv
  <2>2. posts[k] \in Nat /\ overrides[k] \in Nat /\ Permits(k) \in Nat
    BY PermitsType, BoundAssumption DEF TypeOK
  <2> QED
    BY <2>1, <2>2
<1> QED
  BY <1>1, TypeCorrect, BudgetCorrect, PTL

\* No key that the gate would dispatch by itself has a live post.
THEOREM RepublishSafe == Spec => []RepublishableIsNotLive
<1>1. TypeOK /\ BudgetInv => RepublishableIsNotLive
  <2> SUFFICES ASSUME TypeOK, BudgetInv, NEW k \in Key, InContract(k),
                      row[k].state \in {"absent", "failed"}
               PROVE  posts[k] = 0
    BY DEF RepublishableIsNotLive
  <2>1. posts[k] + Permits(k) <= 1
    BY DEF BudgetInv, InContract
  <2>2. Cardinality(MayPost(k)) \in Nat
    <3>1. MayPost(k) \in SUBSET Run
      BY DEF MayPost
    <3> QED
      BY <3>1, CountSmaller
  <2>3. posts[k] \in Nat
    BY BoundAssumption DEF TypeOK
  <2> QED
    BY <2>1, <2>2, <2>3 DEF Permits, Reopenable
<1> QED
  BY <1>1, TypeCorrect, BudgetCorrect, PTL

-----------------------------------------------------------------------------
(***************************************************************************)
(* The gate is single-flight, and done and held rows stay so.              *)
(***************************************************************************)

\* A key that is in contract after a step was in contract before it.
LEMMA ContractStep ==
  TypeOK /\ FlightInv /\ [Next]_vars => \A k \in Key : InContract(k)' => InContract(k)
<1> SUFFICES ASSUME TypeOK, FlightInv, [Next]_vars, NEW k \in Key, InContract(k)'
             PROVE  InContract(k)
  OBVIOUS
<1>1. KeepsBudget(k)
  BY BudgetStep
<1>2. overrides[k] \in Nat
  BY BoundAssumption DEF TypeOK
<1> QED
  BY <1>1, <1>2 DEF InContract, KeepsBudget, Spends, Loses, Grants

LEMMA SingleFlightInit == Init => SingleFlight
BY KeyAssumption DEF Init, SingleFlight, Idle

\* A claim in contract is taken only where no run is in flight (an absent or
\* failed row), and promoted only when its owner is gone.
LEMMA SingleFlightNext ==
  TypeOK /\ FlightInv /\ SingleFlight /\ [Next]_vars => SingleFlight'
<1> SUFFICES ASSUME TypeOK, FlightInv, SingleFlight, [Next]_vars,
                    NEW l \in Key, InContract(l)',
                    NEW v \in Run, job'[v].key = l
             PROVE  row'[l].state = "attempting" /\ row'[l].owner = v
  BY DEF SingleFlight
<1>1. InContract(l)
  BY ContractStep
<1>2. \A u \in Run : job[u].key = l => row[l].state = "attempting" /\ row[l].owner = u
  BY <1>1 DEF SingleFlight
<1>3. l # NoKey /\ \A u \in Run : job[u].key = l => job[u].phase # "idle" /\ up[PidOf[u]]
  BY KeyAssumption DEF FlightInv, PhaseOK
<1>4. ASSUME NEW w \in Run, NEW k \in Key, NEW force \in BOOLEAN, GateEnforce(w, k, force)
      PROVE  row'[l].state = "attempting" /\ row'[l].owner = v
  <2>1. CASE k # l
    <3>1. row'[l] = row[l] /\ job[v].key = l
      BY <1>4, <2>1, DispatchingFields DEF GateEnforce, TypeOK
    <3> QED
      BY <1>2, <3>1
  <2>2. CASE k = l /\ GateVerdict(row[k], force, up) = "dispatch"
    <3>1. ~Overriding(k, force)
      BY <1>4, <2>2, <1>1 DEF GateEnforce, TypeOK, InContract
    <3>2. row[k].state \in {"absent", "failed"}
      BY <2>2, <3>1 DEF Overriding, GateVerdict, TypeOK, Row, State
    <3>3. v = w
      BY <1>2, <1>4, <2>2, <3>2 DEF GateEnforce, TypeOK
    <3> QED
      BY <1>4, <2>2, <3>3 DEF GateEnforce, GateRow, Claim, TypeOK
  <2>3. CASE k = l /\ GateVerdict(row[k], force, up) # "dispatch"
    <3>1. job[v].key = l
      BY <1>4, <2>3 DEF GateEnforce
    <3>2. ~IsStaleAttempting(row[l], up)
      BY <1>1, <1>2, <1>3, <3>1, RunAssumption
         DEF IsStaleAttempting, FlightInv, ClaimOK, OwnerInFlight, InContract
    <3>3. row'[l] = row[l]
      BY <1>4, <2>3, <3>2 DEF GateEnforce, GateRow, TypeOK
    <3> QED
      BY <1>2, <3>1, <3>3
  <2> QED
    BY <2>1, <2>2, <2>3
<1>5. ASSUME NEW w \in Run, NEW k \in Key, GateObserve(w, k) \/ GateFault(w, k)
      PROVE  row'[l].state = "attempting" /\ row'[l].owner = v
  <2>1. CASE k # l
    <3>1. row'[l] = row[l] /\ job[v].key = l
      BY <1>5, <2>1, DispatchingFields DEF GateObserve, GateFault, TypeOK
    <3> QED
      BY <1>2, <3>1
  <2>2. CASE k = l
    <3>1. GateObserve(w, k) /\ row[k].state = "absent"
      BY <1>5, <2>2 DEF GateObserve, GateFault, GateFaultVerdict, IntentWon, InContract, TypeOK
    <3>2. v = w
      BY <1>2, <2>2, <3>1 DEF GateObserve, TypeOK
    <3> QED
      BY <2>2, <3>1, <3>2 DEF GateObserve, IntentRow, IntentWon, Claim, TypeOK
  <2> QED
    BY <2>1, <2>2
<1>6. ASSUME row' = row, job[v].key = l
      PROVE  row'[l].state = "attempting" /\ row'[l].owner = v
  BY <1>2, <1>6
<1>7. ASSUME NEW w \in Run, Land(w) \/ Succeed(w) \/ SettleRead(w) \/ Abandon(w)
      PROVE  row' = row /\ job[v].key = l
  <2>1. v # w => job'[v] = job[v]
    BY <1>7 DEF Land, Succeed, SettleRead, Abandon, TypeOK
  <2>2. job'[w].key = job[w].key \/ job'[w] = Idle
    <3>1. Land(w) \/ Succeed(w) => job'[w].key = job[w].key
      BY DEF Land, Succeed, TypeOK, Job
    <3>2. SettleRead(w) => job'[w].key = job[w].key \/ job'[w] = Idle
      BY DEF SettleRead, TypeOK, Job
    <3>3. Abandon(w) => job'[w] = Idle
      BY DEF Abandon, TypeOK
    <3> QED
      BY <1>7, <3>1, <3>2, <3>3
  <2> QED
    BY <1>3, <1>7, <2>1, <2>2 DEF Land, Succeed, SettleRead, Abandon, Idle
<1>8. ASSUME NEW w \in Run, NEW error_class \in ErrorClass, Fail(w, error_class)
      PROVE  row' = row /\ job[v].key = l
  BY <1>8 DEF Fail, TypeOK, Job
<1>9. ASSUME NEW w \in Run, SettleWrite(w)
      PROVE  row'[l].state = "attempting" /\ row'[l].owner = v
  <2>1. v # w /\ job[v].key = l
    BY <1>3, <1>9 DEF SettleWrite, Idle, TypeOK
  <2>2. job[w].key # l
    BY <1>2, <2>1
  <2>3. row'[l] = row[l]
    BY <1>9, <2>2 DEF SettleWrite, TypeOK
  <2> QED
    BY <1>2, <2>1, <2>3
<1>10. ASSUME NEW p \in Pid, ProcessStep(p)
       PROVE  row' = row /\ job[v].key = l
  BY <1>3, <1>10 DEF ProcessStep, Crash, Restart, Idle
<1>11. ASSUME NEW k \in Key, Age(k)
       PROVE  row'[l].state = "attempting" /\ row'[l].owner = v
  BY <1>2, <1>11 DEF Age, TypeOK, Row
<1>12. ASSUME NEW k \in Key, Forget(k)
       PROVE  row'[l].state = "attempting" /\ row'[l].owner = v
  BY <1>1, <1>2, <1>12 DEF Forget, TypeOK, InContract
<1>13. ASSUME NEW k \in Key, NEW outcome \in Outcome, Adjudicate(k, outcome)
       PROVE  row'[l].state = "attempting" /\ row'[l].owner = v
  <2>1. row' = [row EXCEPT ![k] = TransitionRow(@, ToState(outcome))] /\ job' = job
    BY <1>13 DEF Adjudicate
  <2>2. row[k].state = "uncertain"
    BY <1>13 DEF Adjudicate, CanTransition
  <2> QED
    BY <1>2, <2>1, <2>2 DEF TypeOK
<1>14. CASE UNCHANGED vars
  BY <1>6, <1>14 DEF vars
<1> QED
  BY <1>4, <1>5, <1>6, <1>7, <1>8, <1>9, <1>10, <1>11, <1>12, <1>13, <1>14
     DEF Next, RunStep, OperatorStep

\* In contract, a run in flight owns the attempting row of its key.
THEOREM GateIsSingleFlight == Spec => []SingleFlight
BY TypeCorrect, FlightCorrect, SingleFlightInit, SingleFlightNext, PTL DEF Spec

LEMMA DoneIsLiveInit == Init => DoneIsLive
BY DEF Init, DoneIsLive, Absent

\* Only a settle whose post landed and an adjudication that is right about the
\* platform write done; and a post that is live stays live.
LEMMA DoneIsLiveNext ==
  TypeOK /\ FlightInv /\ DoneIsLive /\ [Next]_vars => DoneIsLive'
<1> SUFFICES ASSUME TypeOK, FlightInv, DoneIsLive, [Next]_vars,
                    NEW l \in Key, clean'[l], row'[l].state = "done"
             PROVE  posts'[l] > 0
  BY DEF DoneIsLive
<1>1. clean[l]
  BY BudgetStep DEF KeepsBudget
<1>2. posts[l] > 0 => posts'[l] > 0
  <2>1. posts'[l] = posts[l] \/ posts'[l] = posts[l] + 1
    BY BudgetStep DEF KeepsBudget, Spends, Loses, Grants
  <2>2. posts[l] \in Nat
    BY BoundAssumption DEF TypeOK
  <2> QED
    BY <2>1, <2>2
<1>3. CASE row[l].state = "done"
  BY <1>1, <1>2, <1>3 DEF DoneIsLive
<1>4. CASE row[l].state # "done"
  <2>1. ASSUME NEW w \in Run, NEW k \in Key, NEW force \in BOOLEAN, GateEnforce(w, k, force)
        PROVE  FALSE
    BY <1>4, <2>1 DEF GateEnforce, GateRow, Claim, TypeOK, Row
  <2>2. ASSUME NEW w \in Run, NEW k \in Key, GateObserve(w, k) \/ GateFault(w, k)
        PROVE  FALSE
    BY <1>4, <2>2 DEF GateObserve, GateFault, IntentRow, Claim, TypeOK, Row
  <2>3. ASSUME NEW w \in Run, SettleWrite(w)
        PROVE  posts'[l] > 0
    <3>1. job[w].key = l /\ job[w].to = "done"
      BY <1>4, <2>3 DEF SettleWrite, TransitionRow, TypeOK, Row
    <3> QED
      BY <1>2, <3>1 DEF FlightInv, OutcomeOK
  <2>4. ASSUME NEW k \in Key, Age(k) \/ Forget(k)
        PROVE  FALSE
    BY <1>4, <2>4 DEF Age, Forget, Absent, TypeOK, Row
  <2>5. ASSUME NEW k \in Key, NEW outcome \in Outcome, Adjudicate(k, outcome)
        PROVE  posts'[l] > 0
    <3>1. row' = [row EXCEPT ![k] = TransitionRow(@, ToState(outcome))]
      BY <2>5 DEF Adjudicate
    <3>2. k = l /\ ToState(outcome) = "done"
      BY <1>4, <3>1 DEF TransitionRow, TypeOK, Row
    <3>3. outcome = "succeeded" <=> posts[k] > 0
      <4> DEFINE confirmed == outcome = "succeeded" <=> posts[k] > 0
      <4>1. clean' = [clean EXCEPT ![k] = @ /\ confirmed]
        BY <2>5 DEF Adjudicate
      <4>2. confirmed
        <5> HIDE DEF confirmed
        <5> QED
          BY <4>1, <3>2 DEF TypeOK
      <4> QED
        BY <4>2
    <3> QED
      BY <1>2, <3>2, <3>3 DEF ToState
  <2>6. ASSUME row' = row PROVE FALSE
    BY <1>4, <2>6
  <2>7. ASSUME NEW w \in Run,
               \/ Land(w) \/ Succeed(w) \/ SettleRead(w) \/ Abandon(w)
               \/ \E error_class \in ErrorClass : Fail(w, error_class)
        PROVE  row' = row
    BY <2>7 DEF Land, Succeed, SettleRead, Abandon, Fail
  <2>8. ASSUME NEW p \in Pid, ProcessStep(p) PROVE row' = row
    BY <2>8 DEF ProcessStep, Crash, Restart
  <2>9. CASE UNCHANGED vars
    BY <2>6, <2>9 DEF vars
  <2> QED
    BY <2>1, <2>2, <2>3, <2>4, <2>5, <2>6, <2>7, <2>8, <2>9 DEF Next, RunStep, OperatorStep
<1> QED
  BY <1>3, <1>4

\* A key the gate skips as published has a live post.
THEOREM DoneMeansLive == Spec => []DoneIsLive
BY TypeCorrect, FlightCorrect, DoneIsLiveInit, DoneIsLiveNext, PTL DEF Spec

LEMMA DoneStep ==
  TypeOK /\ FlightInv /\ [Next]_vars =>
    \A k \in Key : row[k].state = "done" =>
      row'[k].state = "done" \/ (row'[k] = Absent /\ overrides'[k] = overrides[k] + 1)
<1> SUFFICES ASSUME TypeOK, FlightInv, [Next]_vars, NEW l \in Key,
                    row[l].state = "done", row'[l].state # "done"
             PROVE  row'[l] = Absent /\ overrides'[l] = overrides[l] + 1
  OBVIOUS
<1>1. ASSUME NEW w \in Run, NEW k \in Key, NEW force \in BOOLEAN, GateEnforce(w, k, force)
      PROVE  FALSE
  BY <1>1 DEF GateEnforce, GateRow, GateVerdict, IsStaleAttempting, TypeOK
<1>2. ASSUME NEW w \in Run, NEW k \in Key, GateObserve(w, k) \/ GateFault(w, k)
      PROVE  FALSE
  BY <1>2 DEF GateObserve, GateFault, IntentRow, IntentWon, TypeOK
<1>3. ASSUME NEW w \in Run, SettleWrite(w)
      PROVE  FALSE
  <2>1. job[w].key = l /\ CanTransition(row[l], job[w].allow, State)
    BY <1>3 DEF SettleWrite, TypeOK
  <2>2. job[w].to = "done"
    BY <1>3, <2>1 DEF SettleWrite, CanTransition, Terminal, FlightInv, PhaseOK
  <2> QED
    BY <1>3, <2>1, <2>2 DEF SettleWrite, TransitionRow, TypeOK, Row
<1>4. ASSUME NEW k \in Key, Age(k)
      PROVE  FALSE
  BY <1>4 DEF Age, TypeOK
<1>5. ASSUME NEW k \in Key, Forget(k)
      PROVE  row'[l] = Absent /\ overrides'[l] = overrides[l] + 1
  BY <1>5 DEF Forget, TypeOK
<1>6. ASSUME NEW k \in Key, NEW outcome \in Outcome, Adjudicate(k, outcome)
      PROVE  FALSE
  <2>1. row' = [row EXCEPT ![k] = TransitionRow(@, ToState(outcome))]
    BY <1>6 DEF Adjudicate
  <2>2. row[k].state = "uncertain"
    BY <1>6 DEF Adjudicate, CanTransition
  <2> QED
    BY <2>1, <2>2 DEF TypeOK
<1>7. row' # row
  OBVIOUS
<1> QED
  BY <1>1, <1>2, <1>3, <1>4, <1>5, <1>6, <1>7
     DEF Next, RunStep, OperatorStep, ProcessStep, Land, Succeed, Fail, SettleRead, Abandon,
         Crash, Restart, vars

\* Only --forget takes a key out of done.
THEOREM DoneStaysDone == Spec => DoneIsFinal
BY TypeCorrect, FlightCorrect, DoneStep, PTL DEF Spec, DoneIsFinal

\* In contract, an uncertain row is left by an adjudication and by nothing else.
LEMMA HeldStep ==
  TypeOK /\ FlightInv /\ SingleFlight /\ [Next]_vars =>
    \A k \in Key : row[k].state = "uncertain" /\ clean'[k] /\ overrides'[k] = 0 =>
      row'[k].state = "uncertain" \/ \E outcome \in Outcome : Adjudicate(k, outcome)
<1> SUFFICES ASSUME TypeOK, FlightInv, SingleFlight, [Next]_vars, NEW l \in Key,
                    row[l].state = "uncertain", clean'[l], overrides'[l] = 0,
                    row'[l].state # "uncertain"
             PROVE  \E outcome \in Outcome : Adjudicate(l, outcome)
  OBVIOUS
<1>1. InContract(l)
  BY ContractStep DEF InContract
<1>2. ASSUME NEW w \in Run, NEW k \in Key, NEW force \in BOOLEAN, GateEnforce(w, k, force)
      PROVE  FALSE
  <2>1. k = l /\ GateVerdict(row[l], force, up) = "dispatch"
    BY <1>2 DEF GateEnforce, GateRow, IsStaleAttempting, TypeOK
  <2>2. force
    BY <2>1 DEF GateVerdict
  <2> QED
    BY <1>1, <1>2, <2>1, <2>2 DEF GateEnforce, Overriding, InContract, TypeOK
<1>3. ASSUME NEW w \in Run, NEW k \in Key, GateObserve(w, k) \/ GateFault(w, k)
      PROVE  FALSE
  BY <1>3 DEF GateObserve, GateFault, IntentRow, IntentWon, TypeOK
<1>4. ASSUME NEW w \in Run, SettleWrite(w)
      PROVE  FALSE
  <2>1. job[w].key = l
    BY <1>4 DEF SettleWrite, TypeOK
  <2> QED
    BY <1>1, <2>1 DEF SingleFlight
<1>5. ASSUME NEW k \in Key, Age(k)
      PROVE  FALSE
  BY <1>5 DEF Age, TypeOK
<1>6. ASSUME NEW k \in Key, Forget(k)
      PROVE  FALSE
  BY <1>1, <1>6 DEF Forget, InContract, TypeOK
<1>7. ASSUME NEW k \in Key, NEW outcome \in Outcome, Adjudicate(k, outcome)
      PROVE  k = l
  BY <1>7 DEF Adjudicate, TypeOK
<1>8. row' # row
  OBVIOUS
<1> QED
  BY <1>2, <1>3, <1>4, <1>5, <1>6, <1>7, <1>8
     DEF Next, RunStep, OperatorStep, ProcessStep, Land, Succeed, Fail, SettleRead, Abandon,
         Crash, Restart, vars

\* A key held for an operator stays held until the operator decides.
THEOREM HeldStaysHeld == Spec => HeldUntilAdjudicated
BY TypeCorrect, FlightCorrect, GateIsSingleFlight, HeldStep, PTL DEF Spec, HeldUntilAdjudicated

=============================================================================
