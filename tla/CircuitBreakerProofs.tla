------------------------- MODULE CircuitBreakerProofs -------------------------
(***************************************************************************)
(* What the lock of the circuit file guarantees for any number of workers  *)
(* and platforms, and any combination of faults: the entries a call read   *)
(* under the lock are still the entries of the file when it writes them    *)
(* back, so it changes its own entry only.                                 *)
(***************************************************************************)
EXTENDS CircuitBreaker, TLAPS

-----------------------------------------------------------------------------

LEMMA ClosedType == Closed \in Entry /\ NoEntries \in [Platform -> Entry]
BY DEF Closed, Entry, NoEntries

LEMMA NewCallType ==
  ASSUME NEW plat \in Platform, NEW publishes \in BOOLEAN
  PROVE  NewCall(plat, publishes) \in Call /\ NewCall(plat, publishes).pc = "gate"
BY ClosedType DEF NewCall, Call, PC

LEMMA IdleType == Idle \in Call /\ Idle.pc = "idle"
<1>1. (CHOOSE plat \in Platform : TRUE) \in Platform
  BY PlatformAssumption
<1>2. NewCall(CHOOSE plat \in Platform : TRUE, FALSE) \in Call
  BY <1>1, NewCallType
<1>. QED
  BY <1>2 DEF Idle, Call, PC

LEMMA WrittenType ==
  ASSUME NEW op, NEW e \in Entry
  PROVE  Written(op, e) \in Entry
BY DEF Written, Entry

LEMMA AgedType == \A e \in Entry : Aged(e) \in Entry
BY DEF Aged, Entry

LEMMA LostType ==
  ASSUME alerts \in [Platform -> News], NEW plat
  PROVE  Lost(plat) \in [Platform -> News]
BY DEF Lost, News

LEMMA SaturationType == Saturation \in Nat \ {0}
BY ThresholdAssumption DEF Saturation

\* The calls are well typed, and the lock belongs to the call that writes.
CallsOK ==
  /\ lock \in Worker \cup {NoWorker}
  /\ call \in [Worker -> Call]
  /\ \A w \in Worker : (call[w].pc = "write") <=> (lock = w)

StoresOK ==
  /\ file \in File
  /\ failures \in [Platform -> 0..Saturation]
  /\ alerts \in [Platform -> News]

LEMMA TypeOKParts == TypeOK <=> CallsOK /\ StoresOK
BY DEF TypeOK, CallsOK, StoresOK

LEMMA TypeInit == Init => TypeOK
<1>. SUFFICES ASSUME Init PROVE TypeOK
  OBVIOUS
<1>1. CallsOK
  BY IdleType, WorkerAssumption DEF Init, CallsOK
<1>2. StoresOK
  BY ClosedType, SaturationType DEF Init, StoresOK, File, News
<1>. QED
  BY <1>1, <1>2, TypeOKParts

\* A step of one call that does not touch the lock.
LEMMA OneCall ==
  ASSUME CallsOK, NEW w \in Worker, NEW c \in Call, call' = [call EXCEPT ![w] = c],
         call[w].pc # "write", c.pc # "write", UNCHANGED lock
  PROVE  CallsOK'
<1>1. call' \in [Worker -> Call]
  BY DEF CallsOK
<1>2. \A v \in Worker : call'[v] = IF v = w THEN c ELSE call[v]
  BY DEF CallsOK
<1>. QED
  BY <1>1, <1>2 DEF CallsOK

\* Goto and Ask leave a call that does not write.
LEMMA GotoOK ==
  ASSUME CallsOK, NEW w \in Worker, NEW pc \in PC \ {"write"}, Goto(w, pc),
         call[w].pc # "write", UNCHANGED lock
  PROVE  CallsOK'
<1>. DEFINE c == IF pc = "idle" THEN Idle ELSE [call[w] EXCEPT !.pc = pc]
<1>1. c \in Call /\ c.pc # "write"
  BY IdleType DEF CallsOK, Call
<1>2. call' = [call EXCEPT ![w] = c]
  BY DEF Goto, CallsOK
<1>. HIDE DEF c
<1>. QED
  BY <1>1, <1>2, OneCall

LEMMA AskOK ==
  ASSUME CallsOK, NEW w \in Worker, NEW op \in {"half_open", "renew", "success", "trip"},
         NEW alert \in BOOLEAN, Ask(w, op, alert), call[w].pc # "write", UNCHANGED lock
  PROVE  CallsOK'
<1>. DEFINE c == [call[w] EXCEPT !.pc = "lock", !.op = op, !.alert = alert]
<1>1. c \in Call /\ c.pc # "write"
  BY DEF CallsOK, Call, PC
<1>2. call' = [call EXCEPT ![w] = c]
  BY DEF Ask, CallsOK
<1>. HIDE DEF c
<1>. QED
  BY <1>1, <1>2, OneCall

-----------------------------------------------------------------------------

LEMMA CallsStep ==
  ASSUME TypeOK, NEW w \in Worker, Step(w)
  PROVE  CallsOK'
<1>0. CallsOK /\ call[w] \in Call /\ StoresOK
  BY TypeOKParts DEF CallsOK
<1>1. CASE Gate(w)
  <2>. DEFINE e == Seen(call[w].plat)
  <2>1. call[w].pc # "write" /\ UNCHANGED lock
    BY <1>1 DEF Gate
  <2>2. \/ Ask(w, "half_open", FALSE) \/ Ask(w, "renew", FALSE)
        \/ Goto(w, "idle")
        \/ Goto(w, "status")
        \/ Goto(w, "dispatch")
    BY <1>1 DEF Gate, Tripped, Pass
  <2>. QED
    BY <1>0, <2>1, <2>2, AskOK, GotoOK DEF PC
<1>2. CASE EnforceSkip(w)
  <2>1. call[w].pc # "write" /\ UNCHANGED lock
    BY <1>2 DEF EnforceSkip
  <2>2. Goto(w, "idle") \/ Goto(w, "dispatch")
    BY <1>2 DEF EnforceSkip
  <2>. QED
    BY <1>0, <2>1, <2>2, GotoOK DEF PC
<1>3. CASE Answer(w)
  <2>1. call[w].pc # "write" /\ UNCHANGED lock
    BY <1>3 DEF Answer
  <2>2. CASE Ask(w, "success", FALSE)
    BY <1>0, <2>1, <2>2, AskOK
  <2>3. CASE Goto(w, "banned") \/ Goto(w, "idle")
    BY <1>0, <2>1, <2>3, GotoOK DEF PC
  <2>4. ASSUME NEW limit \in {AuthThreshold, ErrorThreshold},
               call' = [call EXCEPT ![w] = [@ EXCEPT !.pc = "count", !.limit = limit]]
        PROVE  CallsOK'
    <3>. DEFINE c == [call[w] EXCEPT !.pc = "count", !.limit = limit]
    <3>1. c \in Call /\ c.pc # "write"
      BY <1>0, ThresholdAssumption DEF Call, PC
    <3>2. call' = [call EXCEPT ![w] = c]
      BY <1>0, <2>4 DEF CallsOK
    <3>. HIDE DEF c
    <3>. QED
      BY <1>0, <2>1, <3>1, <3>2, OneCall
  <2>. QED
    BY <1>3, <2>2, <2>3, <2>4 DEF Answer
<1>4. CASE Banned(w)
  <2>1. call[w].pc # "write" /\ UNCHANGED lock
    BY <1>4 DEF Banned
  <2>2. NewlyDegraded(call[w].plat) \in BOOLEAN
    BY DEF NewlyDegraded
  <2>. QED
    BY <1>0, <1>4, <2>1, <2>2, AskOK, GotoOK DEF Banned, PC
<1>5. ASSUME NEW fails \in BOOLEAN, Count(w, fails) PROVE CallsOK'
  <2>1. call[w].pc # "write" /\ UNCHANGED lock
    BY <1>5 DEF Count
  <2>2. Goto(w, "idle") \/ Goto(w, "compare")
    BY <1>5 DEF Count
  <2>. QED
    BY <1>0, <2>1, <2>2, GotoOK DEF PC
<1>6. ASSUME NEW fails \in BOOLEAN, Compare(w, fails) PROVE CallsOK'
  <2>1. call[w].pc # "write" /\ UNCHANGED lock
    BY <1>6 DEF Compare
  <2>2. Goto(w, "idle") \/ Ask(w, "trip", TRUE)
    BY <1>6 DEF Compare
  <2>. QED
    BY <1>0, <2>1, <2>2, GotoOK, AskOK DEF PC
<1>7. ASSUME NEW fails \in BOOLEAN, ResetFailures(w, fails) PROVE CallsOK'
  <2>1. call[w].pc # "write" /\ UNCHANGED lock
    BY <1>7 DEF ResetFailures
  <2>2. Goto(w, "idle") \/ Goto(w, "alert")
    BY <1>7 DEF ResetFailures
  <2>. QED
    BY <1>0, <2>1, <2>2, GotoOK DEF PC
<1>8. CASE Lock(w)
  <2>. DEFINE c == [call[w] EXCEPT !.pc = "write", !.snap = file.entry]
  <2>1. c \in Call /\ c.pc = "write"
    BY <1>0 DEF StoresOK, File, Call, PC
  <2>2. call' = [call EXCEPT ![w] = c] /\ lock' = w /\ lock = NoWorker
    BY <1>0, <1>8 DEF Lock, MayLock, CallsOK
  <2>. HIDE DEF c
  <2>3. call' \in [Worker -> Call]
    BY <1>0, <2>1, <2>2 DEF CallsOK
  <2>4. \A v \in Worker : call'[v] = IF v = w THEN c ELSE call[v]
    BY <1>0, <2>2 DEF CallsOK
  <2>. QED
    BY <1>0, <2>1, <2>2, <2>3, <2>4, WorkerAssumption DEF CallsOK
<1>9. CASE LockTimeout(w)
  <2>1. call[w].pc # "write" /\ UNCHANGED lock
    BY <1>9 DEF LockTimeout
  <2>. DEFINE c == [call[w] EXCEPT !.pc = "count", !.op = "none", !.limit = ErrorThreshold]
  <2>2. c \in Call /\ c.pc # "write"
    BY <1>0, ThresholdAssumption DEF Call, PC
  <2>3. CASE call[w].op = "success"
    <3>1. call' = [call EXCEPT ![w] = c]
      BY <1>0, <1>9, <2>3 DEF LockTimeout, CallsOK
    <3>. HIDE DEF c
    <3>. QED
      BY <1>0, <2>1, <2>2, <3>1, OneCall
  <2>4. CASE call[w].op # "success"
    BY <1>0, <1>9, <2>1, <2>4, GotoOK DEF LockTimeout, PC
  <2>. QED
    BY <2>3, <2>4
<1>10. CASE Write(w)
  <2>. DEFINE pc == IF Probes(w) THEN "dispatch" ELSE "reset"
              c == IF Probes(w) /\ ~call[w].publishes THEN Idle
                   ELSE [call[w] EXCEPT !.pc = pc, !.op = "none", !.snap = NoEntries]
  <2>1. c \in Call /\ c.pc # "write"
    BY <1>0, IdleType, ClosedType DEF Call, PC
  <2>2. call' = [call EXCEPT ![w] = c] /\ lock' = NoWorker /\ lock = w
    BY <1>0, <1>10 DEF Write, Goto, CallsOK
  <2>. HIDE DEF c
  <2>3. call' \in [Worker -> Call]
    BY <1>0, <2>1, <2>2 DEF CallsOK
  <2>4. \A v \in Worker : call'[v] = IF v = w THEN c ELSE call[v]
    BY <1>0, <2>2 DEF CallsOK
  <2>. QED
    BY <1>0, <2>1, <2>2, <2>3, <2>4, WorkerAssumption DEF CallsOK
<1>11. ASSUME NEW fails \in BOOLEAN, RecordDegraded(w, fails) PROVE CallsOK'
  BY <1>0, <1>11, GotoOK DEF RecordDegraded, PC
<1>12. CASE WriteRaises(w)
  <2>1. call[w].pc # "write" /\ UNCHANGED lock
    BY <1>12 DEF WriteRaises
  <2>2. Goto(w, "idle") \/ Goto(w, "status") \/ Goto(w, "dispatch")
    BY <1>12 DEF WriteRaises, Tripped, Pass
  <2>. QED
    BY <1>0, <2>1, <2>2, GotoOK DEF PC
<1>. QED
  BY <1>1, <1>2, <1>3, <1>4, <1>5, <1>6, <1>7, <1>8, <1>9, <1>10, <1>11, <1>12 DEF Step

LEMMA StoresStep ==
  ASSUME TypeOK, NEW w \in Worker, Step(w)
  PROVE  StoresOK'
<1>0. StoresOK /\ call[w] \in Call
  BY TypeOKParts DEF CallsOK
<1>1. CASE Gate(w) \/ EnforceSkip(w) \/ Answer(w) \/ Lock(w) \/ LockTimeout(w) \/ WriteRaises(w)
  BY <1>0, <1>1 DEF Gate, EnforceSkip, Answer, Lock, LockTimeout, WriteRaises, StoresOK
<1>2. ASSUME NEW fails \in BOOLEAN, Compare(w, fails) PROVE StoresOK'
  BY <1>0, <1>2 DEF Compare, StoresOK
<1>3. ASSUME NEW fails \in BOOLEAN, Count(w, fails) PROVE StoresOK'
  <2>1. /\ UNCHANGED <<file, alerts>>
        /\ failures' = IF fails \/ failures[call[w].plat] = Saturation THEN failures
                       ELSE [failures EXCEPT ![call[w].plat] = @ + 1]
    BY <1>3 DEF Count
  <2>2. call[w].plat \in Platform
    BY <1>0 DEF Call
  <2>3. failures' \in [Platform -> 0..Saturation]
    BY <1>0, <2>1, <2>2, SaturationType DEF StoresOK
  <2>. QED
    BY <1>0, <2>1, <2>3 DEF StoresOK
<1>4. ASSUME NEW fails \in BOOLEAN, ResetFailures(w, fails) PROVE StoresOK'
  <2>1. /\ UNCHANGED <<file, alerts>>
        /\ failures' = IF fails THEN failures ELSE [failures EXCEPT ![call[w].plat] = 0]
    BY <1>4 DEF ResetFailures
  <2>2. 0 \in 0..Saturation
    BY SaturationType
  <2>3. failures' \in [Platform -> 0..Saturation]
    <3>1. CASE fails
      BY <1>0, <2>1, <3>1 DEF StoresOK
    <3>2. CASE ~fails
      BY <1>0, <2>1, <2>2, <3>2 DEF StoresOK
    <3>. QED
      BY <3>1, <3>2
  <2>. QED
    BY <1>0, <2>1, <2>3 DEF StoresOK
<1>5. CASE Write(w)
  <2>1. call[w].snap \in [Platform -> Entry] /\ call[w].plat \in Platform
    BY <1>0 DEF Call
  <2>2. Written(call[w].op, call[w].snap[call[w].plat]) \in Entry
    BY <2>1, WrittenType
  <2>3. file' \in File
    BY <1>5, <2>1, <2>2 DEF Write, File
  <2>. QED
    BY <1>0, <1>5, <2>3 DEF Write, StoresOK
<1>6. ASSUME NEW fails \in BOOLEAN, RecordDegraded(w, fails) PROVE StoresOK'
  BY <1>0, <1>6, LostType DEF RecordDegraded, StoresOK, News
<1>7. CASE Banned(w)
  BY <1>0, <1>7, LostType DEF Banned, StoresOK
<1>. QED
  BY <1>1, <1>2, <1>3, <1>4, <1>5, <1>6, <1>7 DEF Step

\* The cooldown changes one entry of the file and of the copies.
LEMMA CoolEffect ==
  ASSUME TypeOK, NEW plat \in Platform, Cool(plat)
  PROVE  /\ file'.form = file.form
         /\ file'.entry = [file.entry EXCEPT ![plat] = Aged(@)]
         /\ file' \in File
         /\ \A w \in Worker : /\ call'[w] \in Call
                              /\ call'[w].pc = call[w].pc
                              /\ call'[w].plat = call[w].plat
                              /\ call'[w].snap = [call[w].snap EXCEPT ![plat] = Aged(@)]
<1>0. file \in File /\ call \in [Worker -> Call]
  BY DEF TypeOK
<1>1. file' = [file EXCEPT !.entry = [file.entry EXCEPT ![plat] = Aged(@)]]
  BY <1>0 DEF Cool, File
<1>2. [file.entry EXCEPT ![plat] = Aged(@)] \in [Platform -> Entry]
  BY <1>0, AgedType DEF File
<1>3. file'.form = file.form /\ file' \in File
      /\ file'.entry = [file.entry EXCEPT ![plat] = Aged(@)]
  BY <1>0, <1>1, <1>2 DEF File
<1>4. ASSUME NEW w \in Worker
      PROVE  /\ call'[w] \in Call
             /\ call'[w].pc = call[w].pc
             /\ call'[w].plat = call[w].plat
             /\ call'[w].snap = [call[w].snap EXCEPT ![plat] = Aged(@)]
  <2>. DEFINE snap == [call[w].snap EXCEPT ![plat] = Aged(@)]
  <2>1. snap \in [Platform -> Entry]
    BY <1>0, AgedType DEF Call
  <2>2. call'[w] = [call[w] EXCEPT !.snap = snap]
    BY <1>0 DEF Cool, Call
  <2>. QED
    BY <1>0, <2>1, <2>2 DEF Call
<1>. QED
  BY <1>3, <1>4

LEMMA TypeNext == TypeOK /\ [Next]_vars => TypeOK'
<1>. SUFFICES ASSUME TypeOK, [Next]_vars PROVE TypeOK'
  OBVIOUS
<1>0. CallsOK /\ StoresOK
  BY TypeOKParts
<1>1. ASSUME NEW w \in Worker, NEW plat \in Platform, NEW publishes \in BOOLEAN,
             Begin(w, plat, publishes)
      PROVE  TypeOK'
  <2>1. CallsOK'
    BY <1>0, <1>1, NewCallType, OneCall DEF Begin
  <2>. QED
    BY <1>0, <1>1, <2>1, TypeOKParts DEF Begin, StoresOK, TypeOK, CallsOK
<1>2. ASSUME NEW w \in Worker, Step(w) PROVE TypeOK'
  BY <1>2, CallsStep, StoresStep DEF TypeOK, CallsOK, StoresOK
<1>3. ASSUME NEW w \in Worker, Crash(w) PROVE TypeOK'
  <2>1. call' = [call EXCEPT ![w] = Idle]
    BY <1>3 DEF Crash, Goto
  <2>2. \A v \in Worker : call'[v] = IF v = w THEN Idle ELSE call[v]
    BY <1>0, <2>1 DEF CallsOK
  <2>3. CallsOK'
    BY <1>0, <1>3, <2>1, <2>2, IdleType, WorkerAssumption DEF Crash, CallsOK
  <2>. QED
    BY <1>0, <1>3, <2>3, LostType DEF Crash, StoresOK, TypeOK, CallsOK
<1>4. ASSUME NEW plat \in Platform, Cool(plat) PROVE TypeOK'
  <2>1. call' \in [Worker -> Call]
    BY <1>4, CoolEffect DEF Cool
  <2>2. \A w \in Worker : call'[w].pc = call[w].pc
    BY <1>4, CoolEffect
  <2>. QED
    BY <1>0, <1>4, <2>1, <2>2, CoolEffect DEF Cool, TypeOK, StoresOK
<1>5. ASSUME NEW plat \in Platform, ResetCircuit(plat) PROVE TypeOK'
  <2>1. [file.entry EXCEPT ![plat] = Closed] \in [Platform -> Entry]
    BY <1>0, ClosedType DEF StoresOK, File
  <2>2. file' \in File
    BY <1>5, <2>1 DEF ResetCircuit, File
  <2>3. alerts' \in [Platform -> News]
    BY <1>0, <1>5 DEF ResetCircuit, StoresOK, News
  <2>. QED
    BY <1>0, <1>5, <2>2, <2>3 DEF ResetCircuit, TypeOK
<1>6. ASSUME NEW form \in Damage, Corrupt(form) PROVE TypeOK'
  <2>1. file' \in File
    BY <1>6, ClosedType DEF Corrupt, File
  <2>. QED
    BY <1>6, <2>1 DEF Corrupt, TypeOK
<1>7. CASE UNCHANGED vars
  BY <1>7 DEF vars, TypeOK
<1>. QED
  BY <1>1, <1>2, <1>3, <1>4, <1>5, <1>6, <1>7 DEF Next

\* Every state of the breaker is well typed, and the lock is held exactly by the
\* call between its read and its write.
THEOREM CircuitTypeCorrect == Spec => []TypeOK
BY TypeInit, TypeNext, PTL DEF Spec

-----------------------------------------------------------------------------

\* What a call read under the lock is what the file still holds, unless the file
\* was damaged in the meantime.
SnapshotCurrent ==
  \A w \in Worker : call[w].pc = "write" /\ file.form = "ok" => call[w].snap = file.entry

LEMMA SnapshotInit == Init => SnapshotCurrent
BY IdleType DEF Init, SnapshotCurrent

\* While another call or nobody writes, a call keeps its copy.
LEMMA SnapshotKept ==
  ASSUME TypeOK, SnapshotCurrent, NEW w \in Worker, NEW c,
         call' = [call EXCEPT ![w] = c], c.pc # "write", UNCHANGED file
  PROVE  SnapshotCurrent'
<1>1. \A v \in Worker : call'[v] = IF v = w THEN c ELSE call[v]
  BY DEF TypeOK
<1>. QED
  BY <1>1 DEF SnapshotCurrent

LEMMA SnapshotStep ==
  ASSUME TypeOK, SnapshotCurrent, NEW w \in Worker, Step(w)
  PROVE  SnapshotCurrent'
<1>0. call \in [Worker -> Call] /\ \A v \in Worker : (call[v].pc = "write") <=> (lock = v)
  BY DEF TypeOK
<1>1. CASE Lock(w)
  <2>1. call' = [call EXCEPT ![w] = [@ EXCEPT !.pc = "write", !.snap = file.entry]]
        /\ file' = file
    BY <1>1 DEF Lock
  <2>2. call'[w].snap = file.entry /\ \A v \in Worker \ {w} : call'[v] = call[v]
    BY <1>0, <2>1 DEF Call
  <2>. QED
    BY <2>1, <2>2 DEF SnapshotCurrent
<1>2. CASE Write(w)
  <2>1. lock = w /\ call[w].pc = "write"
    BY <1>0, <1>2 DEF Write
  <2>2. \A v \in Worker \ {w} : call[v].pc # "write"
    BY <1>0, <2>1
  <2>3. \A v \in Worker : call'[v].pc # "write"
    <3>1. lock' = NoWorker
      BY <1>2 DEF Write
    <3>2. CallsOK'
      BY CallsStep
    <3>. QED
      BY <3>1, <3>2, WorkerAssumption DEF CallsOK
  <2>. QED
    BY <2>3 DEF SnapshotCurrent
<1>3. CASE ~Lock(w) /\ ~Write(w)
  <2>1. file' = file
    BY <1>3 DEF Step, Gate, EnforceSkip, Answer, Banned, Count, Compare, LockTimeout, WriteRaises,
                ResetFailures, RecordDegraded
  <2>2. /\ lock' = lock
        /\ \A v \in Worker \ {w} : call'[v] = call[v]
    BY <1>0, <1>3 DEF Step, Gate, EnforceSkip, Answer, Banned, Count, Compare, LockTimeout, WriteRaises,
                ResetFailures, RecordDegraded, Goto, Ask
  <2>3. call[w].pc # "write"
    BY <1>3 DEF Step, Gate, EnforceSkip, Answer, Banned, Count, Compare, LockTimeout, WriteRaises,
                ResetFailures, RecordDegraded
  <2>4. call'[w].pc # "write"
    <3>1. CallsOK'
      BY CallsStep
    <3>. QED
      BY <1>0, <2>2, <2>3, <3>1 DEF CallsOK
  <2>. QED
    BY <2>1, <2>2, <2>4 DEF SnapshotCurrent
<1>. QED
  BY <1>1, <1>2, <1>3

LEMMA SnapshotNext == TypeOK /\ SnapshotCurrent /\ [Next]_vars => SnapshotCurrent'
<1>. SUFFICES ASSUME TypeOK, SnapshotCurrent, [Next]_vars PROVE SnapshotCurrent'
  OBVIOUS
<1>0. call \in [Worker -> Call] /\ \A v \in Worker : (call[v].pc = "write") <=> (lock = v)
  BY DEF TypeOK
<1>1. ASSUME NEW w \in Worker, NEW plat \in Platform, NEW publishes \in BOOLEAN,
             Begin(w, plat, publishes)
      PROVE  SnapshotCurrent'
  BY <1>1, NewCallType, SnapshotKept DEF Begin
<1>2. ASSUME NEW w \in Worker, Step(w) PROVE SnapshotCurrent'
  BY <1>2, SnapshotStep
<1>3. ASSUME NEW w \in Worker, Crash(w) PROVE SnapshotCurrent'
  BY <1>3, IdleType, SnapshotKept DEF Crash, Goto
<1>4. ASSUME NEW plat \in Platform, Cool(plat) PROVE SnapshotCurrent'
  BY <1>4, CoolEffect DEF SnapshotCurrent
<1>5. ASSUME NEW plat \in Platform, ResetCircuit(plat) PROVE SnapshotCurrent'
  BY <1>0, <1>5, WorkerAssumption DEF ResetCircuit, SnapshotCurrent
<1>6. ASSUME NEW form \in Damage, Corrupt(form) PROVE SnapshotCurrent'
  BY <1>6 DEF Corrupt, Damage, SnapshotCurrent
<1>7. CASE UNCHANGED vars
  BY <1>7 DEF vars, SnapshotCurrent
<1>. QED
  BY <1>1, <1>2, <1>3, <1>4, <1>5, <1>6, <1>7 DEF Next

\* Only the holder of the lock writes entries back, and it changes its own.
KeepsOthers ==
  \A w \in Worker : call[w].pc = "write" /\ call'[w].pc # "write" /\ file.form = "ok" =>
    \A plat \in Platform \ {call[w].plat} : file'.entry[plat] = file.entry[plat]

LEMMA OthersStep == TypeOK /\ SnapshotCurrent /\ [Next]_vars => KeepsOthers
<1>. SUFFICES ASSUME TypeOK, SnapshotCurrent, [Next]_vars,
                     NEW w \in Worker, call[w].pc = "write", call'[w].pc # "write",
                     file.form = "ok", NEW plat \in Platform \ {call[w].plat}
              PROVE  file'.entry[plat] = file.entry[plat]
  BY DEF KeepsOthers
<1>0. /\ call \in [Worker -> Call]
      /\ \A v \in Worker : (call[v].pc = "write") <=> (lock = v)
      /\ file \in File
  BY DEF TypeOK
<1>2. CASE Write(w)
  <2>1. file'.entry = [call[w].snap EXCEPT ![call[w].plat] = Written(call[w].op, @)]
    BY <1>2 DEF Write
  <2>2. call[w].snap = file.entry
    BY DEF SnapshotCurrent
  <2>. QED
    BY <1>0, <2>1, <2>2 DEF File
<1>3. ASSUME NEW v \in Worker, Step(v), ~Write(v) PROVE file' = file
  BY <1>3 DEF Step, Gate, EnforceSkip, Answer, Banned, Count, Compare, Lock, LockTimeout, WriteRaises,
              ResetFailures, RecordDegraded
<1>4. ASSUME NEW v \in Worker, Write(v), v # w PROVE FALSE
  BY <1>0, <1>4 DEF Write
<1>5. ASSUME NEW v \in Worker, NEW p, NEW publishes, Begin(v, p, publishes)
      PROVE  file' = file
  BY <1>5 DEF Begin
<1>6. ASSUME NEW v \in Worker, Crash(v) PROVE file' = file
  BY <1>6 DEF Crash
<1>7. ASSUME NEW p \in Platform, Cool(p) PROVE FALSE
  BY <1>7, CoolEffect
<1>8. ASSUME NEW p \in Platform, ResetCircuit(p) PROVE FALSE
  BY <1>8 DEF ResetCircuit
<1>9. ASSUME NEW form \in Damage, Corrupt(form) PROVE FALSE
  BY <1>9 DEF Corrupt
<1>10. CASE UNCHANGED vars
  BY <1>10 DEF vars
<1>. QED
  BY <1>2, <1>3, <1>4, <1>5, <1>6, <1>7, <1>8, <1>9, <1>10 DEF Next

\* The call that writes the file for one platform leaves the entries of all the
\* others as they are: no trip of another platform is lost.
THEOREM TripsNotLost == Spec => OthersKept
<1>1. TypeOK /\ SnapshotCurrent /\ [Next]_vars => [KeepsOthers]_vars
  BY OthersStep
<1>2. Spec => []SnapshotCurrent
  BY CircuitTypeCorrect, SnapshotInit, SnapshotNext, PTL DEF Spec
<1>3. Spec => [][KeepsOthers]_vars
  BY <1>1, <1>2, CircuitTypeCorrect, PTL DEF Spec
<1>. QED
  BY <1>3, PTL DEF OthersKept, KeepsOthers

-----------------------------------------------------------------------------
(***************************************************************************)
(* CircuitBreaker implements AtomicCircuits.  The write of a call is one   *)
(* step of a circuit because what the call read is what the file still     *)
(* holds (SnapshotCurrent); and it may mend a damaged file with what it    *)
(* read before the damage, so that also these copies have to be healthy.   *)
(***************************************************************************)

Healthy(entries) == \A plat \in Platform : Circuits!Healthy(entries[plat])

HealthyInv ==
  /\ Healthy(file.entry)
  /\ \A w \in Worker : Healthy(call[w].snap)
  /\ file.form # "ok" => file.entry = NoEntries

LEMMA HealthyEntries ==
  /\ Healthy(NoEntries)
  /\ \A e \in Entry : Circuits!Healthy(e) => Circuits!Healthy(Aged(e))
  /\ \A op : \A e \in Entry : Circuits!Healthy(e) => Circuits!Healthy(Written(op, e))
BY DEF Healthy, Circuits!Healthy, NoEntries, Closed, Entry, Aged, Written

LEMMA NoSnap ==
  /\ Idle.snap = NoEntries
  /\ \A plat, publishes : NewCall(plat, publishes).snap = NoEntries
BY DEF Idle, NewCall

\* What a call holds of the file it has had, or nothing, or read it just now.
LEMMA SnapStep ==
  ASSUME TypeOK, NEW w \in Worker, Step(w)
  PROVE  \A v \in Worker : call'[v].snap \in {call[v].snap, NoEntries, file.entry}
<1>0. call \in [Worker -> Call] /\ call[w] \in Call
  BY DEF TypeOK
<1>1. ASSUME NEW c, call' = [call EXCEPT ![w] = c], c.snap \in {call[w].snap, NoEntries, file.entry}
      PROVE  \A v \in Worker : call'[v].snap \in {call[v].snap, NoEntries, file.entry}
  BY <1>0, <1>1
<1>2. ASSUME NEW pc, Goto(w, pc)
      PROVE  \A v \in Worker : call'[v].snap \in {call[v].snap, NoEntries, file.entry}
  BY <1>0, <1>2, NoSnap DEF Goto, Call
<1>3. ASSUME NEW op, NEW alert, Ask(w, op, alert)
      PROVE  \A v \in Worker : call'[v].snap \in {call[v].snap, NoEntries, file.entry}
  BY <1>0, <1>3 DEF Ask, Call
<1>4. CASE Gate(w) \/ EnforceSkip(w)
  <2>1. \/ Ask(w, "half_open", FALSE) \/ Ask(w, "renew", FALSE)
        \/ Goto(w, "idle") \/ Goto(w, "status") \/ Goto(w, "dispatch")
    BY <1>4 DEF Gate, EnforceSkip, Tripped, Pass
  <2>. QED
    BY <1>2, <1>3, <2>1
<1>5. CASE Answer(w)
  <2>1. ASSUME NEW limit,
               call' = [call EXCEPT ![w] = [@ EXCEPT !.pc = "count", !.limit = limit]]
        PROVE  \A v \in Worker : call'[v].snap \in {call[v].snap, NoEntries, file.entry}
    <3>. DEFINE c == [call[w] EXCEPT !.pc = "count", !.limit = limit]
    <3>1. call' = [call EXCEPT ![w] = c] /\ c.snap = call[w].snap
      BY <1>0, <2>1 DEF Call
    <3>. HIDE DEF c
    <3>. QED
      BY <1>1, <3>1
  <2>. QED
    BY <1>2, <1>3, <1>5, <2>1 DEF Answer
<1>6. CASE Banned(w)
  <2>1. PICK alert : alert = NewlyDegraded(call[w].plat)
    OBVIOUS
  <2>. QED
    BY <1>2, <1>3, <1>6, <2>1 DEF Banned
<1>7. ASSUME NEW fails \in BOOLEAN, Count(w, fails) \/ Compare(w, fails) \/ ResetFailures(w, fails)
      PROVE  \A v \in Worker : call'[v].snap \in {call[v].snap, NoEntries, file.entry}
  <2>1. \/ Goto(w, "idle") \/ Goto(w, "compare") \/ Goto(w, "alert") \/ Ask(w, "trip", TRUE)
    BY <1>7 DEF Count, Compare, ResetFailures
  <2>. QED
    BY <1>2, <1>3, <2>1
<1>8. CASE Lock(w)
  <2>. DEFINE c == [call[w] EXCEPT !.pc = "write", !.snap = file.entry]
  <2>1. call' = [call EXCEPT ![w] = c] /\ c.snap = file.entry
    BY <1>0, <1>8 DEF Lock, Call
  <2>. HIDE DEF c
  <2>. QED
    BY <1>1, <2>1
<1>9. CASE LockTimeout(w)
  <2>. DEFINE c == [call[w] EXCEPT !.pc = "count", !.op = "none", !.limit = ErrorThreshold]
  <2>1. c.snap = call[w].snap
    BY <1>0 DEF Call
  <2>2. call' = [call EXCEPT ![w] = c] \/ Goto(w, "idle")
    BY <1>0, <1>9 DEF LockTimeout
  <2>. HIDE DEF c
  <2>. QED
    BY <1>1, <1>2, <2>1, <2>2
<1>10. CASE Write(w)
  <2>. DEFINE pc == IF Probes(w) THEN "dispatch" ELSE "reset"
              c == [call[w] EXCEPT !.pc = pc, !.op = "none", !.snap = NoEntries]
  <2>1. c.snap = NoEntries
    BY <1>0 DEF Call
  <2>2. call' = [call EXCEPT ![w] = c] \/ Goto(w, "idle")
    BY <1>0, <1>10 DEF Write
  <2>. HIDE DEF c
  <2>. QED
    BY <1>1, <1>2, <2>1, <2>2
<1>11. ASSUME NEW fails \in BOOLEAN, RecordDegraded(w, fails)
       PROVE  \A v \in Worker : call'[v].snap \in {call[v].snap, NoEntries, file.entry}
  BY <1>2, <1>11 DEF RecordDegraded
<1>12. CASE WriteRaises(w)
  <2>1. Goto(w, "idle") \/ Goto(w, "status") \/ Goto(w, "dispatch")
    BY <1>12 DEF WriteRaises, Tripped, Pass
  <2>. QED
    BY <1>2, <2>1
<1>. QED
  BY <1>4, <1>5, <1>6, <1>7, <1>8, <1>9, <1>10, <1>11, <1>12 DEF Step

LEMMA HealthyInit == Init => HealthyInv
BY HealthyEntries, NoSnap DEF Init, HealthyInv

\* What a call writes, over whatever it read.
LEMMA WriteHeals ==
  ASSUME TypeOK, HealthyInv, NEW w \in Worker, Write(w)
  PROVE  Healthy(file'.entry) /\ file'.form = "ok"
<1>1. call[w].snap \in [Platform -> Entry] /\ Healthy(call[w].snap)
  BY DEF TypeOK, Call, HealthyInv
<1>2. /\ file'.form = "ok"
      /\ file'.entry = [call[w].snap EXCEPT ![call[w].plat] = Written(call[w].op, call[w].snap[call[w].plat])]
  BY DEF Write
<1>3. \A plat \in Platform : file'.entry[plat] \in
        {call[w].snap[plat], Written(call[w].op, call[w].snap[plat])}
  BY <1>1, <1>2
<1>4. ASSUME NEW plat \in Platform PROVE Circuits!Healthy(file'.entry[plat])
  <2>1. call[w].snap[plat] \in Entry /\ Circuits!Healthy(call[w].snap[plat])
    BY <1>1 DEF Healthy
  <2>2. Circuits!Healthy(Written(call[w].op, call[w].snap[plat]))
    BY <2>1, HealthyEntries
  <2>. QED
    BY <1>3, <2>1, <2>2
<1>. QED
  BY <1>2, <1>4 DEF Healthy

LEMMA HealthyNext == TypeOK /\ HealthyInv /\ [Next]_vars => HealthyInv'
<1>. SUFFICES ASSUME TypeOK, HealthyInv, [Next]_vars PROVE HealthyInv'
  OBVIOUS
<1>0. /\ Healthy(file.entry) /\ Healthy(NoEntries) /\ \A v \in Worker : Healthy(call[v].snap)
      /\ file \in File /\ call \in [Worker -> Call]
  BY HealthyEntries DEF HealthyInv, TypeOK
<1>1. ASSUME NEW w \in Worker, NEW plat \in Platform, NEW publishes \in BOOLEAN,
             Begin(w, plat, publishes)
      PROVE  HealthyInv'
  <2>1. \A v \in Worker : call'[v].snap \in {call[v].snap, NoEntries}
    BY <1>0, <1>1, NoSnap DEF Begin
  <2>. QED
    BY <1>0, <1>1, <2>1 DEF Begin, HealthyInv
<1>2. ASSUME NEW w \in Worker, Step(w) PROVE HealthyInv'
  <2>1. \A v \in Worker : Healthy(call'[v].snap)
    BY <1>0, <1>2, SnapStep
  <2>2. CASE Write(w)
    BY <2>1, <2>2, WriteHeals DEF HealthyInv
  <2>3. CASE ~Write(w)
    <3>1. file' = file
      BY <1>2, <2>3 DEF Step, Gate, EnforceSkip, Answer, Banned, Count, Compare, Lock, WriteRaises,
                        LockTimeout, ResetFailures, RecordDegraded
    <3>. QED
      BY <2>1, <3>1 DEF HealthyInv
  <2>. QED
    BY <2>2, <2>3
<1>3. ASSUME NEW w \in Worker, Crash(w) PROVE HealthyInv'
  <2>1. \A v \in Worker : call'[v].snap \in {call[v].snap, NoEntries}
    BY <1>0, <1>3, NoSnap DEF Crash, Goto
  <2>. QED
    BY <1>0, <1>3, <2>1 DEF Crash, HealthyInv
<1>4. ASSUME NEW plat \in Platform, Cool(plat) PROVE HealthyInv'
  <2>1. ASSUME NEW entries \in [Platform -> Entry], Healthy(entries)
        PROVE  Healthy([entries EXCEPT ![plat] = Aged(@)])
    BY <2>1, HealthyEntries DEF Healthy
  <2>2. Healthy(file'.entry)
    <3>1. file.entry \in [Platform -> Entry] /\ file'.entry = [file.entry EXCEPT ![plat] = Aged(@)]
      BY <1>0, <1>4, CoolEffect DEF File
    <3>. QED
      BY <1>0, <2>1, <3>1
  <2>3. \A w \in Worker : Healthy(call'[w].snap)
    <3>. SUFFICES ASSUME NEW w \in Worker PROVE Healthy(call'[w].snap)
      OBVIOUS
    <3>1. call[w].snap \in [Platform -> Entry] /\ Healthy(call[w].snap)
      BY <1>0 DEF Call
    <3>2. call'[w].snap = [call[w].snap EXCEPT ![plat] = Aged(@)]
      BY <1>4, CoolEffect
    <3>. QED
      BY <2>1, <3>1, <3>2
  <2>4. file'.form # "ok" => file'.entry = NoEntries
    <3>1. ASSUME file.entry = NoEntries PROVE file'.entry = NoEntries
      <4>1. file'.entry = [NoEntries EXCEPT ![plat] = Aged(@)]
        BY <1>4, <3>1, CoolEffect
      <4>2. Aged(Closed) = Closed
        BY DEF Aged, Closed
      <4>. QED
        BY <4>1, <4>2 DEF NoEntries
    <3>. QED
      BY <1>4, <3>1, CoolEffect DEF HealthyInv
  <2>. QED
    BY <2>2, <2>3, <2>4 DEF HealthyInv
<1>5. ASSUME NEW plat \in Platform, ResetCircuit(plat) PROVE HealthyInv'
  <2>1. file' = [form |-> "ok", entry |-> [file.entry EXCEPT ![plat] = Closed]] /\ call' = call
    BY <1>5 DEF ResetCircuit
  <2>2. Circuits!Healthy(Closed)
    BY DEF Circuits!Healthy, Closed
  <2>3. Healthy(file'.entry)
    BY <1>0, <2>1, <2>2 DEF Healthy, File
  <2>. QED
    BY <1>0, <2>1, <2>3 DEF HealthyInv
<1>6. ASSUME NEW form \in Damage, Corrupt(form) PROVE HealthyInv'
  BY <1>0, <1>6 DEF Corrupt, HealthyInv
<1>7. CASE UNCHANGED vars
  BY <1>7 DEF vars, HealthyInv
<1>. QED
  BY <1>1, <1>2, <1>3, <1>4, <1>5, <1>6, <1>7 DEF Next

\* The write of a call on a readable file is a step of its circuit alone.
LEMMA WriteIsAtomic ==
  ASSUME TypeOK, SnapshotCurrent, NEW w \in Worker, Write(w), file.form = "ok"
  PROVE  LET plat == call[w].plat IN Circuits!Trip(plat) \/ Circuits!HalfOpen(plat) \/ Circuits!Succeed(plat)
<1>. DEFINE plat == call[w].plat
            e == file.entry[plat]
<1>1. call[w].pc = "write" /\ call[w].snap = file.entry
  BY DEF Write, SnapshotCurrent
<1>2. file'.form = "ok" /\ file'.entry = [file.entry EXCEPT ![plat] = Written(call[w].op, e)]
  BY <1>1 DEF Write
<1>3. CASE call[w].op = "success"
  BY <1>2, <1>3 DEF Written, Circuits!Succeed, Circuits!Becomes
<1>4. CASE call[w].op = "trip"
  BY <1>2, <1>4 DEF Written, Circuits!Trip, Circuits!Becomes
<1>5. CASE call[w].op \notin {"success", "trip"}
  BY <1>2, <1>5 DEF Written, Circuits!HalfOpen, Circuits!Becomes
<1>. QED
  BY <1>3, <1>4, <1>5

LEMMA CircuitStep ==
  TypeOK /\ SnapshotCurrent /\ HealthyInv /\ HealthyInv' /\ [Next]_vars
    => [Circuits!Next]_(Circuits!vars)
<1>. SUFFICES ASSUME TypeOK, SnapshotCurrent, HealthyInv, HealthyInv', [Next]_vars
              PROVE  [Circuits!Next]_(Circuits!vars)
  OBVIOUS
<1>0. file \in File
  BY DEF TypeOK
<1>1. ASSUME file' = file PROVE UNCHANGED Circuits!vars
  BY <1>1 DEF Circuits!vars
<1>2. ASSUME file.form # "ok", file'.form = "ok" PROVE Circuits!Mend
  BY <1>2 DEF HealthyInv, Healthy, Circuits!Mend
<1>3. ASSUME NEW w \in Worker, Write(w) PROVE Circuits!Next
  <2>1. call[w].plat \in Platform /\ file'.form = "ok"
    BY <1>3, WriteHeals DEF TypeOK, Call
  <2>2. CASE file.form = "ok"
    BY <1>3, <2>1, <2>2, WriteIsAtomic DEF Circuits!Next
  <2>3. CASE file.form # "ok"
    BY <1>2, <2>1, <2>3 DEF Circuits!Next
  <2>. QED
    BY <2>2, <2>3
<1>4. ASSUME NEW w \in Worker, Step(w), ~Write(w) PROVE file' = file
  BY <1>4 DEF Step, Gate, EnforceSkip, Answer, Banned, Count, Compare, Lock, LockTimeout, WriteRaises,
              ResetFailures, RecordDegraded
<1>5. ASSUME NEW plat \in Platform, Cool(plat) PROVE [Circuits!Next]_(Circuits!vars)
  <2>1. /\ file'.form = file.form
        /\ file'.entry = [file.entry EXCEPT ![plat] = Aged(@)]
    BY <1>5, CoolEffect
  <2>2. file.entry \in [Platform -> Entry]
    BY <1>0 DEF File
  <2>3. CASE file.entry[plat].ts # "fresh"
    <3>1. Aged(file.entry[plat]) = file.entry[plat]
      BY <2>2, <2>3 DEF Aged, Entry
    <3>2. file'.entry = file.entry
      BY <2>1, <2>2, <3>1
    <3>. QED
      BY <2>1, <3>2 DEF Circuits!vars
  <2>4. CASE file.entry[plat].ts = "fresh"
    <3>1. file.form = "ok"
      BY <2>4 DEF HealthyInv, NoEntries, Closed
    <3>2. Aged(file.entry[plat]) = [file.entry[plat] EXCEPT !.ts = "cooled"]
      BY <2>4 DEF Aged
    <3>3. Circuits!Cool(plat)
      BY <2>1, <2>4, <3>1, <3>2 DEF Circuits!Cool, Circuits!Becomes
    <3>. QED
      BY <3>3 DEF Circuits!Next
  <2>. QED
    BY <2>3, <2>4
<1>6. ASSUME NEW plat \in Platform, ResetCircuit(plat) PROVE Circuits!Next
  <2>1. file'.form = "ok" /\ file'.entry = [file.entry EXCEPT ![plat] = Closed]
    BY <1>6 DEF ResetCircuit
  <2>2. CASE file.form = "ok"
    <3>1. Circuits!Reset(plat)
      BY <2>1, <2>2 DEF Circuits!Reset, Circuits!Becomes, Closed, Circuits!Closed
    <3>. QED
      BY <3>1 DEF Circuits!Next
  <2>3. CASE file.form # "ok"
    BY <1>2, <2>1, <2>3 DEF Circuits!Next
  <2>. QED
    BY <2>2, <2>3
<1>7. ASSUME NEW form \in Damage, Corrupt(form) PROVE Circuits!Next
  <2>1. Circuits!Damage
    BY <1>7 DEF Corrupt, Damage, NoEntries, Closed, Circuits!Damage, Circuits!AllClosed, Circuits!Closed
  <2>. QED
    BY <2>1 DEF Circuits!Next
<1>8. CASE Next
  <2>1. ASSUME NEW w \in Worker, NEW plat \in Platform, NEW publishes \in BOOLEAN,
               Begin(w, plat, publishes)
        PROVE  file' = file
    BY <2>1 DEF Begin
  <2>2. ASSUME NEW w \in Worker, Crash(w) PROVE file' = file
    BY <2>2 DEF Crash
  <2>3. ASSUME NEW w \in Worker, Step(w) PROVE [Circuits!Next]_(Circuits!vars)
    BY <1>1, <1>3, <1>4, <2>3
  <2>. QED
    BY <1>1, <1>5, <1>6, <1>7, <1>8, <2>1, <2>2, <2>3 DEF Next
<1>. QED
  BY <1>1, <1>8 DEF vars

\* The state file is a table of circuits that change one at a time and in one step,
\* for any number of workers and platforms and all faults: what a call reads and
\* writes under the lock is never in the way of another, and no call leaves a
\* tripped circuit without the time of its trip, not even one that writes a file
\* anew that was damaged.
THEOREM CircuitsImplemented == Spec => ImplementsCircuits
<1>1. Init => Circuits!Init
  BY DEF Init, NoEntries, Closed, Circuits!Init, Circuits!AllClosed, Circuits!Closed
<1>2. Spec => [](TypeOK /\ SnapshotCurrent /\ HealthyInv)
  BY TypeInit, TypeNext, SnapshotInit, SnapshotNext, HealthyInit, HealthyNext, PTL DEF Spec
<1>3. TypeOK /\ SnapshotCurrent /\ HealthyInv /\ HealthyInv' /\ [Next]_vars
        => [Circuits!Next]_(Circuits!vars)
  BY CircuitStep
<1>. QED
  BY <1>1, <1>2, <1>3, PTL DEF Spec, ImplementsCircuits, Circuits!Spec

-----------------------------------------------------------------------------
(***************************************************************************)
(* The alert.  A platform is heard of when an alert of it was recorded or  *)
(* lost, or a call is about to record one.  Every tripped entry is of a    *)
(* platform that is heard of: in the file, in the copies that may yet be   *)
(* written over a damaged file, and in what a call waits to write that     *)
(* will not alert.                                                         *)
(***************************************************************************)

Heard(plat) ==
  alerts[plat] # "none" \/ \E w \in Worker : Alerting(w) /\ call[w].plat = plat

\* What a call holds and is about to write is heard of, or it will alert.
AsksOK(w) ==
  /\ call[w].pc = "write" =>
       \A plat \in Platform : call[w].snap[plat].tripped => Heard(plat)
  /\ call[w].pc \in {"lock", "write"} =>
       IF call[w].alert THEN call[w].op = "trip"
       ELSE call[w].op = "success" \/ Heard(call[w].plat)

AlertInv ==
  /\ \A plat \in Platform : file.entry[plat].tripped => Heard(plat)
  /\ \A w \in Worker : AsksOK(w)

LEMMA AlertInit == Init => AlertInv
<1>. SUFFICES ASSUME Init PROVE AlertInv
  OBVIOUS
<1>1. \A plat \in Platform : file.entry[plat] = Closed
  BY DEF Init, NoEntries
<1>2. \A w \in Worker : call[w].pc = "idle"
  BY IdleType DEF Init
<1>. QED
  BY <1>1, <1>2 DEF AlertInv, AsksOK, Closed

LEMMA LostKeeps ==
  ASSUME alerts \in [Platform -> News], NEW plat \in Platform
  PROVE  /\ Lost(plat)[plat] # "none"
         /\ \A x \in Platform : alerts[x] # "none" => Lost(plat)[x] # "none"
BY DEF Lost, News

\* A step of a call that does not write: it alerts no less than before, and asks
\* for the lock with what it read.
LEMMA AlertCall ==
  ASSUME TypeOK, AlertInv, NEW w \in Worker, NEW c,
         call' = [call EXCEPT ![w] = c], file' = file,
         \A plat \in Platform : alerts[plat] # "none" => alerts'[plat] # "none",
         Alerting(w) =>
           \/ alerts'[call[w].plat] # "none"
           \/ c.plat = call[w].plat /\ c.alert /\ c.pc \in {"reset", "alert"},
         c.pc = "write" => c.snap = file.entry,
         c.pc \in {"lock", "write"} =>
           /\ c.plat \in Platform
           /\ IF c.alert THEN c.op = "trip"
              ELSE c.op = "success" \/ Heard(c.plat) \/ alerts'[c.plat] # "none"
  PROVE  AlertInv'
<1>1. \A v \in Worker : call'[v] = IF v = w THEN c ELSE call[v]
  BY DEF TypeOK
<1>2. ASSUME NEW plat \in Platform, Heard(plat) PROVE Heard(plat)'
  <2>1. CASE alerts[plat] # "none"
    BY <2>1 DEF Heard
  <2>2. ASSUME NEW v \in Worker, Alerting(v), call[v].plat = plat PROVE Heard(plat)'
    <3>1. CASE v = w
      BY <1>1, <2>2, <3>1 DEF Heard, Alerting
    <3>2. CASE v # w
      BY <1>1, <2>2, <3>2 DEF Heard, Alerting
    <3>. QED
      BY <3>1, <3>2
  <2>. QED
    BY <1>2, <2>1, <2>2 DEF Heard
<1>3. \A plat \in Platform : file'.entry[plat].tripped => Heard(plat)'
  BY <1>2 DEF AlertInv
<1>4. ASSUME NEW v \in Worker, v # w PROVE AsksOK(v)'
  <2>1. call'[v] = call[v] /\ AsksOK(v) /\ call[v].plat \in Platform
    BY <1>1, <1>4 DEF AlertInv, TypeOK, Call
  <2>. QED
    BY <1>2, <2>1 DEF AsksOK
<1>5. AsksOK(w)'
  <2>1. call'[w] = c
    BY <1>1
  <2>2. c.pc = "write" => \A plat \in Platform : c.snap[plat].tripped => Heard(plat)'
    BY <1>3
  <2>3. c.pc \in {"lock", "write"} /\ ~c.alert => c.op = "success" \/ Heard(c.plat)'
    <3>1. ASSUME alerts'[c.plat] # "none" PROVE Heard(c.plat)'
      BY <3>1 DEF Heard
    <3>. QED
      BY <1>2, <3>1
  <2>. QED
    BY <2>1, <2>2, <2>3 DEF AsksOK
<1>. QED
  BY <1>3, <1>4, <1>5 DEF AlertInv

\* The write of a call: it writes what it read, over whatever is in the file, and a
\* trip of its own platform that is not heard of is one that it will alert to.
LEMMA AlertWrite ==
  ASSUME TypeOK, AlertInv, NEW w \in Worker, Write(w)
  PROVE  AlertInv'
<1>0. /\ call \in [Worker -> Call] /\ call[w] \in Call /\ AsksOK(w) /\ alerts' = alerts
      /\ call[w].plat \in Platform /\ call[w].snap \in [Platform -> Entry] /\ call[w].pc = "write"
  BY DEF TypeOK, AlertInv, Call, Write
<1>1. PICK plat \in Platform : plat = call[w].plat
  BY <1>0
<1>2. PICK e \in Entry : e = call[w].snap[plat]
  BY <1>0
<1>3. /\ file'.entry[plat] = Written(call[w].op, e)
      /\ \A x \in Platform \ {plat} : file'.entry[x] = call[w].snap[x]
  BY <1>0, <1>1, <1>2 DEF Write
<1>4. \A v \in Worker \ {w} : call'[v] = call[v]
  BY <1>0 DEF Write, Goto
<1>5. \A x \in Platform : Heard(x) => Heard(x)'
  <2>1. ~Alerting(w)
    BY <1>0 DEF Alerting
  <2>. QED
    BY <1>0, <1>4, <2>1 DEF Heard, Alerting
<1>6. ASSUME call[w].alert PROVE Heard(plat)'
  <2>. DEFINE c == [call[w] EXCEPT !.pc = "reset", !.op = "none", !.snap = NoEntries]
  <2>1. call[w].op = "trip"
    BY <1>0, <1>6 DEF AsksOK
  <2>2. call' = [call EXCEPT ![w] = c]
    BY <1>0, <2>1 DEF Write, Probes
  <2>3. c.pc = "reset" /\ c.alert /\ c.plat = plat
    BY <1>0, <1>1, <1>6 DEF Call
  <2>. HIDE DEF c
  <2>4. call'[w] = c
    BY <1>0, <2>2
  <2>. QED
    BY <2>3, <2>4 DEF Heard, Alerting
<1>7. file'.entry[plat].tripped => Heard(plat)'
  <2>1. CASE call[w].alert
    BY <1>6, <2>1
  <2>2. CASE ~call[w].alert /\ call[w].op # "success"
    BY <1>0, <1>1, <1>5, <2>2 DEF AsksOK
  <2>3. CASE call[w].op = "success"
    <3>1. file'.entry[plat].tripped => e.tripped
      BY <1>3, <2>3 DEF Written, Entry
    <3>. QED
      BY <1>0, <1>2, <1>5, <3>1 DEF AsksOK
  <2>. QED
    BY <2>1, <2>2, <2>3
<1>8. \A x \in Platform : file'.entry[x].tripped => Heard(x)'
  BY <1>0, <1>3, <1>5, <1>7 DEF AsksOK
<1>9. call'[w].pc \notin {"lock", "write"}
  <2>. DEFINE pc == IF Probes(w) THEN "dispatch" ELSE "reset"
              c == [call[w] EXCEPT !.pc = pc, !.op = "none", !.snap = NoEntries]
  <2>1. c.pc = pc
    BY <1>0 DEF Call
  <2>2. call'[w] \in {Idle, c}
    BY <1>0 DEF Write, Goto
  <2>. HIDE DEF c
  <2>. QED
    BY <2>1, <2>2, IdleType
<1>10. ASSUME NEW v \in Worker PROVE AsksOK(v)'
  <2>1. CASE v = w
    BY <1>9, <2>1 DEF AsksOK
  <2>2. CASE v # w
    <3>1. call'[v] = call[v] /\ AsksOK(v) /\ call[v].plat \in Platform
      BY <1>0, <1>4, <2>2 DEF AlertInv, Call
    <3>. QED
      BY <1>5, <3>1 DEF AsksOK
  <2>. QED
    BY <2>1, <2>2
<1>. QED
  BY <1>8, <1>10 DEF AlertInv

LEMMA AlertStep ==
  ASSUME TypeOK, HealthyInv, AlertInv, NEW w \in Worker, Step(w)
  PROVE  AlertInv'
<1>0. /\ call \in [Worker -> Call] /\ call[w] \in Call /\ file \in File
      /\ call[w].plat \in Platform /\ AsksOK(w) /\ alerts \in [Platform -> News]
      /\ call[w].snap \in [Platform -> Entry]
  BY DEF TypeOK, AlertInv, Call
<1>1. ASSUME NEW pc \in PC \ {"lock", "write"}, Goto(w, pc), file' = file,
             \A plat \in Platform : alerts[plat] # "none" => alerts'[plat] # "none",
             Alerting(w) => alerts'[call[w].plat] # "none"
      PROVE  AlertInv'
  <2>. DEFINE c == IF pc = "idle" THEN Idle ELSE [call[w] EXCEPT !.pc = pc]
  <2>1. c.pc \notin {"lock", "write"}
    BY <1>0, <1>1, IdleType DEF Call
  <2>2. call' = [call EXCEPT ![w] = c]
    BY <1>0, <1>1 DEF Goto
  <2>. HIDE DEF c
  <2>. QED
    BY <1>1, <2>1, <2>2, AlertCall
<1>2. ASSUME NEW op, NEW alert, Ask(w, op, alert), file' = file, ~Alerting(w),
             \A plat \in Platform : alerts[plat] # "none" => alerts'[plat] # "none",
             IF alert THEN op = "trip"
             ELSE op = "success" \/ Heard(call[w].plat) \/ alerts'[call[w].plat] # "none"
      PROVE  AlertInv'
  <2>. DEFINE c == [call[w] EXCEPT !.pc = "lock", !.op = op, !.alert = alert]
  <2>1. c.op = op /\ c.alert = alert /\ c.plat = call[w].plat /\ c.pc = "lock"
    BY <1>0 DEF Call
  <2>2. call' = [call EXCEPT ![w] = c]
    BY <1>0, <1>2 DEF Ask
  <2>. HIDE DEF c
  <2>. QED
    BY <1>0, <1>2, <2>1, <2>2, AlertCall
<1>3. CASE Gate(w)
  <2>1. \/ Goto(w, "idle") \/ Goto(w, "status") \/ Goto(w, "dispatch")
        \/ /\ Ask(w, "half_open", FALSE) \/ Ask(w, "renew", FALSE)
           /\ CooledDown(Seen(call[w].plat))
    BY <1>3 DEF Gate, Tripped, Pass
  <2>2. CooledDown(Seen(call[w].plat)) => file.entry[call[w].plat].tripped
    BY <1>0 DEF CooledDown, Seen, HealthyInv, Healthy, Circuits!Healthy
  <2>3. file' = file /\ alerts' = alerts /\ ~Alerting(w)
    BY <1>3 DEF Gate, Alerting
  <2>4. CooledDown(Seen(call[w].plat)) => Heard(call[w].plat)
    BY <1>0, <2>2 DEF AlertInv
  <2>. QED
    BY <1>1, <1>2, <2>1, <2>3, <2>4 DEF PC
<1>4. CASE EnforceSkip(w)
  <2>1. Goto(w, "idle") \/ Goto(w, "dispatch")
    BY <1>4 DEF EnforceSkip
  <2>2. file' = file /\ alerts' = alerts /\ ~Alerting(w)
    BY <1>4 DEF EnforceSkip, Alerting
  <2>. QED
    BY <1>1, <2>1, <2>2 DEF PC
<1>5. CASE Answer(w)
  <2>1. file' = file /\ alerts' = alerts /\ ~Alerting(w)
    BY <1>5 DEF Answer, Alerting
  <2>2. ASSUME NEW limit,
               call' = [call EXCEPT ![w] = [@ EXCEPT !.pc = "count", !.limit = limit]]
        PROVE  AlertInv'
    <3>. DEFINE c == [call[w] EXCEPT !.pc = "count", !.limit = limit]
    <3>1. c.pc = "count" /\ call' = [call EXCEPT ![w] = c]
      BY <1>0, <2>2 DEF Call
    <3>. HIDE DEF c
    <3>. QED
      BY <2>1, <3>1, AlertCall
  <2>. QED
    BY <1>1, <1>2, <1>5, <2>1, <2>2 DEF Answer, PC
<1>6. CASE Banned(w)
  <2>1. file' = file /\ ~Alerting(w)
    BY <1>6 DEF Banned, Alerting
  <2>2. \A plat \in Platform : alerts[plat] # "none" => alerts'[plat] # "none"
    BY <1>0, <1>6, LostKeeps DEF Banned
  <2>3. CASE file.form = "foreign"
    BY <1>1, <1>6, <2>1, <2>2, <2>3 DEF Banned, PC
  <2>4. CASE file.form # "foreign"
    <3>1. PICK alert : alert = NewlyDegraded(call[w].plat)
      OBVIOUS
    <3>2. Ask(w, "trip", alert)
      BY <1>6, <2>4, <3>1 DEF Banned
    <3>3. ~alert => Heard(call[w].plat) \/ alerts'[call[w].plat] # "none"
      <4>1. CASE file.form = "ok"
        BY <1>0, <3>1, <4>1 DEF NewlyDegraded, Seen, AlertInv
      <4>2. CASE file.form # "ok"
        BY <1>0, <1>6, <4>2, LostKeeps DEF Banned
      <4>. QED
        BY <4>1, <4>2
    <3>. QED
      BY <1>2, <2>1, <2>2, <3>2, <3>3
  <2>. QED
    BY <2>3, <2>4
<1>7. ASSUME NEW fails \in BOOLEAN, Count(w, fails) \/ Compare(w, fails) PROVE AlertInv'
  <2>1. file' = file /\ alerts' = alerts /\ ~Alerting(w)
    BY <1>7 DEF Count, Compare, Alerting
  <2>2. Goto(w, "idle") \/ Goto(w, "compare") \/ Ask(w, "trip", TRUE)
    BY <1>7 DEF Count, Compare
  <2>. QED
    BY <1>1, <1>2, <2>1, <2>2 DEF PC
<1>8. CASE Lock(w)
  <2>. DEFINE c == [call[w] EXCEPT !.pc = "write", !.snap = file.entry]
  <2>1. c.op = call[w].op /\ c.alert = call[w].alert /\ c.plat = call[w].plat /\ c.snap = file.entry
    BY <1>0 DEF Call
  <2>2. call' = [call EXCEPT ![w] = c] /\ file' = file /\ alerts' = alerts /\ call[w].pc = "lock"
    BY <1>0, <1>8 DEF Lock
  <2>. HIDE DEF c
  <2>. QED
    BY <1>0, <2>1, <2>2, AlertCall DEF Alerting, AsksOK
<1>9. CASE LockTimeout(w)
  <2>. DEFINE c == [call[w] EXCEPT !.pc = "count", !.op = "none", !.limit = ErrorThreshold]
  <2>1. file' = file /\ alerts' = alerts /\ ~Alerting(w)
    BY <1>9 DEF LockTimeout, Alerting
  <2>2. CASE call[w].op = "success"
    <3>1. c.pc = "count" /\ call' = [call EXCEPT ![w] = c]
      BY <1>0, <1>9, <2>2 DEF LockTimeout, Call
    <3>. HIDE DEF c
    <3>. QED
      BY <2>1, <3>1, AlertCall
  <2>3. CASE call[w].op # "success"
    BY <1>1, <1>9, <2>1, <2>3 DEF LockTimeout, PC
  <2>. QED
    BY <2>2, <2>3
<1>10. CASE WriteRaises(w)
  <2>1. Goto(w, "idle") \/ Goto(w, "status") \/ Goto(w, "dispatch")
    BY <1>10 DEF WriteRaises, Tripped, Pass
  <2>2. file' = file /\ alerts' = alerts /\ ~Alerting(w)
    BY <1>10 DEF WriteRaises, Alerting
  <2>. QED
    BY <1>1, <2>1, <2>2 DEF PC
<1>11. CASE Write(w)
  BY <1>11, AlertWrite
<1>12. ASSUME NEW fails \in BOOLEAN, ResetFailures(w, fails) PROVE AlertInv'
  <2>1. file' = file /\ alerts' = alerts /\ call[w].pc = "reset"
    BY <1>12 DEF ResetFailures
  <2>2. CASE call[w].alert
    <3>. DEFINE c == [call[w] EXCEPT !.pc = "alert"]
    <3>1. /\ call' = [call EXCEPT ![w] = c]
          /\ c.pc = "alert" /\ c.alert = call[w].alert /\ c.plat = call[w].plat
      BY <1>0, <1>12, <2>2 DEF ResetFailures, Goto, Call
    <3>. HIDE DEF c
    <3>. QED
      BY <2>1, <2>2, <3>1, AlertCall
  <2>3. CASE ~call[w].alert
    <3>1. call' = [call EXCEPT ![w] = Idle]
      BY <1>12, <2>3 DEF ResetFailures, Goto
    <3>. QED
      BY <2>1, <2>3, <3>1, IdleType, AlertCall DEF Alerting
  <2>. QED
    BY <2>2, <2>3
<1>13. ASSUME NEW fails \in BOOLEAN, RecordDegraded(w, fails) PROVE AlertInv'
  <2>1. Goto(w, "idle") /\ file' = file
    BY <1>13 DEF RecordDegraded
  <2>2. /\ \A plat \in Platform : alerts[plat] # "none" => alerts'[plat] # "none"
        /\ alerts'[call[w].plat] # "none"
    BY <1>0, <1>13, LostKeeps DEF RecordDegraded
  <2>. QED
    BY <1>1, <2>1, <2>2 DEF PC
<1>. QED
  BY <1>3, <1>4, <1>5, <1>6, <1>7, <1>8, <1>9, <1>10, <1>11, <1>12, <1>13 DEF Step

\* The cooldown changes the age of an entry, and of the calls' copies of it.
LEMMA AlertCool ==
  ASSUME TypeOK, AlertInv, NEW plat \in Platform, Cool(plat)
  PROVE  AlertInv'
<1>0. file \in File /\ call \in [Worker -> Call] /\ alerts' = alerts
  BY DEF TypeOK, Cool
<1>1. \A e \in Entry : Aged(e).tripped = e.tripped
  BY DEF Aged, Entry
<1>2. \A x \in Platform : file'.entry[x].tripped = file.entry[x].tripped
  BY <1>0, <1>1, CoolEffect DEF File
<1>3. \A w \in Worker : /\ call'[w].pc = call[w].pc /\ call'[w].plat = call[w].plat
                        /\ call'[w].alert = call[w].alert /\ call'[w].op = call[w].op
                        /\ call[w].plat \in Platform
  BY <1>0 DEF Cool, Call
<1>4. ASSUME NEW w \in Worker
      PROVE  \A x \in Platform : call'[w].snap[x].tripped = call[w].snap[x].tripped
  <2>1. call[w].snap \in [Platform -> Entry] /\ call'[w].snap = [call[w].snap EXCEPT ![plat] = Aged(@)]
    BY <1>0, CoolEffect DEF Call
  <2>. QED
    BY <1>1, <2>1
<1>5. \A x \in Platform : Heard(x) <=> Heard(x)'
  BY <1>0, <1>3 DEF Heard, Alerting
<1>6. \A w \in Worker : AsksOK(w)'
  <2>. SUFFICES ASSUME NEW w \in Worker PROVE AsksOK(w)'
    OBVIOUS
  <2>1. AsksOK(w)
    BY DEF AlertInv
  <2>. QED
    BY <1>3, <1>4, <1>5, <2>1 DEF AsksOK
<1>. QED
  BY <1>2, <1>5, <1>6 DEF AlertInv

\* The operator's reset forgets the alerts of one platform, whose entry it closes while
\* nobody writes; a call that waits to write it unheard makes its alert a lost one.
LEMMA AlertReset ==
  ASSUME TypeOK, AlertInv, NEW plat \in Platform, ResetCircuit(plat)
  PROVE  AlertInv'
<1>0. /\ file \in File /\ call \in [Worker -> Call] /\ call' = call
      /\ alerts \in [Platform -> News]
      /\ \A w \in Worker : call[w].pc # "write" /\ call[w].plat \in Platform
  BY WorkerAssumption DEF TypeOK, ResetCircuit, Call
<1>1. /\ file'.entry[plat] = Closed
      /\ \A x \in Platform \ {plat} : file'.entry[x] = file.entry[x] /\ alerts'[x] = alerts[x]
      /\ (\E w \in Worker : Silent(w, plat)) => alerts'[plat] = "lost"
  BY <1>0 DEF ResetCircuit, File
<1>2. \A x \in Platform \ {plat} : Heard(x) => Heard(x)'
  BY <1>0, <1>1 DEF Heard, Alerting
<1>3. \A x \in Platform : file'.entry[x].tripped => Heard(x)'
  BY <1>1, <1>2 DEF AlertInv, Closed
<1>4. ASSUME NEW w \in Worker PROVE AsksOK(w)'
  <2>1. AsksOK(w) /\ call'[w] = call[w]
    BY <1>0 DEF AlertInv
  <2>2. CASE Silent(w, plat)
    BY <1>0, <1>1, <2>1, <2>2 DEF AsksOK, Silent, Heard
  <2>3. CASE ~Silent(w, plat)
    BY <1>0, <1>2, <2>1, <2>3 DEF AsksOK, Silent
  <2>. QED
    BY <2>2, <2>3
<1>. QED
  BY <1>3, <1>4 DEF AlertInv

LEMMA AlertNext == TypeOK /\ HealthyInv /\ AlertInv /\ [Next]_vars => AlertInv'
<1>. SUFFICES ASSUME TypeOK, HealthyInv, AlertInv, [Next]_vars PROVE AlertInv'
  OBVIOUS
<1>0. alerts \in [Platform -> News] /\ call \in [Worker -> Call]
  BY DEF TypeOK
<1>1. ASSUME NEW w \in Worker, NEW plat \in Platform, NEW publishes \in BOOLEAN,
             Begin(w, plat, publishes)
      PROVE  AlertInv'
  BY <1>1, NewCallType, AlertCall DEF Begin, Alerting
<1>2. ASSUME NEW w \in Worker, Step(w) PROVE AlertInv'
  BY <1>2, AlertStep
<1>3. ASSUME NEW w \in Worker, Crash(w) PROVE AlertInv'
  <2>1. call' = [call EXCEPT ![w] = Idle] /\ file' = file /\ call[w].plat \in Platform
    BY <1>0, <1>3 DEF Crash, Goto, Call
  <2>2. /\ \A plat \in Platform : alerts[plat] # "none" => alerts'[plat] # "none"
        /\ Alerting(w) => alerts'[call[w].plat] # "none"
    BY <1>0, <1>3, <2>1, LostKeeps DEF Crash
  <2>. QED
    BY <2>1, <2>2, IdleType, AlertCall
<1>4. ASSUME NEW plat \in Platform, Cool(plat) PROVE AlertInv'
  BY <1>4, AlertCool
<1>5. ASSUME NEW plat \in Platform, ResetCircuit(plat) PROVE AlertInv'
  BY <1>5, AlertReset
<1>6. ASSUME NEW form \in Damage, Corrupt(form) PROVE AlertInv'
  <2>1. \A plat \in Platform : ~file'.entry[plat].tripped
    BY <1>6 DEF Corrupt, NoEntries, Closed
  <2>2. alerts' = alerts /\ call' = call
    BY <1>6 DEF Corrupt
  <2>. QED
    BY <2>1, <2>2 DEF AlertInv, AsksOK, Heard, Alerting
<1>7. CASE UNCHANGED vars
  BY <1>7 DEF vars, AlertInv, Heard, Alerting, AsksOK
<1>. QED
  BY <1>1, <1>2, <1>3, <1>4, <1>5, <1>6, <1>7 DEF Next

\* No trip goes unreported but for the four reasons the alerts are lost for, each of
\* which TrippedMeansAlerted names: for any number of workers and platforms, and
\* all faults.
THEOREM TripsAreAlerted == Spec => []TrippedMeansAlerted
<1>1. AlertInv => TrippedMeansAlerted
  BY DEF AlertInv, Heard, TrippedMeansAlerted
<1>2. TypeOK /\ HealthyInv /\ AlertInv /\ [Next]_vars => AlertInv'
  BY AlertNext
<1>. QED
  BY <1>1, <1>2, CircuitTypeCorrect, HealthyInit, HealthyNext, TypeInit, TypeNext, AlertInit,
     PTL DEF Spec

=============================================================================
