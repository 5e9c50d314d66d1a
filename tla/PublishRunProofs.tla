--------------------------- MODULE PublishRunProofs ---------------------------
(***************************************************************************)
(* Proofs about PublishRun: what a whole run does to the store and on the  *)
(* platform are steps of PublishDedup, so that everything proved there     *)
(* holds of whole runs; and the checkpoint calls done only what is live.   *)
(***************************************************************************)
EXTENDS PublishRun, PublishDedupProofs, WellFoundedInduction

-----------------------------------------------------------------------------
(***************************************************************************)
(* The values a run is made of.                                            *)
(***************************************************************************)

\* The next row of a run is one of its rows: a set of naturals has a least
\* element.
LEMMA FirstIn == \A S : S \subseteq Nat /\ S # {} => First(S) \in S
<1> SUFFICES ASSUME NEW S, S \subseteq Nat, S # {}
             PROVE  First(S) \in S
  OBVIOUS
<1> DEFINE R == {ss \in Nat \X Nat : ss[1] < ss[2]}
<1>1. IsWellFoundedOn(R, Nat)
  BY NatLessThanWellFounded DEF OpToRel
<1>2. PICK i \in S : \A other \in S : ~(<<other, i>> \in R)
  BY <1>1, WFMin
<1>3. \A other \in S : i <= other
  <2> TAKE other \in S
  <2>1. i \in Nat /\ other \in Nat
    OBVIOUS
  <2>2. ~(other < i)
    BY <1>2, <2>1
  <2> QED BY <2>1, <2>2
<1> QED BY <1>3 DEF First

LEMMA ItemStates ==
  /\ Pending \in ItemState
  /\ \A verified \in BOOLEAN : DoneAs(verified) \in ItemState
  /\ \A class \in ItemClass : FailedAs(class) \in ItemState
BY DEF Pending, DoneAs, FailedAs, ItemState, ItemClass

LEMMA NoCheckpointType ==
  NoCheckpoint \in Checkpoint /\ NoCheckpoint.item \in [Item -> ItemState]
BY ItemStates DEF NoCheckpoint, Checkpoint

LEMMA OffType ==
  \A code \in ExitCode :
    /\ Off(code) \in Proc
    /\ Off(code).pc = "off" /\ Off(code).next = <<>>
BY ItemStates, NoCheckpointType DEF Off, Proc, PC, Steps

\* A run that is in none of its calls has nothing in flight.
LEMMA OffPlace == \A code : PlaceOK(Off(code), Idle)
BY DEF Off, PlaceOK

-----------------------------------------------------------------------------
(***************************************************************************)
(* A run does to the store and on the platform what PublishDedup says.     *)
(***************************************************************************)

LEMMA RowIn ==
  ASSUME RunTypeOK, NEW w \in Run, AtRow(w)
  PROVE  ThisRow(w) \in Item /\ KeyOf[ThisRow(w)] \in Key
<1>1. proc[w].todo \subseteq Item /\ proc[w].todo # {}
  BY DEF RunTypeOK, Proc, AtRow
<1>2. ThisRow(w) \in proc[w].todo
  BY <1>1, FirstIn, ItemAssumption DEF ThisRow
<1> QED BY <1>1, <1>2, KeyOfAssumption

\* One step of a run.
LEMMA ProgressRefines ==
  ASSUME RunTypeOK, NEW w \in Run, Progress(w)
  PROVE  RunStep(w) \/ UNCHANGED vars
<1>1. CASE TakeLeases(w) \/ Refused(w) \/ Select(w) \/ Drift(w) \/ GateHolds(w)
  BY <1>1 DEF TakeLeases, Refused, Select, Drift, GateHolds
<1>2. CASE LoadCheckpoint(w) \/ SaveCheckpoint(w) \/ CheckpointFails(w) \/ EndResume(w)
  BY <1>2 DEF LoadCheckpoint, SaveCheckpoint, CheckpointFails, EndResume
<1>3. CASE \E outdated \in BOOLEAN : Revalidate(w, outdated)
  BY <1>3 DEF Revalidate
<1>4. CASE \E what \in {{}, {"failed"}} : PassOver(w, what)
  BY <1>4 DEF PassOver
<1>5. CASE \E force \in BOOLEAN : PassGate(w, force)
  <2>1. PICK force \in BOOLEAN : PassGate(w, force)
    BY <1>5
  <2>2. KeyOf[ThisRow(w)] \in Key
    BY <2>1, RowIn DEF PassGate
  <2> QED BY <2>1, <2>2 DEF PassGate, RunStep
<1>6. CASE \E verified \in Verdicts : Published(w, verified)
  BY <1>6 DEF Published, RunStep
<1>7. CASE \E class \in {"error", "policy_skip"} : InBand(w, class)
  BY <1>7 DEF InBand, RunStep, ErrorClass
<1>8. CASE \E error_class \in ErrorClass : Raised(w, error_class)
  BY <1>8 DEF Raised, RunStep
<1>9. CASE \E auth \in BOOLEAN : Aborts(w, auth)
  BY <1>9 DEF Aborts, RunStep, ErrorClass
<1>10. CASE Settle(w)
  BY <1>10 DEF Settle, RunStep
<1>11. CASE Escapes(w)
  BY <1>11 DEF Escapes, RunStep
<1> QED
  BY <1>1, <1>2, <1>3, <1>4, <1>5, <1>6, <1>7, <1>8, <1>9, <1>10, <1>11 DEF Progress

LEMMA NextRefines == RunTypeOK /\ [RunNext]_allVars => [Next]_vars
<1> SUFFICES ASSUME RunTypeOK, RunNext
             PROVE  Next \/ UNCHANGED vars
  BY DEF allVars
<1>1. CASE \E created \in BOOLEAN : StartFresh(created)
  BY <1>1 DEF StartFresh
<1>2. CASE EndFresh
  BY <1>2 DEF EndFresh
<1>3. CASE \E w \in Run : StartResume(w) \/ PostLands(w)
  BY <1>3 DEF StartResume, PostLands, Next, RunStep
<1>4. CASE \E w \in Run : Progress(w)
  BY <1>4, ProgressRefines DEF Next
<1>5. CASE \E p \in Pid : Dies(p)
  BY <1>5 DEF Dies, Next, ProcessStep
<1>6. CASE Environment
  BY <1>6 DEF Environment, Next, ProcessStep
<1> QED BY <1>1, <1>2, <1>3, <1>4, <1>5, <1>6 DEF RunNext

-----------------------------------------------------------------------------
(***************************************************************************)
(* Types, and what is in flight is where PublishDedup has it.              *)
(***************************************************************************)

\* The steps a call of Then starts with.
Routes == {<<"load", "scan">>, <<"load", "row">>, <<"load", "exit">>,
           <<"settle", "exit">>, <<"settle", "load", "row">>,
           <<"settle", "load", "exit">>, <<"load", "settle", "row">>}

LEMMA Heads ==
  /\ \A a : Head(<<a>>) = a /\ Tail(<<a>>) = <<>>
  /\ \A a, b : Head(<<a, b>>) = a /\ Tail(<<a, b>>) = <<b>>
  /\ \A a, b, c : Head(<<a, b, c>>) = a /\ Tail(<<a, b, c>>) = <<b, c>>
<1>1. \A a : Head(<<a>>) = a /\ Tail(<<a>>) = <<>>
  OBVIOUS
<1>2. \A a, b : Head(<<a, b>>) = a /\ Tail(<<a, b>>) = <<b>>
  OBVIOUS
<1>3. \A a, b, c : Head(<<a, b, c>>) = a /\ Tail(<<a, b, c>>) = <<b, c>>
  OBVIOUS
<1> QED BY <1>1, <1>2, <1>3

LEMMA RouteParts ==
  \A steps \in Routes : Head(steps) \in {"load", "settle"} /\ Tail(steps) \in Steps
<1> TAKE steps \in Routes
<1>1. CASE steps = <<"load", "scan">>
  BY <1>1, Heads, Zenon DEF Steps
<1>2. CASE steps = <<"load", "row">>
  BY <1>2, Heads, Zenon DEF Steps
<1>3. CASE steps = <<"load", "exit">>
  BY <1>3, Heads, Zenon DEF Steps
<1>4. CASE steps = <<"settle", "exit">>
  BY <1>4, Heads, Zenon DEF Steps
<1>5. CASE steps = <<"settle", "load", "row">>
  <2>1. Head(steps) = "settle" /\ Tail(steps) = <<"load", "row">>
    BY <1>5, Heads
  <2> QED BY <2>1, Zenon DEF Steps
<1>6. CASE steps = <<"settle", "load", "exit">>
  <2>1. Head(steps) = "settle" /\ Tail(steps) = <<"load", "exit">>
    BY <1>6, Heads
  <2> QED BY <2>1, Zenon DEF Steps
<1>7. CASE steps = <<"load", "settle", "row">>
  <2>1. Head(steps) = "load" /\ Tail(steps) = <<"settle", "row">>
    BY <1>7, Heads
  <2> QED BY <2>1, Zenon DEF Steps
<1> QED BY <1>1, <1>2, <1>3, <1>4, <1>5, <1>6, <1>7, Zenon DEF Routes

LEMMA ThenType ==
  ASSUME NEW p \in Proc, NEW steps \in Routes, NEW new \in ItemState
  PROVE  /\ Then(p, steps, new) \in Proc
         /\ Then(p, steps, new).pc = Head(steps)
         /\ Then(p, steps, new).next = Tail(steps)
         /\ Then(p, steps, new).new = new
         /\ Then(p, steps, new).item = p.item /\ Then(p, steps, new).file = p.file
<1>1. Head(steps) \in PC /\ Tail(steps) \in Steps
  BY RouteParts DEF PC
<1> QED BY <1>1 DEF Then, Proc

\* A run q that goes on from p with new in hand.
IsAt(q, p, new, pc, next) ==
  /\ q \in Proc /\ q.pc = pc /\ q.next = next
  /\ q.new = new /\ q.item = p.item /\ q.file = p.file

LEMMA ThenAt ==
  ASSUME NEW p \in Proc, NEW new \in ItemState
  PROVE  /\ IsAt(Then(p, <<"load", "scan">>, new), p, new, "load", <<"scan">>)
         /\ IsAt(Then(p, <<"load", "row">>, new), p, new, "load", <<"row">>)
         /\ IsAt(Then(p, <<"load", "exit">>, new), p, new, "load", <<"exit">>)
         /\ IsAt(Then(p, <<"settle", "exit">>, new), p, new, "settle", <<"exit">>)
         /\ IsAt(Then(p, <<"settle", "load", "row">>, new), p, new, "settle", <<"load", "row">>)
         /\ IsAt(Then(p, <<"settle", "load", "exit">>, new), p, new, "settle", <<"load", "exit">>)
         /\ IsAt(Then(p, <<"load", "settle", "row">>, new), p, new, "load", <<"settle", "row">>)
<1>1. <<"load", "scan">> \in Routes /\ Head(<<"load", "scan">>) = "load" /\ Tail(<<"load", "scan">>) = <<"scan">>
  BY Heads, Zenon DEF Routes
<1>2. <<"load", "row">> \in Routes /\ Head(<<"load", "row">>) = "load" /\ Tail(<<"load", "row">>) = <<"row">>
  BY Heads, Zenon DEF Routes
<1>3. <<"load", "exit">> \in Routes /\ Head(<<"load", "exit">>) = "load" /\ Tail(<<"load", "exit">>) = <<"exit">>
  BY Heads, Zenon DEF Routes
<1>4. <<"settle", "exit">> \in Routes /\ Head(<<"settle", "exit">>) = "settle" /\ Tail(<<"settle", "exit">>) = <<"exit">>
  BY Heads, Zenon DEF Routes
<1>5. <<"settle", "load", "row">> \in Routes /\ Head(<<"settle", "load", "row">>) = "settle" /\ Tail(<<"settle", "load", "row">>) = <<"load", "row">>
  <2>1. <<"settle", "load", "row">> \in Routes
    BY Zenon DEF Routes
  <2> QED BY <2>1, Heads
<1>6. <<"settle", "load", "exit">> \in Routes /\ Head(<<"settle", "load", "exit">>) = "settle" /\ Tail(<<"settle", "load", "exit">>) = <<"load", "exit">>
  <2>1. <<"settle", "load", "exit">> \in Routes
    BY Zenon DEF Routes
  <2> QED BY <2>1, Heads
<1>7. <<"load", "settle", "row">> \in Routes /\ Head(<<"load", "settle", "row">>) = "load" /\ Tail(<<"load", "settle", "row">>) = <<"settle", "row">>
  <2>1. <<"load", "settle", "row">> \in Routes
    BY Zenon DEF Routes
  <2> QED BY <2>1, Heads
<1> QED BY <1>1, <1>2, <1>3, <1>4, <1>5, <1>6, <1>7, ThenType DEF IsAt

\* A run goes on with a loop or its end: nothing is in flight any more.
LEMMA ContinueLoop ==
  ASSUME NEW p \in Proc, p.next \in {<<"row">>, <<"scan">>, <<"exit">>}
  PROVE  /\ Continue(p) \in Proc /\ PlaceOK(Continue(p), Idle)
         /\ Continue(p).pc \in {"row", "scan", "off"} /\ Continue(p).file = NoCheckpoint
<1>1. CASE p.next = <<"exit">>
  <2>1. Continue(p) = Off(p.code)
    BY <1>1, Heads DEF Continue
  <2>2. Off(p.code).pc = "off" /\ Off(p.code).file = NoCheckpoint
    BY DEF Off
  <2> QED BY <2>1, <2>2, OffType, OffPlace DEF Proc
<1>2. CASE p.next \in {<<"row">>, <<"scan">>}
  <2>0. Head(p.next) \in {"row", "scan"} /\ Tail(p.next) = <<>>
    BY <1>2, Heads, Zenon
  <2>1. Continue(p) = [p EXCEPT !.pc = Head(p.next), !.next = <<>>, !.item = NoItem,
                                !.new = Pending, !.file = NoCheckpoint]
    BY <2>0 DEF Continue, Proc
  <2>2. Continue(p) \in Proc
    BY <2>0, <2>1, ItemStates, NoCheckpointType DEF Proc, PC, Steps
  <2>3. /\ Continue(p).pc \in {"row", "scan"} /\ Continue(p).next = <<>>
        /\ Continue(p).file = NoCheckpoint
    BY <2>0, <2>1 DEF Proc
  <2> QED BY <2>2, <2>3 DEF PlaceOK
<1> QED BY <1>1, <1>2

\* A run that has settled goes on with the checkpoint.
LEMMA ContinueLoad ==
  ASSUME NEW p \in Proc, p.next \in {<<"load", "row">>, <<"load", "exit">>}
  PROVE  /\ Continue(p) \in Proc /\ PlaceOK(Continue(p), Idle)
         /\ Continue(p).new = p.new /\ Continue(p).item = p.item /\ Continue(p).file = p.file
<1>2. Head(p.next) = "load" /\ Tail(p.next) \in {<<"row">>, <<"exit">>}
  BY Heads, Zenon
<1>1. Continue(p) = [p EXCEPT !.pc = "load", !.next = Tail(p.next)]
  BY <1>2 DEF Continue
<1>3. Continue(p) \in Proc /\ Continue(p).pc = "load" /\ Continue(p).next \in {<<"row">>, <<"exit">>}
  BY <1>1, <1>2 DEF Proc, PC, Steps
<1> QED BY <1>1, <1>3 DEF PlaceOK, Proc

\* A raised error has been written, and is settled next.
LEMMA ContinueSettle ==
  ASSUME NEW p \in Proc, p.next = <<"settle", "row">>, NEW j, j.phase = "settle"
  PROVE  /\ Continue(p) \in Proc /\ PlaceOK(Continue(p), j)
         /\ Continue(p).new = p.new /\ Continue(p).item = p.item /\ Continue(p).file = p.file
<1>1. Continue(p) = [p EXCEPT !.pc = "settle", !.next = <<"row">>]
  BY Heads DEF Continue
<1>2. Continue(p) \in Proc /\ Continue(p).pc = "settle" /\ Continue(p).next = <<"row">>
  BY <1>1 DEF Proc, PC, Steps
<1> QED BY <1>1, <1>2 DEF PlaceOK, Proc

\* A step of one run keeps the types when its own place is right.
LEMMA OneRun ==
  ASSUME RunTypeOK, NEW w \in Run, NEW p \in Proc, Goes(w, p),
         \A v \in Run \ {w} : job'[v] = job[v],
         PlaceOK(p, job'[w]), ckpt' \in Checkpoint, unverified' \subseteq Item
  PROVE  RunTypeOK'
<1>1. proc' \in [Run -> Proc] /\ proc'[w] = p /\ \A v \in Run \ {w} : proc'[v] = proc[v]
  BY DEF RunTypeOK, Goes
<1>2. \A v \in Run : PlaceOK(proc'[v], job'[v])
  BY <1>1 DEF RunTypeOK
<1> QED BY <1>1, <1>2 DEF RunTypeOK

\* So does a step that touches nothing of PublishDedup and not the checkpoint.
LEMMA OneRunAlone ==
  ASSUME RunTypeOK, NEW w \in Run, NEW p \in Proc, Goes(w, p),
         UNCHANGED <<vars, ckpt, unverified>>, PlaceOK(p, job[w])
  PROVE  RunTypeOK'
<1>1. UNCHANGED job
  BY DEF vars
<1> QED BY <1>1, OneRun DEF RunTypeOK

\* The program of a run outside of its calls.
LEMMA StartsOK ==
  ASSUME RunTypeOK,
         \/ \E created \in BOOLEAN : StartFresh(created)
         \/ EndFresh
         \/ \E w \in Run : StartResume(w)
  PROVE  RunTypeOK'
<1>0. Off(noExit) \in Proc /\ Off(noExit).next = <<>> /\ ckpt \in Checkpoint
  BY OffType DEF ExitCode, noExit, RunTypeOK
<1>1. ASSUME NEW created \in BOOLEAN, StartFresh(created)
      PROVE  RunTypeOK'
  <2> DEFINE p == [Off(noExit) EXCEPT !.pc = "row", !.todo = Item, !.saving = created]
  <2>1. p \in Proc /\ p.pc = "row" /\ p.next = <<>>
    BY <1>0 DEF Proc, PC
  <2>2. Goes(Fresh, p) /\ job' = job /\ unverified' = unverified /\ job[Fresh] = Idle
    BY <1>1, FreshAssumption DEF StartFresh, vars, MayStart, RunTypeOK, PlaceOK
  <2>3. PlaceOK(p, job[Fresh])
    BY <2>1, <2>2 DEF PlaceOK
  <2>4. ckpt' \in Checkpoint
    BY <1>0, <1>1, NoCheckpointType DEF StartFresh, Checkpoint
  <2> HIDE DEF p
  <2> QED BY <2>1, <2>2, <2>3, <2>4, FreshAssumption, OneRun DEF RunTypeOK
<1>2. ASSUME EndFresh
      PROVE  RunTypeOK'
  <2> DEFINE code == FreshExit(proc[Fresh].seen)
  <2>1. code \in ExitCode
    BY DEF FreshExit, ExitCode
  <2>2. Goes(Fresh, Off(code)) /\ UNCHANGED <<vars, ckpt, unverified>> /\ job[Fresh] = Idle
    BY <1>2, FreshAssumption DEF EndFresh, RowsDone, RunTypeOK, PlaceOK
  <2> HIDE DEF code
  <2> QED BY <2>1, <2>2, OffType, OffPlace, FreshAssumption, OneRunAlone
<1>3. ASSUME NEW w \in Run, StartResume(w)
      PROVE  RunTypeOK'
  <2> DEFINE p == [Off(noExit) EXCEPT !.pc = "lease", !.snap = ckpt.item, !.saving = TRUE]
  <2>1. p \in Proc /\ p.pc = "lease" /\ p.next = <<>>
    BY <1>0 DEF Proc, PC, Checkpoint
  <2>2. Goes(w, p) /\ UNCHANGED <<vars, ckpt, unverified>> /\ job[w] = Idle
    BY <1>3 DEF StartResume, MayStart, RunTypeOK, PlaceOK
  <2>3. PlaceOK(p, job[w])
    BY <2>1, <2>2 DEF PlaceOK
  <2> HIDE DEF p
  <2> QED BY <2>1, <2>2, <2>3, OneRunAlone
<1> QED BY <1>1, <1>2, <1>3

\* mark_complete, when nothing is in flight.
LEMMA CompletingOK ==
  ASSUME NEW p \in Proc, NEW code \in ExitCode
  PROVE  Completing(p, code) \in Proc /\ PlaceOK(Completing(p, code), Idle)
<1> DEFINE q == Then(p, <<"load", "exit">>, Pending)
<1>1. q \in Proc /\ q.pc = "load" /\ q.next = <<"exit">>
  <2>1. IsAt(q, p, Pending, "load", <<"exit">>)
    BY ThenAt, ItemStates
  <2> QED BY <2>1 DEF IsAt
<1>2. Completing(p, code) = [q EXCEPT !.item = NoItem, !.code = code]
  BY DEF Completing
<1> HIDE DEF q
<1>3. /\ Completing(p, code) \in Proc
      /\ Completing(p, code).pc = "load" /\ Completing(p, code).next = <<"exit">>
  BY <1>1, <1>2 DEF Proc
<1> QED BY <1>3 DEF PlaceOK

LEMMA PreparesOK ==
  ASSUME RunTypeOK, NEW w \in Run,
         \/ TakeLeases(w) \/ Refused(w) \/ Select(w) \/ EndResume(w)
         \/ \E outdated \in BOOLEAN : Revalidate(w, outdated)
  PROVE  RunTypeOK'
<1> DEFINE p == proc[w]
<1>0. p \in Proc /\ PlaceOK(p, job[w])
  BY DEF RunTypeOK
<1>1. ASSUME TakeLeases(w)
      PROVE  RunTypeOK'
  <2> DEFINE todo == {i \in Item : Unfinished(p.snap[i]) /\ p.snap[i].class # "retro"}
             q == [p EXCEPT !.pc = "scan", !.todo = todo]
  <2>1. todo \subseteq Item
    OBVIOUS
  <2>2. Goes(w, q) /\ UNCHANGED <<vars, ckpt, unverified>> /\ p.pc = "lease"
    BY <1>1 DEF TakeLeases
  <2> HIDE DEF todo
  <2>3. q \in Proc /\ PlaceOK(q, job[w])
    BY <1>0, <2>1, <2>2 DEF Proc, PC, PlaceOK
  <2> HIDE DEF q
  <2> QED BY <2>2, <2>3, OneRunAlone
<1>2. ASSUME Refused(w)
      PROVE  RunTypeOK'
  <2>1. Goes(w, Off(3)) /\ UNCHANGED <<vars, ckpt, unverified>> /\ job[w] = Idle
    BY <1>0, <1>2 DEF Refused, PlaceOK
  <2> QED BY <2>1, OffType, OffPlace, OneRunAlone DEF ExitCode
<1>3. ASSUME Select(w)
      PROVE  RunTypeOK'
  <2> DEFINE todo == {i \in Item : Resumable(p.snap[i])}
             q == IF todo = {} THEN Completing(p, 0)
                  ELSE [p EXCEPT !.pc = "row", !.todo = todo, !.snap = NoCheckpoint.item]
  <2>1. todo \subseteq Item
    OBVIOUS
  <2>2. Goes(w, q) /\ UNCHANGED <<vars, ckpt, unverified>> /\ p.pc = "scan"
    BY <1>3 DEF Select
  <2> HIDE DEF todo
  <2>3. job[w] = Idle
    BY <1>0, <2>2 DEF PlaceOK
  <2>4. CASE todo = {}
    BY <1>0, <2>2, <2>3, <2>4, CompletingOK, OneRunAlone DEF ExitCode
  <2>5. CASE todo # {}
    <3>1. q \in Proc /\ PlaceOK(q, job[w])
      BY <1>0, <2>1, <2>2, <2>5, NoCheckpointType DEF Proc, PC, PlaceOK
    <3> HIDE DEF q
    <3> QED BY <2>2, <3>1, OneRunAlone
  <2> QED BY <2>4, <2>5
<1>4. ASSUME EndResume(w)
      PROVE  RunTypeOK'
  <2> DEFINE code == IF "unverified" \in p.seen THEN 5 ELSE 0
             q == IF Finished(ckpt.item) THEN Completing(p, code) ELSE Off(4)
  <2>1. Goes(w, q) /\ UNCHANGED <<vars, ckpt, unverified>> /\ p.pc = "row"
    BY <1>4 DEF EndResume, RowsDone
  <2>2. job[w] = Idle /\ code \in ExitCode
    BY <1>0, <2>1 DEF PlaceOK, ExitCode
  <2> HIDE DEF code
  <2>3. q \in Proc /\ PlaceOK(q, Idle)
    BY <1>0, <2>2, CompletingOK, OffType, OffPlace DEF ExitCode
  <2> HIDE DEF q
  <2> QED BY <2>1, <2>2, <2>3, OneRunAlone
<1>5. ASSUME NEW outdated \in BOOLEAN, Revalidate(w, outdated)
      PROVE  RunTypeOK'
  <2> DEFINE i == First(p.todo)
             q == [p EXCEPT !.todo = @ \ {i}]
             t == Then(q, <<"load", "scan">>, FailedAs("retro"))
  <2>1. p.pc = "scan" /\ UNCHANGED <<vars, ckpt, unverified>> /\ p.todo # {}
    BY <1>5 DEF Revalidate
  <2>2. job[w] = Idle /\ p.next = <<>>
    BY <1>0, <2>1 DEF PlaceOK
  <2>3. i \in Item
    BY <1>0, <2>1, FirstIn, ItemAssumption DEF Proc
  <2>4. q \in Proc /\ q.pc = "scan" /\ q.next = <<>> /\ q.snap \in [Item -> ItemState]
    BY <1>0, <2>1, <2>2 DEF Proc
  <2>5. FailedAs("retro") \in ItemState
    BY ItemStates DEF ItemClass
  <2>6. CASE ~outdated
    <3>1. Goes(w, q) /\ PlaceOK(q, job[w])
      BY <1>5, <2>2, <2>4, <2>6 DEF Revalidate, PlaceOK
    <3> QED BY <2>1, <2>4, <3>1, OneRunAlone
  <2>7. CASE outdated
    <3> DEFINE u == [t EXCEPT !.item = i, !.snap[i] = FailedAs("retro")]
    <3>1. t \in Proc /\ t.pc = "load" /\ t.next = <<"scan">>
      <4>1. IsAt(t, q, FailedAs("retro"), "load", <<"scan">>)
        BY <2>4, <2>5, ThenAt
      <4> QED BY <4>1 DEF IsAt
    <3>2. Goes(w, u)
      BY <1>5, <2>7 DEF Revalidate
    <3> HIDE DEF t, i
    <3>3. u \in Proc /\ u.pc = "load" /\ u.next = <<"scan">>
      BY <2>3, <2>5, <3>1 DEF Proc
    <3>4. PlaceOK(u, job[w])
      BY <2>2, <3>3 DEF PlaceOK
    <3> HIDE DEF u
    <3> QED BY <2>1, <3>2, <3>3, <3>4, OneRunAlone
  <2> QED BY <2>6, <2>7
<1> QED BY <1>1, <1>2, <1>3, <1>4, <1>5

LEMMA NotingType ==
  ASSUME NEW w \in Run, proc[w] \in Proc,
         NEW what \in SUBSET {"ok", "unverified", "held", "failed"}
  PROVE  /\ Noting(w, what) \in Proc
         /\ Noting(w, what).pc = proc[w].pc /\ Noting(w, what).next = proc[w].next
         /\ Noting(w, what).item = proc[w].item /\ Noting(w, what).file = proc[w].file
BY DEF Noting, Proc

LEMMA PassingType ==
  ASSUME NEW w \in Run, proc[w] \in Proc,
         NEW what \in SUBSET {"ok", "unverified", "held", "failed"}
  PROVE  /\ Passing(w, what) \in Proc
         /\ Passing(w, what).pc = proc[w].pc /\ Passing(w, what).next = proc[w].next
         /\ Passing(w, what).file = proc[w].file
<1>1. Noting(w, what) \in Proc
  BY NotingType
<1> QED BY <1>1, NotingType DEF Passing, Proc

\* Where a run goes with a verdict: into the adapter, on, out, or to the
\* checkpoint with an item that was done.
LEMMA AfterGateType ==
  ASSUME RunTypeOK, NEW w \in Run, AtRow(w),
         NEW verdict \in {"dispatch", "hold", "conflict", "skip"}
  PROVE  LET q == AfterGate(w, verdict) IN
         /\ q \in Proc
         /\ verdict = "dispatch" => q.pc = "call" /\ q.next = <<>> /\ q.item = ThisRow(w)
         /\ verdict # "dispatch" => PlaceOK(q, Idle)
         /\ \/ q.pc \in {"off", "row", "call"}
            \/ q.pc = "load" /\ q.new = DoneAs(TRUE) /\ q.item = ThisRow(w) /\ verdict = "skip"
         /\ q.file \in {proc[w].file, NoCheckpoint}
<1> DEFINE q == AfterGate(w, verdict)
           i == ThisRow(w)
<1>1. proc[w] \in Proc /\ proc[w].pc = "row" /\ proc[w].next = <<>>
  BY DEF RunTypeOK, AtRow, PlaceOK
<1>2. i \in Item
  BY RowIn
<1>3. \A what \in SUBSET {"ok", "unverified", "held", "failed"} :
        /\ Passing(w, what) \in Proc
        /\ Passing(w, what).pc = "row" /\ Passing(w, what).next = <<>>
        /\ Passing(w, what).file = proc[w].file
  BY <1>1, PassingType
<1> HIDE DEF i
<1>4. CASE verdict = "dispatch"
  <2>1. q = [Passing(w, {}) EXCEPT !.pc = "call", !.item = i]
    BY <1>4 DEF AfterGate, i
  <2>2. ASSUME NEW p \in Proc, p.next = <<>>, q = [p EXCEPT !.pc = "call", !.item = i]
        PROVE  q \in Proc /\ q.pc = "call" /\ q.next = <<>> /\ q.item = i /\ q.file = p.file
    <3> HIDE DEF q
    <3> QED BY <1>2, <2>2 DEF Proc, PC
  <2>3. /\ Passing(w, {}) \in Proc /\ Passing(w, {}).next = <<>>
        /\ Passing(w, {}).file = proc[w].file
    BY <1>3
  <2>4. q \in Proc /\ q.pc = "call" /\ q.next = <<>> /\ q.item = i /\ q.file = proc[w].file
    BY <2>1, <2>2, <2>3
  <2> QED BY <1>4, <2>4 DEF i
<1>5. CASE verdict = "hold" \/ (verdict = "skip" /\ w = Fresh)
  <2>1. \E what \in SUBSET {"ok", "unverified", "held", "failed"} : q = Passing(w, what)
    <3>1. CASE verdict = "hold"
      <4>1. q = Passing(w, {"held"})
        BY <3>1 DEF AfterGate
      <4> QED BY <4>1
    <3>2. CASE verdict = "skip" /\ w = Fresh
      <4>1. q = Passing(w, {"ok"})
        BY <3>2 DEF AfterGate
      <4> QED BY <4>1
    <3> QED BY <1>5, <3>1, <3>2
  <2>2. q \in Proc /\ q.pc = "row" /\ q.next = <<>> /\ q.file = proc[w].file
    BY <1>3, <2>1
  <2>3. PlaceOK(q, Idle)
    BY <2>2 DEF PlaceOK
  <2> QED BY <1>5, <2>2, <2>3
<1>6. CASE verdict = "conflict"
  <2>1. q = Off(1)
    BY <1>6 DEF AfterGate
  <2>2. Off(1).file = NoCheckpoint
    BY DEF Off
  <2> QED BY <1>6, <2>1, <2>2, OffType, OffPlace DEF ExitCode
<1>7. CASE verdict = "skip" /\ w # Fresh
  <2> DEFINE t == Then(Passing(w, {}), <<"load", "row">>, DoneAs(TRUE))
  <2>1. q = [t EXCEPT !.item = i]
    BY <1>7 DEF AfterGate, i
  <2>2. IsAt(t, Passing(w, {}), DoneAs(TRUE), "load", <<"row">>)
    BY <1>3, ThenAt, ItemStates
  <2> HIDE DEF t
  <2>3. /\ q \in Proc /\ q.pc = "load" /\ q.next = <<"row">> /\ q.new = DoneAs(TRUE)
        /\ q.item = i /\ q.file = Passing(w, {}).file
    BY <1>2, <2>1, <2>2 DEF IsAt, Proc
  <2>4. PlaceOK(q, Idle)
    BY <2>3 DEF PlaceOK
  <2>5. Passing(w, {}).file = proc[w].file
    BY <1>3
  <2> QED BY <1>7, <2>3, <2>4, <2>5 DEF i
<1> QED BY <1>4, <1>5, <1>6, <1>7

\* The gate answers with a verdict, and claims the key exactly when it dispatches.
LEMMA GateEffect ==
  ASSUME TypeOK, NEW w \in Run, NEW k \in Key, NEW force \in BOOLEAN, GateEnforce(w, k, force)
  PROVE  LET verdict == GateVerdict(row[k], force, up) IN
         /\ verdict \in {"dispatch", "hold", "conflict", "skip"}
         /\ verdict = "skip" => row[k].state = "done"
         /\ \A v \in Run : job'[v] = IF v = w /\ verdict = "dispatch" THEN Dispatching(k) ELSE job[v]
<1>1. row[k].state \in State
  BY DEF TypeOK, Row
<1> QED BY <1>1 DEF GateEnforce, GateVerdict, State, TypeOK

LEMMA GatesOK ==
  ASSUME TypeOK, RunTypeOK, NEW w \in Run,
         \/ \E what \in {{}, {"failed"}} : PassOver(w, what)
         \/ Drift(w)
         \/ \E force \in BOOLEAN : PassGate(w, force)
         \/ GateHolds(w)
  PROVE  RunTypeOK'
<1>0. proc[w] \in Proc /\ (AtRow(w) => job[w] = Idle /\ proc[w].pc = "row" /\ proc[w].next = <<>>)
  BY DEF RunTypeOK, PlaceOK, AtRow
<1>1. ASSUME NEW what \in {{}, {"failed"}}, PassOver(w, what)
      PROVE  RunTypeOK'
  <2>1. Goes(w, Passing(w, what)) /\ UNCHANGED <<vars, ckpt, unverified>> /\ AtRow(w)
    BY <1>1 DEF PassOver
  <2>2. what \in SUBSET {"ok", "unverified", "held", "failed"}
    OBVIOUS
  <2>3. Passing(w, what) \in Proc /\ PlaceOK(Passing(w, what), job[w])
    BY <1>0, <2>1, <2>2, PassingType DEF PlaceOK
  <2> QED BY <2>1, <2>3, OneRunAlone
<1>2. ASSUME Drift(w)
      PROVE  RunTypeOK'
  <2>1. Goes(w, Off(3)) /\ UNCHANGED <<vars, ckpt, unverified>> /\ job[w] = Idle
    BY <1>0, <1>2 DEF Drift
  <2> QED BY <2>1, OffType, OffPlace, OneRunAlone DEF ExitCode
<1>3. ASSUME GateHolds(w)
      PROVE  RunTypeOK'
  <2>1. AtRow(w) /\ Goes(w, AfterGate(w, "hold")) /\ UNCHANGED <<vars, ckpt, unverified>>
    BY <1>3 DEF GateHolds
  <2>2. AfterGate(w, "hold") \in Proc /\ PlaceOK(AfterGate(w, "hold"), job[w])
    BY <1>0, <2>1, AfterGateType
  <2> QED BY <2>1, <2>2, OneRunAlone
<1>4. ASSUME NEW force \in BOOLEAN, PassGate(w, force)
      PROVE  RunTypeOK'
  <2> DEFINE k == KeyOf[ThisRow(w)]
             verdict == GateVerdict(row[k], force, up)
  <2>1. AtRow(w) /\ UNCHANGED <<ckpt, unverified>> /\ k \in Key /\ job[w] = Idle
    BY <1>0, <1>4, RowIn DEF PassGate
  <2>2. \A v \in Run : job[v] \in Job
    BY DEF TypeOK
  <2>3. ASSUME NEW verd \in {"dispatch", "hold", "conflict", "skip"}, Goes(w, AfterGate(w, verd)),
               \A v \in Run : job'[v] = IF v = w /\ verd = "dispatch" THEN Dispatching(k) ELSE job[v]
        PROVE  RunTypeOK'
    <3> DEFINE q == AfterGate(w, verd)
    <3>1. /\ q \in Proc
          /\ verd = "dispatch" => q.pc = "call" /\ q.next = <<>> /\ q.item = ThisRow(w)
          /\ verd # "dispatch" => PlaceOK(q, Idle)
      BY <2>1, AfterGateType
    <3>2. PlaceOK(q, job'[w])
      <4>1. CASE verd = "dispatch"
        <5>1. job'[w].phase = "dispatch" /\ job'[w].key = KeyOf[q.item]
          BY <2>3, <3>1, <4>1 DEF Dispatching, Idle
        <5>2. q.item \in Item
          BY <2>1, <3>1, <4>1, RowIn
        <5> HIDE DEF q
        <5> QED BY <3>1, <4>1, <5>1, <5>2 DEF PlaceOK
      <4>2. CASE verd # "dispatch"
        BY <2>1, <2>3, <3>1, <4>2
      <4> QED BY <4>1, <4>2
    <3> HIDE DEF q
    <3> QED BY <2>1, <2>3, <3>1, <3>2, OneRun DEF RunTypeOK, q
  <2>4. CASE GateEnforce(w, k, force) /\ Goes(w, AfterGate(w, verdict))
    BY <2>1, <2>3, <2>4, GateEffect
  <2>5. CASE (GateObserve(w, k) \/ GateFault(w, k)) /\ Goes(w, AfterGate(w, "dispatch"))
    <3>1. \A v \in Run : job'[v] = IF v = w THEN Dispatching(k) ELSE job[v]
      BY <2>5 DEF GateObserve, GateFault, TypeOK
    <3> QED BY <2>3, <2>5, <3>1
  <2> QED BY <1>4, <2>4, <2>5 DEF PassGate
<1> QED BY <1>1, <1>2, <1>3, <1>4

\* What a run has in flight after each step of a dispatch, and that the other
\* runs keep theirs.
LEMMA FlightEffect ==
  ASSUME TypeOK, NEW w \in Run
  PROVE  /\ Land(w) => job'[w].phase = "dispatch" /\ job'[w].key = job[w].key
         /\ Succeed(w) \/ (\E error_class \in ErrorClass : Fail(w, error_class)) =>
              job'[w].phase = "settle" /\ job'[w].key = job[w].key
         /\ SettleRead(w) => job'[w] = Idle \/ job'[w].phase = "write"
         /\ SettleWrite(w) \/ Abandon(w) => job'[w] = Idle
         /\ \/ Land(w) \/ Succeed(w) \/ \E error_class \in ErrorClass : Fail(w, error_class)
            \/ SettleRead(w) \/ SettleWrite(w) \/ Abandon(w)
            => \A v \in Run \ {w} : job'[v] = job[v]
<1>1. job \in [Run -> Job] /\ job[w] \in Job
  BY DEF TypeOK
<1>2. Land(w) => job'[w].phase = "dispatch" /\ job'[w].key = job[w].key
  BY <1>1 DEF Land, Job
<1>3. Succeed(w) => job'[w].phase = "settle" /\ job'[w].key = job[w].key
  BY <1>1 DEF Succeed, Job
<1>4. (\E error_class \in ErrorClass : Fail(w, error_class)) =>
        job'[w].phase = "settle" /\ job'[w].key = job[w].key
  BY <1>1 DEF Fail, Job
<1>5. SettleRead(w) => job'[w] = Idle \/ job'[w].phase = "write"
  BY <1>1 DEF SettleRead, Job
<1>6. SettleWrite(w) \/ Abandon(w) => job'[w] = Idle
  BY <1>1 DEF SettleWrite, Abandon
<1>7. \/ Land(w) \/ Succeed(w) \/ \E error_class \in ErrorClass : Fail(w, error_class)
      \/ SettleRead(w) \/ SettleWrite(w) \/ Abandon(w)
      => \A v \in Run \ {w} : job'[v] = job[v]
  BY <1>1 DEF Land, Succeed, Fail, SettleRead, SettleWrite, Abandon
<1> QED BY <1>2, <1>3, <1>4, <1>5, <1>6, <1>7

LEMMA CallsOK ==
  ASSUME TypeOK, RunTypeOK, NEW w \in Run,
         \/ PostLands(w)
         \/ \E verified \in Verdicts : Published(w, verified)
         \/ \E class \in {"error", "policy_skip"} : InBand(w, class)
         \/ \E error_class \in ErrorClass : Raised(w, error_class)
         \/ \E auth \in BOOLEAN : Aborts(w, auth)
         \/ Escapes(w)
  PROVE  RunTypeOK'
<1> DEFINE p == proc[w]
<1>0. p \in Proc /\ PlaceOK(p, job[w]) /\ ckpt \in Checkpoint /\ unverified \subseteq Item
  BY DEF RunTypeOK
<1>1. ASSUME PostLands(w)
      PROVE  RunTypeOK'
  <2>1. Goes(w, p) /\ ckpt' = ckpt /\ unverified' = unverified /\ p.pc = "call"
    BY <1>1 DEF PostLands, Goes, runVars, RunTypeOK
  <2>2. /\ job'[w].phase = "dispatch" /\ job'[w].key = job[w].key
        /\ \A v \in Run \ {w} : job'[v] = job[v]
    BY <1>1, FlightEffect DEF PostLands
  <2>3. PlaceOK(p, job'[w])
    BY <1>0, <2>1, <2>2 DEF PlaceOK
  <2> HIDE DEF p
  <2> QED BY <1>0, <2>1, <2>2, <2>3, OneRun
\* An answer: the item in hand, a verdict, and a route to the store.
<1>2. ASSUME NEW q \in Proc, Goes(w, q), ckpt' = ckpt, unverified' \subseteq Item,
             Succeed(w) \/ \E error_class \in ErrorClass : Fail(w, error_class),
             \/ q.pc = "settle" /\ q.next \in {<<"exit">>, <<"load", "row">>, <<"load", "exit">>}
             \/ q.pc = "load" /\ q.next = <<"settle", "row">>
      PROVE  RunTypeOK'
  <2>1. job'[w].phase = "settle" /\ \A v \in Run \ {w} : job'[v] = job[v]
    BY <1>2, FlightEffect
  <2>2. PlaceOK(q, job'[w])
    BY <1>2, <2>1 DEF PlaceOK
  <2> QED BY <1>0, <1>2, <2>1, <2>2, OneRun
<1>3. ASSUME NEW verified \in Verdicts, Published(w, verified)
      PROVE  RunTypeOK'
  <2> DEFINE what == IF verified THEN {"ok"} ELSE {"ok", "unverified"}
             q == Then(Noting(w, what), <<"settle", "load", "row">>, DoneAs(verified))
  <2>1. p.pc = "call" /\ Succeed(w) /\ Goes(w, q) /\ ckpt' = ckpt
    BY <1>3 DEF Published
  <2>2. what \in SUBSET {"ok", "unverified", "held", "failed"}
    OBVIOUS
  <2> HIDE DEF what
  <2>3. IsAt(q, Noting(w, what), DoneAs(verified), "settle", <<"load", "row">>)
    BY <1>0, <2>2, NotingType, ItemStates, ThenAt, VerdictAssumption
  <2> HIDE DEF q
  <2>4. q \in Proc /\ q.pc = "settle" /\ q.next = <<"load", "row">>
    BY <2>3 DEF IsAt
  <2>5. unverified' \subseteq Item
    BY <1>0, <1>3, <2>1 DEF Published, PlaceOK
  <2> QED BY <1>2, <2>1, <2>4, <2>5
<1>4. ASSUME NEW class \in {"error", "policy_skip"}, InBand(w, class)
      PROVE  RunTypeOK'
  <2> DEFINE q == Then(Noting(w, {"failed"}), <<"settle", "load", "row">>, FailedAs(class))
  <2>1. Fail(w, "other") /\ Goes(w, q) /\ ckpt' = ckpt /\ unverified' = unverified
    BY <1>4 DEF InBand, InBandRecord
  <2>2. IsAt(q, Noting(w, {"failed"}), FailedAs(class), "settle", <<"load", "row">>)
    <3>1. Noting(w, {"failed"}) \in Proc /\ FailedAs(class) \in ItemState
      BY <1>0, NotingType, ItemStates DEF ItemClass
    <3> QED BY <3>1, ThenAt
  <2> HIDE DEF q
  <2>3. q \in Proc /\ q.pc = "settle" /\ q.next = <<"load", "row">>
    BY <2>2 DEF IsAt
  <2> QED BY <1>0, <1>2, <2>1, <2>3 DEF ErrorClass
<1>5. ASSUME NEW error_class \in ErrorClass, Raised(w, error_class)
      PROVE  RunTypeOK'
  <2> DEFINE q == Then(Noting(w, {"failed"}), <<"load", "settle", "row">>, FailedAs("error"))
  <2>1. Fail(w, error_class) /\ Goes(w, q) /\ ckpt' = ckpt /\ unverified' = unverified
    BY <1>5 DEF Raised
  <2>2. IsAt(q, Noting(w, {"failed"}), FailedAs("error"), "load", <<"settle", "row">>)
    <3>1. Noting(w, {"failed"}) \in Proc /\ FailedAs("error") \in ItemState
      BY <1>0, NotingType, ItemStates DEF ItemClass
    <3> QED BY <3>1, ThenAt
  <2> HIDE DEF q
  <2>3. q \in Proc /\ q.pc = "load" /\ q.next = <<"settle", "row">>
    BY <2>2 DEF IsAt
  <2> QED BY <1>0, <1>2, <2>1, <2>3
<1>6. ASSUME NEW auth \in BOOLEAN, Aborts(w, auth)
      PROVE  RunTypeOK'
  <2> DEFINE route == IF auth THEN <<"settle", "load", "exit">> ELSE <<"settle", "exit">>
             t == Then(p, route, FailedAs("error"))
             q == [t EXCEPT !.code = 3]
  <2>1. Fail(w, "other") /\ Goes(w, q) /\ ckpt' = ckpt /\ unverified' = unverified
    BY <1>6 DEF Aborts
  <2>2. t \in Proc /\ t.pc = "settle" /\ t.next \in {<<"exit">>, <<"load", "exit">>}
    <3>1. FailedAs("error") \in ItemState
      BY ItemStates DEF ItemClass
    <3>2. CASE auth
      <4>1. IsAt(t, p, FailedAs("error"), "settle", <<"load", "exit">>)
        BY <1>0, <3>1, <3>2, ThenAt
      <4> QED BY <4>1 DEF IsAt
    <3>3. CASE ~auth
      <4>1. IsAt(t, p, FailedAs("error"), "settle", <<"exit">>)
        BY <1>0, <3>1, <3>3, ThenAt
      <4> QED BY <4>1 DEF IsAt
    <3> QED BY <3>2, <3>3
  <2> HIDE DEF t
  <2>3. q \in Proc /\ q.pc = "settle" /\ q.next \in {<<"exit">>, <<"load", "exit">>}
    BY <2>2 DEF Proc, ExitCode
  <2> HIDE DEF q
  <2> QED BY <1>0, <1>2, <2>1, <2>3 DEF ErrorClass
<1>7. ASSUME Escapes(w)
      PROVE  RunTypeOK'
  <2>1. Goes(w, Off(uncaught)) /\ ckpt' = ckpt /\ unverified' = unverified
    BY <1>7 DEF Escapes
  <2>2. job'[w] = Idle /\ \A v \in Run \ {w} : job'[v] = job[v]
    BY <1>7, FlightEffect DEF Escapes, vars
  <2>3. uncaught \in ExitCode
    BY DEF ExitCode
  <2> QED BY <1>0, <2>1, <2>2, <2>3, OffType, OffPlace, OneRun
<1> QED BY <1>1, <1>3, <1>4, <1>5, <1>6, <1>7

\* The item in hand, written over what the run has read.
LEMMA UpdatedType ==
  ASSUME NEW file \in Checkpoint, NEW i \in Item, NEW new \in ItemState
  PROVE  Updated(file, i, new) \in Checkpoint
BY DEF Updated, Checkpoint, ItemState

LEMMA WritesOK ==
  ASSUME TypeOK, RunTypeOK, NEW w \in Run,
         Settle(w) \/ LoadCheckpoint(w) \/ SaveCheckpoint(w) \/ CheckpointFails(w)
  PROVE  RunTypeOK'
<1> DEFINE p == proc[w]
<1>0. p \in Proc /\ PlaceOK(p, job[w]) /\ ckpt \in Checkpoint /\ unverified \subseteq Item
  BY DEF RunTypeOK
<1>1. ASSUME Settle(w)
      PROVE  RunTypeOK'
  <2>1. p.pc = "settle" /\ ckpt' = ckpt /\ unverified' = unverified
    BY <1>1 DEF Settle
  <2>2. /\ job'[w] = Idle \/ job'[w].phase = "write"
        /\ \A v \in Run \ {w} : job'[v] = job[v]
    BY <1>1, FlightEffect DEF Settle
  <2>3. CASE job'[w] = Idle
    <3>1. Goes(w, Continue(p))
      BY <1>1, <2>3 DEF Settle
    <3>2. Continue(p) \in Proc /\ PlaceOK(Continue(p), Idle)
      BY <1>0, <2>1, ContinueLoop, ContinueLoad DEF PlaceOK
    <3> QED BY <1>0, <2>1, <2>2, <2>3, <3>1, <3>2, OneRun
  <2>4. CASE job'[w] # Idle
    <3>1. Goes(w, p)
      BY <1>1, <2>4 DEF Settle, Goes, RunTypeOK
    <3>2. PlaceOK(p, job'[w])
      BY <1>0, <2>1, <2>2, <2>4 DEF PlaceOK
    <3> HIDE DEF p
    <3> QED BY <1>0, <2>1, <2>2, <3>1, <3>2, OneRun
  <2> QED BY <2>3, <2>4
\* A run that is done with the checkpoint goes on where its place says.
<1>2. ASSUME NEW q \in Proc, q.next = p.next, p.pc \in {"load", "save"}
      PROVE  Continue(q) \in Proc /\ PlaceOK(Continue(q), job[w])
  <2>1. \/ p.next \in {<<"row">>, <<"scan">>, <<"exit">>} /\ job[w] = Idle
        \/ p.next = <<"settle", "row">> /\ job[w].phase = "settle"
    BY <1>0, <1>2 DEF PlaceOK
  <2> QED BY <1>2, <2>1, ContinueLoop, ContinueSettle
<1>3. ASSUME LoadCheckpoint(w)
      PROVE  RunTypeOK'
  <2> DEFINE q == [p EXCEPT !.pc = "save", !.file = ckpt]
  <2>1. p.pc = "load" /\ UNCHANGED <<vars, ckpt, unverified>>
    BY <1>3 DEF LoadCheckpoint
  <2>2. CASE p.saving
    <3>1. Goes(w, q)
      BY <1>3, <2>2 DEF LoadCheckpoint
    <3>2. q \in Proc /\ q.pc = "save" /\ q.next = p.next
      BY <1>0 DEF Proc, PC
    <3>3. PlaceOK(q, job[w])
      BY <1>0, <2>1, <3>2 DEF PlaceOK
    <3> HIDE DEF q
    <3> QED BY <2>1, <3>1, <3>2, <3>3, OneRunAlone
  <2>3. CASE ~p.saving
    <3>1. Goes(w, Continue(p))
      BY <1>3, <2>3 DEF LoadCheckpoint
    <3> QED BY <1>0, <1>2, <2>1, <3>1, OneRunAlone
  <2> QED BY <2>2, <2>3
<1>4. ASSUME SaveCheckpoint(w)
      PROVE  RunTypeOK'
  <2> DEFINE q == [p EXCEPT !.file = NoCheckpoint]
  <2>1. q \in Proc /\ q.next = p.next
    BY <1>0, NoCheckpointType DEF Proc
  <2>2. p.pc = "save" /\ Goes(w, Continue(q)) /\ job' = job /\ unverified' = unverified
    BY <1>4 DEF SaveCheckpoint, vars
  <2> HIDE DEF q
  <2>3. Continue(q) \in Proc /\ PlaceOK(Continue(q), job'[w])
    BY <1>2, <2>1, <2>2
  <2>4. ckpt' \in Checkpoint
    <3>1. p.file \in Checkpoint /\ p.item \in Item \cup {NoItem} /\ p.new \in ItemState
      BY <1>0 DEF Proc
    <3>2. CASE p.item = NoItem
      <4>1. ckpt' = [p.file EXCEPT !.status = "complete"]
        BY <1>4, <3>2 DEF SaveCheckpoint
      <4> QED BY <3>1, <4>1 DEF Checkpoint
    <3>3. CASE p.item # NoItem
      <4>1. ckpt' = Updated(p.file, p.item, p.new)
        BY <1>4, <3>3 DEF SaveCheckpoint
      <4> QED BY <3>1, <3>3, <4>1, UpdatedType
    <3> QED BY <3>2, <3>3
  <2> QED BY <1>0, <2>2, <2>3, <2>4, OneRun
<1>5. ASSUME CheckpointFails(w)
      PROVE  RunTypeOK'
  <2> DEFINE q == [p EXCEPT !.file = NoCheckpoint, !.saving = FALSE]
  <2>1. q \in Proc /\ q.next = p.next
    BY <1>0, NoCheckpointType DEF Proc
  <2>2. p.pc = "save" /\ Goes(w, Continue(q)) /\ UNCHANGED <<vars, ckpt, unverified>>
    BY <1>5 DEF CheckpointFails
  <2> HIDE DEF q
  <2> QED BY <1>2, <2>1, <2>2, OneRunAlone
<1> QED BY <1>1, <1>3, <1>4, <1>5

LEMMA OutsideOK ==
  ASSUME TypeOK, RunTypeOK, Environment \/ \E p \in Pid : Dies(p)
  PROVE  RunTypeOK'
<1>1. ASSUME Environment
      PROVE  RunTypeOK'
  <2>1. job' = job /\ UNCHANGED runVars
    BY <1>1 DEF Environment, Restart, Age, OperatorStep, Forget, Adjudicate
  <2> QED BY <2>1 DEF RunTypeOK, runVars
<1>2. ASSUME NEW p \in Pid, Dies(p)
      PROVE  RunTypeOK'
  <2>1. noExit \in ExitCode
    BY DEF ExitCode
  <2>2. /\ job' = [w \in Run |-> IF PidOf[w] = p THEN Idle ELSE job[w]]
        /\ proc' = [w \in Run |-> IF PidOf[w] = p THEN Off(noExit) ELSE proc[w]]
        /\ UNCHANGED <<ckpt, unverified>>
    BY <1>2 DEF Dies, Crash
  <2>3. proc' \in [Run -> Proc]
    BY <2>1, <2>2, OffType DEF RunTypeOK
  <2>4. \A w \in Run : PlaceOK(proc'[w], job'[w])
    BY <2>2, OffPlace DEF RunTypeOK
  <2> QED BY <2>2, <2>3, <2>4 DEF RunTypeOK
<1> QED BY <1>1, <1>2

LEMMA RunTypeInit == RunInit => RunTypeOK
<1>1. noExit \in ExitCode
  BY DEF ExitCode
<1> QED BY <1>1, NoCheckpointType, OffType, OffPlace DEF RunInit, Init, RunTypeOK

LEMMA RunTypeNext == TypeOK /\ RunTypeOK /\ [RunNext]_allVars => RunTypeOK'
<1> SUFFICES ASSUME TypeOK, RunTypeOK, [RunNext]_allVars
             PROVE  RunTypeOK'
  OBVIOUS
<1>1. CASE UNCHANGED allVars
  BY <1>1 DEF allVars, vars, runVars, RunTypeOK
<1>2. CASE (\E created \in BOOLEAN : StartFresh(created)) \/ EndFresh
  BY <1>2, StartsOK
<1>3. CASE \E w \in Run : StartResume(w) \/ PostLands(w)
  BY <1>3, StartsOK, CallsOK
<1>4. ASSUME NEW w \in Run, Progress(w)
      PROVE  RunTypeOK'
  BY <1>4, PreparesOK, GatesOK, CallsOK, WritesOK DEF Progress
<1>5. CASE (\E p \in Pid : Dies(p)) \/ Environment
  BY <1>5, OutsideOK
<1> QED BY <1>1, <1>2, <1>3, <1>4, <1>5 DEF RunNext

\* RunTypeOK holds of every run: the variables keep their types, and a run of
\* publish_rows or _run_resume that is in its adapter, settling or writing its
\* checkpoint has in flight what the store has for the key of its item.
THEOREM RunTypeCorrect == RunSpec => []RunTypeOK
<1>1. RunInit => Init
  BY DEF RunInit
<1>2. RunSpec => [](TypeOK /\ RunTypeOK)
  BY <1>1, InitType, NextType, RunTypeInit, RunTypeNext, NextRefines, PTL DEF RunSpec
<1> QED BY <1>2, PTL

\* Whole runs implement PublishDedup: nothing that publish_rows, _run_resume and
\* their checkpoint do around the gate, the adapter and the settle of a row takes
\* a step of the store or the platform that PublishDedup does not allow.
THEOREM RunsImplementDedup == RunSpec => Spec
<1>1. RunInit => Init
  BY DEF RunInit
<1> QED BY <1>1, RunTypeCorrect, NextRefines, PTL DEF RunSpec, Spec

\* So a key is posted at most once in contract, over a publish run, its crashes
\* and all the resumes that follow it.
THEOREM RunPostsBounded == RunSpec => []AtMostOnePost
BY RunsImplementDedup, PostsBounded, PTL

\* The rest of what the gate promises holds of whole runs too: the abstract budget of
\* a key, over a run and its resumes; one run at a time; rows that tell the truth,
\* and are not taken back.
THEOREM RunsKeepTheGate ==
  RunSpec => /\ ImplementsBudget
             /\ []SingleFlight /\ []RepublishableIsNotLive /\ []DoneIsLive
             /\ DoneIsFinal /\ HeldUntilAdjudicated
BY RunsImplementDedup, BudgetImplemented, GateIsSingleFlight, RepublishSafe, DoneMeansLive,
   DoneStaysDone, HeldStaysHeld, PTL

-----------------------------------------------------------------------------
(***************************************************************************)
(* The checkpoint calls done only what is live.  A run carries the truth   *)
(* from where it learns it to the file over several steps, and the file it *)
(* writes back is the one it has read before: so what is in hand, and what *)
(* was read, must be true as well, and stay true while other runs go on.   *)
(***************************************************************************)

Live(i) == clean[KeyOf[i]] => posts[KeyOf[i]] > 0
LiveAfter(i) == clean'[KeyOf[i]] => posts'[KeyOf[i]] > 0

InHand(p) == p.pc \in {"load", "save", "settle"} /\ p.item \in Item /\ p.new.status = "done"

LiveInv ==
  /\ \A i \in Item : ckpt.item[i].status = "done" => Live(i)
  /\ \A w \in Run, i \in Item : proc[w].file.item[i].status = "done" => Live(i)
  /\ \A w \in Run : InHand(proc[w]) => Live(proc[w].item)

\* No post disappears, and no key comes back into the contract.
LEMMA LiveKept ==
  ASSUME TypeOK, FlightInv, [Next]_vars
  PROVE  \A i \in Item : Live(i) => LiveAfter(i)
<1> SUFFICES ASSUME NEW i \in Item, Live(i), clean'[KeyOf[i]]
             PROVE  posts'[KeyOf[i]] > 0
  BY DEF LiveAfter
<1> DEFINE k == KeyOf[i]
<1>1. k \in Key
  BY KeyOfAssumption
<1>2. KeepsBudget(k)
  BY <1>1, BudgetStep
<1>3. clean[k] /\ posts[k] \in Nat /\ (posts'[k] = posts[k] \/ posts'[k] = posts[k] + 1)
  BY <1>1, <1>2, BoundAssumption DEF KeepsBudget, Spends, Loses, Grants, TypeOK
<1> QED BY <1>3 DEF Live

\* A step of one run: what it has in hand is live, or was in hand before.
LEMMA LiveRun ==
  ASSUME RunTypeOK, LiveInv, \A i \in Item : Live(i) => LiveAfter(i),
         NEW w \in Run, NEW q, Goes(w, q),
         \A i \in Item : ckpt'.item[i].status = "done" => LiveAfter(i),
         q.file \in {proc[w].file, ckpt, NoCheckpoint},
         InHand(q) => LiveAfter(q.item) \/ (InHand(proc[w]) /\ q.item = proc[w].item)
  PROVE  LiveInv'
<1>1. proc'[w] = q /\ \A v \in Run \ {w} : proc'[v] = proc[v]
  BY DEF RunTypeOK, Goes
<1>2. \A i \in Item : NoCheckpoint.item[i].status = "pending"
  BY DEF NoCheckpoint, Pending
<1>3. ASSUME NEW v \in Run, NEW i \in Item, proc'[v].file.item[i].status = "done"
      PROVE  LiveAfter(i)
  <2>1. CASE v = w
    BY <1>1, <1>2, <1>3, <2>1 DEF LiveInv
  <2>2. CASE v # w
    BY <1>1, <1>3, <2>2 DEF LiveInv
  <2> QED BY <2>1, <2>2
<1>4. ASSUME NEW v \in Run, InHand(proc'[v])
      PROVE  LiveAfter(proc'[v].item)
  <2>1. CASE v = w
    BY <1>1, <1>4, <2>1 DEF LiveInv, InHand
  <2>2. CASE v # w
    BY <1>1, <1>4, <2>2 DEF LiveInv, InHand
  <2> QED BY <2>1, <2>2
<1> QED BY <1>3, <1>4 DEF LiveInv, Live, LiveAfter, InHand

\* So does a step that writes nothing and takes nothing new in hand.
LEMMA LiveAlone ==
  ASSUME RunTypeOK, LiveInv, \A i \in Item : Live(i) => LiveAfter(i),
         NEW w \in Run, NEW q, Goes(w, q), ckpt' = ckpt,
         q.file \in {proc[w].file, ckpt, NoCheckpoint},
         InHand(q) => InHand(proc[w]) /\ q.item = proc[w].item
  PROVE  LiveInv'
<1>1. \A i \in Item : ckpt'.item[i].status = "done" => LiveAfter(i)
  BY DEF LiveInv
<1> QED BY <1>1, LiveRun

\* A run that goes on keeps what it has in hand, or drops it.
LEMMA ContinueHand ==
  ASSUME NEW p \in Proc,
         p.next \in {<<"row">>, <<"scan">>, <<"exit">>, <<"load", "row">>,
                     <<"load", "exit">>, <<"settle", "row">>}
  PROVE  /\ Continue(p).file \in {p.file, NoCheckpoint}
         /\ InHand(Continue(p)) => Continue(p).item = p.item /\ Continue(p).new = p.new
<1>1. CASE p.next \in {<<"row">>, <<"scan">>, <<"exit">>}
  BY <1>1, ContinueLoop DEF InHand
<1>2. CASE p.next \in {<<"load", "row">>, <<"load", "exit">>}
  BY <1>2, ContinueLoad
<1>3. CASE p.next = <<"settle", "row">>
  <2>1. Dispatching(NoKey).phase = "dispatch"
    BY DEF Dispatching, Idle
  <2> DEFINE j == [Dispatching(NoKey) EXCEPT !.phase = "settle"]
  <2>2. j.phase = "settle"
    BY DEF Dispatching, Idle
  <2> QED BY <1>3, <2>2, ContinueSettle
<1> QED BY <1>1, <1>2, <1>3

LEMMA OffHand == \A code : Off(code).file = NoCheckpoint /\ ~InHand(Off(code))
BY DEF Off, InHand

LEMMA LiveStarts ==
  ASSUME RunTypeOK, LiveInv, \A i \in Item : Live(i) => LiveAfter(i),
         \/ \E created \in BOOLEAN : StartFresh(created)
         \/ EndFresh
         \/ \E w \in Run : StartResume(w) \/ TakeLeases(w) \/ Refused(w) \/ Drift(w)
  PROVE  LiveInv'
<1>0. Off(noExit).file = NoCheckpoint
  BY DEF Off
<1>1. ASSUME NEW created \in BOOLEAN, StartFresh(created)
      PROVE  LiveInv'
  <2> DEFINE q == [Off(noExit) EXCEPT !.pc = "row", !.todo = Item, !.saving = created]
  <2>1. q.pc = "row" /\ q.file = NoCheckpoint
    BY DEF Off
  <2>2. Goes(Fresh, q)
    BY <1>1 DEF StartFresh
  <2>3. ckpt'.item = ckpt.item \/ ckpt'.item = NoCheckpoint.item
    BY <1>1 DEF StartFresh, NoCheckpoint
  <2>4. \A i \in Item : ckpt'.item[i].status = "done" => LiveAfter(i)
    BY <2>3 DEF LiveInv, NoCheckpoint, Pending
  <2>5. ~InHand(q)
    BY <2>1 DEF InHand
  <2> HIDE DEF q
  <2> QED BY <2>1, <2>2, <2>4, <2>5, LiveRun, FreshAssumption
<1>2. ASSUME EndFresh
      PROVE  LiveInv'
  <2>1. Goes(Fresh, Off(FreshExit(proc[Fresh].seen))) /\ ckpt' = ckpt
    BY <1>2 DEF EndFresh
  <2> QED BY <2>1, OffHand, LiveAlone, FreshAssumption
<1>3. ASSUME NEW w \in Run, StartResume(w)
      PROVE  LiveInv'
  <2> DEFINE q == [Off(noExit) EXCEPT !.pc = "lease", !.snap = ckpt.item, !.saving = TRUE]
  <2>1. q.pc = "lease" /\ q.file = NoCheckpoint
    BY DEF Off
  <2>2. Goes(w, q) /\ ckpt' = ckpt
    BY <1>3 DEF StartResume
  <2>3. ~InHand(q)
    BY <2>1 DEF InHand
  <2> HIDE DEF q
  <2> QED BY <2>1, <2>2, <2>3, LiveAlone
<1>4. ASSUME NEW w \in Run, TakeLeases(w)
      PROVE  LiveInv'
  <2> DEFINE todo == {i \in Item : Unfinished(proc[w].snap[i]) /\ proc[w].snap[i].class # "retro"}
             q == [proc[w] EXCEPT !.pc = "scan", !.todo = todo]
  <2>1. Goes(w, q) /\ ckpt' = ckpt
    BY <1>4 DEF TakeLeases
  <2>2. q.pc = "scan" /\ q.file = proc[w].file
    BY DEF RunTypeOK, Proc
  <2>3. ~InHand(q)
    BY <2>2 DEF InHand
  <2> HIDE DEF q
  <2> QED BY <2>1, <2>2, <2>3, LiveAlone
<1>5. ASSUME NEW w \in Run, Refused(w) \/ Drift(w)
      PROVE  LiveInv'
  <2>1. Goes(w, Off(3)) /\ ckpt' = ckpt
    BY <1>5 DEF Refused, Drift
  <2> QED BY <2>1, OffHand, LiveAlone
<1> QED BY <1>1, <1>2, <1>3, <1>4, <1>5

\* mark_complete takes no item in hand.
LEMMA CompletingHand ==
  ASSUME NEW p \in Proc, NEW code \in ExitCode
  PROVE  Completing(p, code).file = p.file /\ ~InHand(Completing(p, code))
<1> DEFINE q == Then(p, <<"load", "exit">>, Pending)
<1>1. q \in Proc /\ q.file = p.file
  <2>1. IsAt(q, p, Pending, "load", <<"exit">>)
    BY ThenAt, ItemStates
  <2> QED BY <2>1 DEF IsAt
<1>2. Completing(p, code) = [q EXCEPT !.item = NoItem, !.code = code]
  BY DEF Completing
<1> HIDE DEF q
<1>3. Completing(p, code).item = NoItem /\ Completing(p, code).file = p.file
  BY <1>1, <1>2 DEF Proc
<1> QED BY <1>3, ItemAssumption DEF InHand

LEMMA LivePrepares ==
  ASSUME RunTypeOK, LiveInv, \A i \in Item : Live(i) => LiveAfter(i), NEW w \in Run,
         \/ Select(w) \/ EndResume(w)
         \/ \E outdated \in BOOLEAN : Revalidate(w, outdated)
  PROVE  LiveInv'
<1> DEFINE p == proc[w]
<1>0. p \in Proc
  BY DEF RunTypeOK
<1>1. ASSUME Select(w)
      PROVE  LiveInv'
  <2> DEFINE todo == {i \in Item : Resumable(p.snap[i])}
             q == [p EXCEPT !.pc = "row", !.todo = todo, !.snap = NoCheckpoint.item]
  <2>1. ckpt' = ckpt /\ (Goes(w, Completing(p, 0)) \/ Goes(w, q))
    BY <1>1 DEF Select
  <2>2. q.file = p.file /\ q.pc = "row"
    BY <1>0 DEF Proc
  <2>3. ~InHand(q)
    BY <2>2 DEF InHand
  <2> HIDE DEF q
  <2> QED BY <1>0, <2>1, <2>2, <2>3, CompletingHand, LiveAlone DEF ExitCode
<1>2. ASSUME EndResume(w)
      PROVE  LiveInv'
  <2> DEFINE code == IF "unverified" \in p.seen THEN 5 ELSE 0
  <2>1. ckpt' = ckpt /\ (Goes(w, Completing(p, code)) \/ Goes(w, Off(4)))
    BY <1>2 DEF EndResume
  <2>2. code \in ExitCode
    BY DEF ExitCode
  <2> HIDE DEF code
  <2> QED BY <1>0, <2>1, <2>2, CompletingHand, OffHand, LiveAlone
<1>3. ASSUME NEW outdated \in BOOLEAN, Revalidate(w, outdated)
      PROVE  LiveInv'
  <2> DEFINE i == First(p.todo)
             q == [p EXCEPT !.todo = @ \ {i}]
             t == Then(q, <<"load", "scan">>, FailedAs("retro"))
             u == [t EXCEPT !.item = i, !.snap[i] = FailedAs("retro")]
  <2>1. ckpt' = ckpt /\ p.pc = "scan" /\ (Goes(w, q) \/ Goes(w, u))
    BY <1>3 DEF Revalidate
  <2>2. q \in Proc /\ q.file = p.file /\ q.pc = "scan"
    BY <1>0, <2>1 DEF Proc
  <2> HIDE DEF q
  <2>3. t \in Proc /\ t.file = p.file /\ t.new = FailedAs("retro")
    <3>1. FailedAs("retro") \in ItemState
      BY ItemStates DEF ItemClass
    <3>2. IsAt(t, q, FailedAs("retro"), "load", <<"scan">>)
      BY <2>2, <3>1, ThenAt
    <3> QED BY <2>2, <3>2 DEF IsAt
  <2> HIDE DEF t, i
  <2>4. u.file = p.file /\ u.new = FailedAs("retro")
    BY <2>3 DEF Proc
  <2> HIDE DEF u
  <2>5. ~InHand(q) /\ ~InHand(u)
    BY <2>2, <2>4 DEF InHand, FailedAs
  <2> QED BY <2>1, <2>2, <2>4, <2>5, LiveAlone
<1> QED BY <1>1, <1>2, <1>3

\* A gate takes an item in hand only when it skips it: then the row of its key is
\* done, and DoneIsLive says that the post is there.
LEMMA LiveGates ==
  ASSUME TypeOK, RunTypeOK, DoneIsLive, LiveInv, \A i \in Item : Live(i) => LiveAfter(i),
         NEW w \in Run,
         \/ \E what \in {{}, {"failed"}} : PassOver(w, what)
         \/ \E force \in BOOLEAN : PassGate(w, force)
         \/ GateHolds(w)
  PROVE  LiveInv'
<1> DEFINE i == ThisRow(w)
           k == KeyOf[i]
<1>1. ASSUME NEW what \in {{}, {"failed"}}, PassOver(w, what)
      PROVE  LiveInv'
  <2> DEFINE q == Passing(w, what)
  <2>1. Goes(w, q) /\ ckpt' = ckpt /\ AtRow(w)
    BY <1>1 DEF PassOver
  <2>2. q.pc = "row" /\ q.file = proc[w].file
    <3>1. what \in SUBSET {"ok", "unverified", "held", "failed"}
      OBVIOUS
    <3> QED BY <2>1, <3>1, PassingType DEF RunTypeOK, AtRow
  <2> HIDE DEF q
  <2>3. ~InHand(q)
    BY <2>2 DEF InHand
  <2> QED BY <2>1, <2>2, <2>3, LiveAlone
<1>2. ASSUME NEW verdict \in {"dispatch", "hold", "conflict", "skip"}, AtRow(w),
             Goes(w, AfterGate(w, verdict)), ckpt' = ckpt,
             verdict = "skip" => row[k].state = "done"
      PROVE  LiveInv'
  <2> DEFINE q == AfterGate(w, verdict)
  <2>1. /\ \/ q.pc \in {"off", "row", "call"}
           \/ q.pc = "load" /\ q.new = DoneAs(TRUE) /\ q.item = i /\ verdict = "skip"
        /\ q.file \in {proc[w].file, NoCheckpoint}
    BY <1>2, AfterGateType
  <2> HIDE DEF q
  <2>2. InHand(q) => LiveAfter(q.item)
    <3>1. SUFFICES ASSUME InHand(q) PROVE LiveAfter(q.item)
      OBVIOUS
    <3>2. q.item = i /\ row[k].state = "done"
      BY <1>2, <2>1, <3>1 DEF InHand
    <3>3. i \in Item /\ k \in Key
      BY <1>2, RowIn
    <3>4. Live(i)
      BY <3>2, <3>3 DEF DoneIsLive, Live
    <3> HIDE DEF i
    <3> QED BY <3>2, <3>3, <3>4
  <2>3. \A j \in Item : ckpt'.item[j].status = "done" => LiveAfter(j)
    BY <1>2 DEF LiveInv
  <2>4. Goes(w, q)
    BY <1>2 DEF q
  <2> QED BY <2>1, <2>2, <2>3, <2>4, LiveRun
<1>3. ASSUME GateHolds(w)
      PROVE  LiveInv'
  <2>1. AtRow(w) /\ Goes(w, AfterGate(w, "hold")) /\ ckpt' = ckpt
    BY <1>3 DEF GateHolds
  <2> QED BY <1>2, <2>1
<1>4. ASSUME NEW force \in BOOLEAN, PassGate(w, force)
      PROVE  LiveInv'
  <2> DEFINE verdict == GateVerdict(row[k], force, up)
  <2>1. AtRow(w) /\ ckpt' = ckpt /\ k \in Key
    BY <1>4, RowIn DEF PassGate
  <2>2. CASE GateEnforce(w, k, force) /\ Goes(w, AfterGate(w, verdict))
    <3>1. /\ verdict \in {"dispatch", "hold", "conflict", "skip"}
          /\ verdict = "skip" => row[k].state = "done"
      BY <2>1, <2>2, GateEffect
    <3> HIDE DEF verdict, k
    <3> QED BY <1>2, <2>1, <2>2, <3>1
  <2>3. CASE Goes(w, AfterGate(w, "dispatch"))
    BY <1>2, <2>1, <2>3
  <2> QED BY <1>4, <2>2, <2>3 DEF PassGate
<1> QED BY <1>1, <1>3, <1>4

\* A run records done for its item only after its own post landed; what failed is
\* nothing the checkpoint calls done.
LEMMA LiveCalls ==
  ASSUME TypeOK, FlightInv, RunTypeOK, LiveInv, \A i \in Item : Live(i) => LiveAfter(i),
         NEW w \in Run,
         \/ PostLands(w)
         \/ \E verified \in Verdicts : Published(w, verified)
         \/ \E class \in {"error", "policy_skip"} : InBand(w, class)
         \/ \E error_class \in ErrorClass : Raised(w, error_class)
         \/ \E auth \in BOOLEAN : Aborts(w, auth)
         \/ Escapes(w)
  PROVE  LiveInv'
<1> DEFINE p == proc[w]
<1>0. p \in Proc /\ PlaceOK(p, job[w])
  BY DEF RunTypeOK
<1>1. ASSUME PostLands(w)
      PROVE  LiveInv'
  <2>1. Goes(w, p) /\ ckpt' = ckpt
    BY <1>1 DEF PostLands, Goes, runVars, RunTypeOK
  <2> QED BY <2>1, LiveAlone
<1>2. ASSUME NEW verified \in Verdicts, Published(w, verified)
      PROVE  LiveInv'
  <2> DEFINE what == IF verified THEN {"ok"} ELSE {"ok", "unverified"}
             q == Then(Noting(w, what), <<"settle", "load", "row">>, DoneAs(verified))
  <2>1. p.pc = "call" /\ Succeed(w) /\ Goes(w, q) /\ ckpt' = ckpt
    BY <1>2 DEF Published
  <2>2. what \in SUBSET {"ok", "unverified", "held", "failed"}
    OBVIOUS
  <2> HIDE DEF what
  <2>3. IsAt(q, Noting(w, what), DoneAs(verified), "settle", <<"load", "row">>)
    BY <1>0, <2>2, NotingType, ItemStates, ThenAt, VerdictAssumption
  <2> HIDE DEF q
  <2>4. q.item = p.item /\ q.file = p.file
    BY <1>0, <2>2, <2>3, NotingType DEF IsAt
  <2>5. p.item \in Item /\ job[w].key = KeyOf[p.item] /\ job[w].sent
    BY <1>0, <2>1 DEF PlaceOK, Succeed
  <2>6. Live(p.item)
    BY <2>5 DEF FlightInv, OutcomeOK, Live
  <2>7. LiveAfter(q.item)
    <3> HIDE DEF p
    <3> QED BY <2>4, <2>5, <2>6
  <2>8. \A i \in Item : ckpt'.item[i].status = "done" => LiveAfter(i)
    BY <2>1 DEF LiveInv
  <2> QED BY <2>1, <2>4, <2>7, <2>8, LiveRun
\* A failure.
<1>3. ASSUME NEW q, Goes(w, q), ckpt' = ckpt, q.file = p.file, q.new.status = "failed"
      PROVE  LiveInv'
  BY <1>3, LiveAlone DEF InHand
<1>4. \A class \in ItemClass : FailedAs(class) \in ItemState /\ FailedAs(class).status = "failed"
  BY ItemStates DEF FailedAs
<1>5. Noting(w, {"failed"}) \in Proc /\ Noting(w, {"failed"}).file = p.file
  BY <1>0, NotingType
<1>6. ASSUME NEW class \in {"error", "policy_skip"}, InBand(w, class)
      PROVE  LiveInv'
  <2> DEFINE q == Then(Noting(w, {"failed"}), <<"settle", "load", "row">>, FailedAs(class))
  <2>1. Goes(w, q) /\ ckpt' = ckpt
    BY <1>6 DEF InBand, InBandRecord
  <2>2. IsAt(q, Noting(w, {"failed"}), FailedAs(class), "settle", <<"load", "row">>)
    <3>1. FailedAs(class) \in ItemState
      BY <1>4 DEF ItemClass
    <3> QED BY <1>5, <3>1, ThenAt
  <2> HIDE DEF q
  <2> QED BY <1>3, <1>4, <1>5, <2>1, <2>2 DEF IsAt, ItemClass
<1>7. ASSUME NEW error_class \in ErrorClass, Raised(w, error_class)
      PROVE  LiveInv'
  <2> DEFINE q == Then(Noting(w, {"failed"}), <<"load", "settle", "row">>, FailedAs("error"))
  <2>1. Goes(w, q) /\ ckpt' = ckpt
    BY <1>7 DEF Raised
  <2>2. IsAt(q, Noting(w, {"failed"}), FailedAs("error"), "load", <<"settle", "row">>)
    <3>1. FailedAs("error") \in ItemState
      BY <1>4 DEF ItemClass
    <3> QED BY <1>5, <3>1, ThenAt
  <2> HIDE DEF q
  <2> QED BY <1>3, <1>4, <1>5, <2>1, <2>2 DEF IsAt, ItemClass
<1>8. ASSUME NEW auth \in BOOLEAN, Aborts(w, auth)
      PROVE  LiveInv'
  <2> DEFINE route == IF auth THEN <<"settle", "load", "exit">> ELSE <<"settle", "exit">>
             t == Then(p, route, FailedAs("error"))
             q == [t EXCEPT !.code = 3]
  <2>1. Goes(w, q) /\ ckpt' = ckpt
    BY <1>8 DEF Aborts
  <2>2. t \in Proc /\ t.file = p.file /\ t.new = FailedAs("error")
    <3>1. FailedAs("error") \in ItemState
      BY <1>4 DEF ItemClass
    <3>2. CASE auth
      <4>1. IsAt(t, p, FailedAs("error"), "settle", <<"load", "exit">>)
        BY <1>0, <3>1, <3>2, ThenAt
      <4> QED BY <4>1 DEF IsAt
    <3>3. CASE ~auth
      <4>1. IsAt(t, p, FailedAs("error"), "settle", <<"exit">>)
        BY <1>0, <3>1, <3>3, ThenAt
      <4> QED BY <4>1 DEF IsAt
    <3> QED BY <3>2, <3>3
  <2> HIDE DEF t
  <2>3. q.file = p.file /\ q.new = FailedAs("error")
    BY <2>2 DEF Proc
  <2> HIDE DEF q
  <2> QED BY <1>3, <1>4, <2>1, <2>3 DEF ItemClass
<1>9. ASSUME Escapes(w)
      PROVE  LiveInv'
  <2>1. Goes(w, Off(uncaught)) /\ ckpt' = ckpt
    BY <1>9 DEF Escapes
  <2> QED BY <2>1, OffHand, LiveAlone
<1> QED BY <1>1, <1>2, <1>6, <1>7, <1>8, <1>9

\* A write puts into the file what the run had in hand, over what it had read.
LEMMA LiveWrites ==
  ASSUME TypeOK, RunTypeOK, LiveInv, \A i \in Item : Live(i) => LiveAfter(i), NEW w \in Run,
         Settle(w) \/ LoadCheckpoint(w) \/ SaveCheckpoint(w) \/ CheckpointFails(w)
  PROVE  LiveInv'
<1> DEFINE p == proc[w]
<1>0. /\ p \in Proc
      /\ p.pc \in {"load", "save", "settle"} =>
           p.next \in {<<"row">>, <<"scan">>, <<"exit">>, <<"load", "row">>,
                       <<"load", "exit">>, <<"settle", "row">>}
  BY DEF RunTypeOK, PlaceOK
\* A run that goes on from a write or a settle.
<1>1. ASSUME NEW q \in Proc, q.next = p.next, q.item = p.item, q.new = p.new,
             q.file \in {p.file, NoCheckpoint}, p.pc \in {"load", "save", "settle"}
      PROVE  /\ Continue(q).file \in {p.file, NoCheckpoint}
             /\ InHand(Continue(q)) => InHand(p) /\ Continue(q).item = p.item
  <2>1. /\ Continue(q).file \in {q.file, NoCheckpoint}
        /\ InHand(Continue(q)) => Continue(q).item = q.item /\ Continue(q).new = q.new
    BY <1>0, <1>1, ContinueHand
  <2> QED BY <1>1, <2>1 DEF InHand
<1>2. ASSUME Settle(w)
      PROVE  LiveInv'
  <2>1. ckpt' = ckpt /\ p.pc = "settle" /\ (Goes(w, Continue(p)) \/ Goes(w, p))
    BY <1>2 DEF Settle, Goes, RunTypeOK
  <2> QED BY <1>0, <1>1, <2>1, LiveAlone
<1>3. ASSUME LoadCheckpoint(w)
      PROVE  LiveInv'
  <2> DEFINE q == [p EXCEPT !.pc = "save", !.file = ckpt]
  <2>1. ckpt' = ckpt /\ p.pc = "load" /\ (Goes(w, Continue(p)) \/ Goes(w, q))
    BY <1>3 DEF LoadCheckpoint
  <2>2. q.file = ckpt /\ q.item = p.item /\ q.new = p.new
    BY <1>0 DEF Proc
  <2>3. InHand(q) => InHand(p) /\ q.item = p.item
    BY <2>1, <2>2 DEF InHand
  <2> HIDE DEF q
  <2> QED BY <1>0, <1>1, <2>1, <2>2, <2>3, LiveAlone
<1>4. ASSUME SaveCheckpoint(w)
      PROVE  LiveInv'
  <2> DEFINE q == [p EXCEPT !.file = NoCheckpoint]
  <2>1. q \in Proc /\ q.next = p.next /\ q.item = p.item /\ q.new = p.new /\ q.file = NoCheckpoint
    BY <1>0, NoCheckpointType DEF Proc
  <2>2. p.pc = "save" /\ Goes(w, Continue(q))
    BY <1>4 DEF SaveCheckpoint
  <2> HIDE DEF q
  <2>3. /\ Continue(q).file \in {p.file, NoCheckpoint}
        /\ InHand(Continue(q)) => InHand(p) /\ Continue(q).item = p.item
    BY <1>1, <2>1, <2>2
  <2>4. ASSUME NEW i \in Item, ckpt'.item[i].status = "done"
        PROVE  LiveAfter(i)
    <3>1. p.file \in Checkpoint /\ p.item \in Item \cup {NoItem} /\ p.new \in ItemState
      BY <1>0 DEF Proc
    <3>2. \A other \in Item : p.file.item[other].status = "done" => LiveAfter(other)
      BY DEF LiveInv
    <3>3. CASE p.item = NoItem
      <4>1. ckpt'.item = p.file.item
        BY <1>4, <3>1, <3>3 DEF SaveCheckpoint, Checkpoint
      <4> QED BY <2>4, <3>2, <4>1
    <3>4. CASE p.item # NoItem /\ i # p.item
      <4>1. ckpt' = Updated(p.file, p.item, p.new)
        BY <1>4, <3>4 DEF SaveCheckpoint
      <4>2. ckpt'.item[i] = p.file.item[i]
        BY <3>1, <3>4, <4>1 DEF Updated, Checkpoint
      <4> QED BY <2>4, <3>2, <4>2
    <3>5. CASE p.item # NoItem /\ i = p.item
      <4>1. ckpt' = Updated(p.file, p.item, p.new)
        BY <1>4, <3>5 DEF SaveCheckpoint
      <4>2. ckpt'.item[i].status = p.new.status
        BY <3>1, <3>5, <4>1 DEF Updated, Checkpoint, ItemState
      <4>3. InHand(p)
        BY <2>2, <2>4, <3>5, <4>2 DEF InHand
      <4> QED BY <3>5, <4>3 DEF LiveInv
    <3> QED BY <3>3, <3>4, <3>5
  <2> QED BY <2>2, <2>3, <2>4, LiveRun
<1>5. ASSUME CheckpointFails(w)
      PROVE  LiveInv'
  <2> DEFINE q == [p EXCEPT !.file = NoCheckpoint, !.saving = FALSE]
  <2>1. q \in Proc /\ q.next = p.next /\ q.item = p.item /\ q.new = p.new /\ q.file = NoCheckpoint
    BY <1>0, NoCheckpointType DEF Proc
  <2>2. p.pc = "save" /\ Goes(w, Continue(q)) /\ ckpt' = ckpt
    BY <1>5 DEF CheckpointFails
  <2> HIDE DEF q
  <2> QED BY <1>1, <2>1, <2>2, LiveAlone
<1> QED BY <1>2, <1>3, <1>4, <1>5

LEMMA LiveOutside ==
  ASSUME RunTypeOK, LiveInv, \A i \in Item : Live(i) => LiveAfter(i),
         UNCHANGED allVars \/ Environment \/ \E died \in Pid : Dies(died)
  PROVE  LiveInv'
<1>1. ckpt' = ckpt /\ \A w \in Run : proc'[w] \in {proc[w], Off(noExit)}
  BY DEF allVars, runVars, Environment, Dies, RunTypeOK
<1>2. \A w \in Run, i \in Item : proc'[w].file.item[i].status = "done" => LiveAfter(i)
  <2>1. \A i \in Item : Off(noExit).file.item[i].status = "pending"
    BY DEF Off, NoCheckpoint, Pending
  <2> QED BY <1>1, <2>1 DEF LiveInv
<1>3. \A w \in Run : InHand(proc'[w]) => LiveAfter(proc'[w].item)
  BY <1>1, OffHand DEF LiveInv, InHand
<1> QED BY <1>1, <1>2, <1>3 DEF LiveInv, Live, LiveAfter, InHand

LEMMA LiveInit == RunInit => LiveInv
<1> SUFFICES ASSUME RunInit PROVE LiveInv
  OBVIOUS
<1>1. /\ \A i \in Item : NoCheckpoint.item[i].status = "pending"
      /\ ckpt = NoCheckpoint /\ \A w \in Run : proc[w] = Off(noExit)
  BY DEF RunInit, NoCheckpoint, Pending
<1> QED BY <1>1, OffHand DEF LiveInv

LEMMA LiveNext ==
  TypeOK /\ FlightInv /\ DoneIsLive /\ RunTypeOK /\ LiveInv /\ [RunNext]_allVars => LiveInv'
<1> SUFFICES ASSUME TypeOK, FlightInv, DoneIsLive, RunTypeOK, LiveInv, [RunNext]_allVars
             PROVE  LiveInv'
  OBVIOUS
<1>1. \A i \in Item : Live(i) => LiveAfter(i)
  BY NextRefines, LiveKept
<1>2. CASE (\E created \in BOOLEAN : StartFresh(created)) \/ EndFresh
  BY <1>1, <1>2, LiveStarts
<1>3. CASE \E w \in Run : StartResume(w) \/ PostLands(w)
  BY <1>1, <1>3, LiveStarts, LiveCalls
<1>4. ASSUME NEW w \in Run, Progress(w)
      PROVE  LiveInv'
  BY <1>1, <1>4, LiveStarts, LivePrepares, LiveGates, LiveCalls, LiveWrites DEF Progress
<1>5. CASE UNCHANGED allVars \/ Environment \/ \E p \in Pid : Dies(p)
  BY <1>1, <1>5, LiveOutside
<1> QED BY <1>2, <1>3, <1>4, <1>5 DEF RunNext

\* An item that the checkpoint calls done is live, for any number of runs,
\* items and keys, whichever run published it and however late its checkpoint
\* was written: by a publish, by a skip of a row that another run settled, or over
\* a file that was read before other runs wrote theirs.
THEOREM CheckpointTruthful == RunSpec => []DoneItemIsLive
<1>1. RunInit => Init
  BY DEF RunInit
<1>2. LiveInv => DoneItemIsLive
  BY DEF LiveInv, Live, DoneItemIsLive
<1>3. RunSpec => [](TypeOK /\ FlightInv /\ DoneIsLive)
  BY RunsImplementDedup, TypeCorrect, FlightCorrect, DoneMeansLive, PTL
<1>4. RunSpec => []LiveInv
  BY <1>3, RunTypeCorrect, LiveInit, LiveNext, PTL DEF RunSpec
<1> QED BY <1>2, <1>4, PTL

=============================================================================
