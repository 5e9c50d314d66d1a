-------------------------- MODULE PublishResumeProofs --------------------------
(***************************************************************************)
(* Proofs about the checkpoint of PublishRun: the exit code 0 of a resume  *)
(* leaves it complete, a complete one has nothing left to resume, and an   *)
(* item that is done stays done.                                           *)
(*                                                                         *)
(* They are about programs that decide on what they read, and write later. *)
(* What makes them true is that the leases keep the runs apart, so that    *)
(* the file a run writes over is the one it has read, and that the fresh   *)
(* run writes over rows only that were pending.                            *)
(***************************************************************************)
EXTENDS PublishRunProofs

-----------------------------------------------------------------------------
(***************************************************************************)
(* The moves a run makes in its program, from p to q: what the two         *)
(* invariants below have to know of its actions.                           *)
(***************************************************************************)

Keeps(p, q) == q.todo = p.todo /\ q.snap = p.snap /\ q.code = p.code /\ q.saving = p.saving

\* The next step of a program, without its end.
Onward(p, q) ==
  \/ p.next = <<"row">> /\ q.pc = "row" /\ q.next = <<>>
  \/ p.next = <<"scan">> /\ q.pc = "scan" /\ q.next = <<>>
  \/ /\ p.next = <<"load", "row">> /\ q.pc = "load" /\ q.next = <<"row">>
     /\ q.item = p.item /\ q.new = p.new
  \/ /\ p.next = <<"load", "exit">> /\ q.pc = "load" /\ q.next = <<"exit">>
     /\ q.item = p.item /\ q.new = p.new
  \/ /\ p.next = <<"settle", "row">> /\ q.pc = "settle" /\ q.next = <<"row">>
     /\ q.item = p.item /\ q.new = p.new

\* It goes on with its next step.
GoesOn(p, q) == (p.next = <<"exit">> /\ q = Off(p.code)) \/ (Onward(p, q) /\ Keeps(p, q))

\* A run ends, and not with the exit code of a resume that completes.
Quits(w, q) == \E code \in ExitCode : q = Off(code) /\ (w # Fresh => code # 0)

Enters(w, p, q) ==
  p.pc = "lease" /\ LeasesFree(w) /\ q.pc = "scan" /\ q.next = <<>> /\ q.snap = p.snap

Skims(p, q) == p.pc = "scan" /\ q.pc = "scan" /\ q.next = <<>> /\ q.snap = p.snap

Outdates(p, q) ==
  /\ p.pc = "scan" /\ q.pc = "load" /\ q.next = <<"scan">>
  /\ q.item \in Item \cap Outdated /\ q.new = FailedAs("retro")
  /\ \A i \in Item : i # q.item => q.snap[i] = p.snap[i]
  /\ q.snap[q.item] = FailedAs("retro")

\* It marks the checkpoint complete.
Finishes(w, p, q) ==
  /\ q.pc = "load" /\ q.next = <<"exit">> /\ q.item = NoItem /\ q.code \in {0, 5}
  /\ \/ p.pc = "scan" /\ \A i \in Item : ~Resumable(p.snap[i])
     \/ w # Fresh /\ p.pc = "row" /\ \A i \in Item : ~Resumable(ckpt.item[i])

Selects(p, q) ==
  p.pc = "scan" /\ q.pc = "row" /\ q.next = <<>> /\ \E i \in Item : Resumable(p.snap[i])

Passes(p, q) == p.pc = "row" /\ q.pc = "row" /\ q.next = <<>> /\ q.todo \subseteq p.todo

\* What stays in contract after a dispatch was free to be dispatched.
Dispatchable(k) == InContract(k)' => row[k].state \in {"absent", "failed"}

Calls(p, q) ==
  /\ p.pc = "row" /\ q.pc = "call" /\ q.next = <<>>
  /\ q.item \in p.todo /\ q.todo = p.todo \ {q.item}
  /\ Dispatchable(KeyOf[q.item])

Skips(w, p, q) ==
  /\ w # Fresh /\ p.pc = "row" /\ q.pc = "load" /\ q.next = <<"row">>
  /\ q.item \in Item /\ q.new = DoneAs(TRUE)

Answers(p, q) ==
  /\ p.pc = "call" /\ q.item = p.item /\ q.todo = p.todo
  /\ \/ q.pc = "settle" /\ q.next = <<"load", "row">> /\ q.code = p.code
     \/ q.pc = "load" /\ q.next = <<"settle", "row">> /\ q.code = p.code
     \/ q.pc = "settle" /\ q.next \in {<<"exit">>, <<"load", "exit">>} /\ q.code = 3

Settles(p, q) == p.pc = "settle" /\ GoesOn(p, q)

Reads(p, q) ==
  /\ p.pc = "load" /\ p.saving /\ q.pc = "save" /\ q.file = ckpt
  /\ q.next = p.next /\ q.item = p.item /\ q.new = p.new
  /\ q.todo = p.todo /\ q.snap = p.snap

\* It goes on without a checkpoint, or without it from now on.
Forgoes(w, p, q) ==
  \/ p.pc = "load" /\ ~p.saving /\ GoesOn(p, q)
  \/ /\ p.pc = "save" /\ (w = Fresh \/ p.code = 3)
     /\ GoesOn([p EXCEPT !.saving = FALSE], q)

Writes(p, q) ==
  /\ p.pc = "save" /\ GoesOn(p, q)
  /\ ckpt' = IF p.item = NoItem THEN [p.file EXCEPT !.status = "complete"]
             ELSE Updated(p.file, p.item, p.new)

Moves(w, p, q) ==
  \/ Writes(p, q)
  \/ /\ ckpt' = ckpt
     /\ \/ q = p \/ Quits(w, q) \/ Settles(p, q) \/ Forgoes(w, p, q)
        \/ q.saving = p.saving /\ (Finishes(w, p, q) \/ Answers(p, q))
        \/ /\ q.saving = p.saving /\ q.code = p.code
           /\ \/ Enters(w, p, q) \/ Skims(p, q) \/ Outdates(p, q) \/ Selects(p, q)
              \/ Passes(p, q) \/ Calls(p, q) \/ Skips(w, p, q) \/ Reads(p, q)


\* What Continue makes of a program.
LEMMA ContinueGoes ==
  ASSUME NEW p \in Proc,
         p.next \in {<<"row">>, <<"scan">>, <<"exit">>, <<"load", "row">>,
                     <<"load", "exit">>, <<"settle", "row">>}
  PROVE  Continue(p) \in Proc /\ GoesOn(p, Continue(p))
<1> DEFINE q == [p EXCEPT !.pc = Head(p.next), !.next = Tail(p.next)]
<1>1. CASE p.next = <<"exit">>
  <2>1. Continue(p) = Off(p.code)
    BY <1>1, Heads DEF Continue
  <2> QED BY <1>1, <2>1, OffType DEF GoesOn, Proc
<1>2. CASE p.next \in {<<"row">>, <<"scan">>}
  <2>1. Head(p.next) \in {"row", "scan"} /\ p.next = <<Head(p.next)>> /\ Tail(p.next) = <<>>
    BY <1>2, Heads, Zenon
  <2>2. Continue(p) = [q EXCEPT !.item = NoItem, !.new = Pending, !.file = NoCheckpoint]
    BY <2>1 DEF Continue
  <2>3. /\ Continue(p).pc = Head(p.next) /\ Continue(p).next = <<>>
        /\ Keeps(p, Continue(p))
    BY <2>1, <2>2 DEF Proc, Keeps
  <2>4. Continue(p) \in Proc
    BY <1>2, ContinueLoop
  <2>5. CASE p.next = <<"row">>
    BY <2>3, <2>4, <2>5, Heads DEF GoesOn, Onward
  <2>6. CASE p.next = <<"scan">>
    BY <2>3, <2>4, <2>6, Heads DEF GoesOn, Onward
  <2> QED BY <1>2, <2>5, <2>6
<1>3. CASE p.next \in {<<"load", "row">>, <<"load", "exit">>, <<"settle", "row">>}
  <2>1. /\ Head(p.next) \in {"load", "settle"} /\ Head(p.next) \in PC
        /\ Tail(p.next) \in {<<"row">>, <<"exit">>} /\ Tail(p.next) \in Steps
    <3>1. /\ Head(p.next) \in {"load", "settle"}
          /\ Tail(p.next) \in {<<"row">>, <<"exit">>}
      <4>1. CASE p.next = <<"load", "row">>
        BY <4>1, Heads
      <4>2. CASE p.next = <<"load", "exit">>
        BY <4>2, Heads
      <4>3. CASE p.next = <<"settle", "row">>
        BY <4>3, Heads
      <4> QED BY <1>3, <4>1, <4>2, <4>3
    <3> QED BY <3>1 DEF PC, Steps
  <2>2. Continue(p) = q
    BY <2>1 DEF Continue
  <2>3. /\ q \in Proc /\ q.pc = Head(p.next) /\ q.next = Tail(p.next)
        /\ q.item = p.item /\ q.new = p.new /\ Keeps(p, q)
    BY <2>1 DEF Proc, Keeps
  <2> HIDE DEF q
  <2>4. CASE p.next = <<"load", "row">>
    BY <2>2, <2>3, <2>4, Heads DEF GoesOn, Onward
  <2>5. CASE p.next = <<"load", "exit">>
    BY <2>2, <2>3, <2>5, Heads DEF GoesOn, Onward
  <2>6. CASE p.next = <<"settle", "row">>
    BY <2>2, <2>3, <2>6, Heads DEF GoesOn, Onward
  <2> QED BY <1>3, <2>4, <2>5, <2>6
<1> QED BY <1>1, <1>2, <1>3

\* It does not look at the file that was read.
LEMMA GoesOnSame ==
  ASSUME NEW p \in Proc, NEW file \in Checkpoint, NEW q, GoesOn([p EXCEPT !.file = file], q)
  PROVE  GoesOn(p, q)
<1> DEFINE r == [p EXCEPT !.file = file]
<1>1. r.next = p.next /\ r.code = p.code /\ r.item = p.item /\ r.new = p.new
  BY DEF Proc
<1>2. r.todo = p.todo /\ r.snap = p.snap /\ r.saving = p.saving
  BY DEF Proc
<1>3. GoesOn(r, q)
  OBVIOUS
<1> HIDE DEF r
<1> QED BY <1>1, <1>2, <1>3 DEF GoesOn, Onward, Keeps

LEMMA MovesInWrites ==
  ASSUME RunTypeOK, NEW w \in Run,
         Settle(w) \/ LoadCheckpoint(w) \/ SaveCheckpoint(w) \/ CheckpointFails(w)
  PROVE  \E q \in Proc : Goes(w, q) /\ Moves(w, proc[w], q)
<1> DEFINE p == proc[w]
<1>0. /\ p \in Proc
      /\ p.pc \in {"load", "save", "settle"} =>
           p.next \in {<<"row">>, <<"scan">>, <<"exit">>, <<"load", "row">>,
                       <<"load", "exit">>, <<"settle", "row">>}
  BY DEF RunTypeOK, PlaceOK
<1>1. ASSUME Settle(w)
      PROVE  \E q \in Proc : Goes(w, q) /\ Moves(w, p, q)
  <2>1. p.pc = "settle" /\ ckpt' = ckpt /\ (Goes(w, Continue(p)) \/ Goes(w, p))
    BY <1>1 DEF Settle, Goes, RunTypeOK
  <2>2. Continue(p) \in Proc /\ Settles(p, Continue(p))
    BY <1>0, <2>1, ContinueGoes DEF Settles
  <2> HIDE DEF p
  <2> QED BY <1>0, <2>1, <2>2 DEF Moves
<1>2. ASSUME LoadCheckpoint(w)
      PROVE  \E q \in Proc : Goes(w, q) /\ Moves(w, p, q)
  <2> DEFINE q == [p EXCEPT !.pc = "save", !.file = ckpt]
  <2>1. p.pc = "load" /\ ckpt' = ckpt /\ Goes(w, IF p.saving THEN q ELSE Continue(p))
    BY <1>2 DEF LoadCheckpoint
  <2>2. ckpt \in Checkpoint
    BY DEF RunTypeOK
  <2>3. CASE p.saving
    <3>1. q \in Proc /\ q.pc = "save" /\ q.file = ckpt
      BY <1>0, <2>2 DEF Proc, PC
    <3>2. /\ q.next = p.next /\ q.item = p.item /\ q.new = p.new /\ q.todo = p.todo
          /\ q.snap = p.snap /\ q.code = p.code /\ q.saving = p.saving
      BY <1>0 DEF Proc
    <3>3. Goes(w, q)
      BY <2>1, <2>3
    <3> HIDE DEF q
    <3>4. Moves(w, p, q)
      BY <2>1, <2>3, <3>1, <3>2 DEF Moves, Reads
    <3> QED BY <3>1, <3>3, <3>4
  <2>4. CASE ~p.saving
    <3>1. Continue(p) \in Proc /\ Forgoes(w, p, Continue(p))
      BY <1>0, <2>1, <2>4, ContinueGoes DEF Forgoes
    <3>2. Goes(w, Continue(p))
      BY <2>1, <2>4
    <3> HIDE DEF p
    <3> QED BY <2>1, <3>1, <3>2 DEF Moves
  <2> QED BY <2>3, <2>4
<1>3. ASSUME SaveCheckpoint(w)
      PROVE  \E q \in Proc : Goes(w, q) /\ Moves(w, p, q)
  <2> DEFINE r == [p EXCEPT !.file = NoCheckpoint]
  <2>1. r \in Proc /\ r.next = p.next
    BY <1>0, NoCheckpointType DEF Proc
  <2>2. p.pc = "save" /\ Goes(w, Continue(r))
    BY <1>3 DEF SaveCheckpoint
  <2>3. ckpt' = IF p.item = NoItem THEN [p.file EXCEPT !.status = "complete"]
                ELSE Updated(p.file, p.item, p.new)
    BY <1>3 DEF SaveCheckpoint
  <2>4. Continue(r) \in Proc /\ GoesOn(r, Continue(r))
    <3> HIDE DEF r
    <3> QED BY <1>0, <2>1, <2>2, ContinueGoes
  <2>5. GoesOn(p, Continue(r))
    BY <1>0, <2>4, GoesOnSame, NoCheckpointType
  <2>6. Moves(w, p, Continue(r))
    <3> HIDE DEF r
    <3> QED BY <2>2, <2>3, <2>5 DEF Moves, Writes
  <2> HIDE DEF r
  <2> QED BY <2>2, <2>4, <2>6
<1>4. ASSUME CheckpointFails(w)
      PROVE  \E q \in Proc : Goes(w, q) /\ Moves(w, p, q)
  <2> DEFINE t == [p EXCEPT !.saving = FALSE]
             r == [t EXCEPT !.file = NoCheckpoint]
  <2>1. t \in Proc /\ r \in Proc /\ r.next = p.next
    BY <1>0, NoCheckpointType DEF Proc
  <2>2. r = [p EXCEPT !.file = NoCheckpoint, !.saving = FALSE]
    BY <1>0 DEF Proc
  <2>3. p.pc = "save" /\ (w = Fresh \/ p.code = 3) /\ ckpt' = ckpt /\ Goes(w, Continue(r))
    BY <1>4, <2>2 DEF CheckpointFails
  <2>4. Continue(r) \in Proc /\ GoesOn(r, Continue(r))
    <3> HIDE DEF r
    <3> QED BY <1>0, <2>1, <2>3, ContinueGoes
  <2>5. GoesOn(t, Continue(r))
    <3>1. ASSUME NEW q, GoesOn(r, q) PROVE GoesOn(t, q)
      <4> HIDE DEF t
      <4> QED BY <2>1, <3>1, GoesOnSame, NoCheckpointType
    <3> QED BY <2>4, <3>1
  <2>6. Moves(w, p, Continue(r))
    <3> HIDE DEF r
    <3> QED BY <2>3, <2>5 DEF Moves, Forgoes
  <2> HIDE DEF r
  <2> QED BY <2>3, <2>4, <2>6
<1> QED BY <1>1, <1>2, <1>3, <1>4

\* A run of exit code c that is not 0 quits.
LEMMA Quitting ==
  ASSUME NEW w \in Run, NEW p, NEW code \in ExitCode \ {0}, ckpt' = ckpt, Goes(w, Off(code))
  PROVE  \E q \in Proc : Goes(w, q) /\ Moves(w, p, q)
<1>1. Quits(w, Off(code))
  BY DEF Quits
<1> QED BY <1>1, OffType DEF Moves

\* mark_complete.
LEMMA CompletingMoves ==
  ASSUME NEW w \in Run, NEW p \in Proc, NEW code \in {0, 5},
         ckpt' = ckpt, Goes(w, Completing(p, code)),
         \/ p.pc = "scan" /\ \A i \in Item : ~Resumable(p.snap[i])
         \/ w # Fresh /\ p.pc = "row" /\ \A i \in Item : ~Resumable(ckpt.item[i])
  PROVE  \E q \in Proc : Goes(w, q) /\ Moves(w, p, q)
<1> DEFINE t == Then(p, <<"load", "exit">>, Pending)
           q == Completing(p, code)
<1>1. t \in Proc /\ t.pc = "load" /\ t.next = <<"exit">>
  <2>1. IsAt(t, p, Pending, "load", <<"exit">>)
    BY ThenAt, ItemStates
  <2> QED BY <2>1 DEF IsAt
<1>2. t.saving = p.saving
  BY DEF Then, Proc
<1>3. q = [t EXCEPT !.item = NoItem, !.code = code]
  BY DEF Completing
<1> HIDE DEF t
<1>4. q.pc = "load" /\ q.next = <<"exit">> /\ q.item = NoItem /\ q.code = code /\ q.saving = p.saving
  BY <1>1, <1>2, <1>3 DEF Proc
<1>5. q \in Proc
  BY CompletingOK DEF ExitCode
<1> HIDE DEF q
<1>6. Finishes(w, p, q)
  BY <1>4 DEF Finishes
<1>7. Goes(w, q)
  BY DEF q
<1> QED BY <1>4, <1>5, <1>6, <1>7 DEF Moves

LEMMA MovesInLoops ==
  ASSUME RunTypeOK, NEW w \in Run,
         \/ TakeLeases(w) \/ Refused(w) \/ Select(w) \/ EndResume(w)
         \/ \E outdated \in BOOLEAN : Revalidate(w, outdated)
  PROVE  \E q \in Proc : Goes(w, q) /\ Moves(w, proc[w], q)
<1> DEFINE p == proc[w]
<1>0. p \in Proc /\ (p.pc \in {"lease", "scan", "row"} => p.next = <<>>)
  BY DEF RunTypeOK, PlaceOK
<1>1. ASSUME TakeLeases(w)
      PROVE  \E q \in Proc : Goes(w, q) /\ Moves(w, p, q)
  <2> DEFINE todo == {i \in Item : Unfinished(p.snap[i]) /\ p.snap[i].class # "retro"}
             q == [p EXCEPT !.pc = "scan", !.todo = todo]
  <2>1. todo \subseteq Item
    OBVIOUS
  <2>2. Goes(w, q) /\ ckpt' = ckpt /\ p.pc = "lease" /\ LeasesFree(w)
    BY <1>1 DEF TakeLeases
  <2> HIDE DEF todo
  <2>3. /\ q \in Proc /\ q.pc = "scan" /\ q.next = <<>> /\ q.snap = p.snap
        /\ q.saving = p.saving /\ q.code = p.code
    BY <1>0, <2>1, <2>2 DEF Proc, PC
  <2> HIDE DEF q
  <2>4. Moves(w, p, q)
    BY <2>2, <2>3 DEF Moves, Enters
  <2> QED BY <2>2, <2>3, <2>4
<1>2. ASSUME Refused(w)
      PROVE  \E q \in Proc : Goes(w, q) /\ Moves(w, p, q)
  BY <1>2, Quitting DEF Refused, ExitCode
<1>3. ASSUME Select(w)
      PROVE  \E q \in Proc : Goes(w, q) /\ Moves(w, p, q)
  <2> DEFINE todo == {i \in Item : Resumable(p.snap[i])}
             q == [p EXCEPT !.pc = "row", !.todo = todo, !.snap = NoCheckpoint.item]
  <2>1. todo \subseteq Item
    OBVIOUS
  <2>2. p.pc = "scan" /\ ckpt' = ckpt /\ Goes(w, IF todo = {} THEN Completing(p, 0) ELSE q)
    BY <1>3 DEF Select
  <2>3. CASE todo = {}
    BY <1>0, <2>2, <2>3, CompletingMoves
  <2>4. CASE todo # {}
    <3>1. \E i \in Item : Resumable(p.snap[i])
      BY <2>4
    <3> HIDE DEF todo
    <3>2. /\ q \in Proc /\ q.pc = "row" /\ q.next = <<>>
          /\ q.saving = p.saving /\ q.code = p.code
      BY <1>0, <2>1, <2>2, NoCheckpointType DEF Proc, PC
    <3>3. Goes(w, q)
      BY <2>2, <2>4
    <3> HIDE DEF q
    <3>4. Moves(w, p, q)
      BY <2>2, <3>1, <3>2 DEF Moves, Selects
    <3> QED BY <3>2, <3>3, <3>4
  <2> QED BY <2>3, <2>4
<1>4. ASSUME EndResume(w)
      PROVE  \E q \in Proc : Goes(w, q) /\ Moves(w, p, q)
  <2> DEFINE code == IF "unverified" \in p.seen THEN 5 ELSE 0
  <2>1. /\ w # Fresh /\ p.pc = "row" /\ ckpt' = ckpt /\ code \in {0, 5}
        /\ Goes(w, IF Finished(ckpt.item) THEN Completing(p, code) ELSE Off(4))
    BY <1>4 DEF EndResume, RowsDone
  <2> HIDE DEF code
  <2>2. CASE Finished(ckpt.item)
    <3>1. \A i \in Item : ~Resumable(ckpt.item[i])
      BY <2>2 DEF Finished, Resumable
    <3> QED BY <1>0, <2>1, <2>2, <3>1, CompletingMoves
  <2>3. CASE ~Finished(ckpt.item)
    BY <2>1, <2>3, Quitting DEF ExitCode
  <2> QED BY <2>2, <2>3
<1>5. ASSUME NEW outdated \in BOOLEAN, Revalidate(w, outdated)
      PROVE  \E q \in Proc : Goes(w, q) /\ Moves(w, p, q)
  <2> DEFINE i == First(p.todo)
             r == [p EXCEPT !.todo = @ \ {i}]
             t == Then(r, <<"load", "scan">>, FailedAs("retro"))
             q == [t EXCEPT !.item = i, !.snap[i] = FailedAs("retro")]
  <2>1. p.pc = "scan" /\ ckpt' = ckpt /\ p.todo # {} /\ Goes(w, IF outdated THEN q ELSE r)
    BY <1>5 DEF Revalidate
  <2>2. i \in Item /\ (outdated => i \in Outdated)
    <3>1. i \in Item
      BY <1>0, <2>1, FirstIn, ItemAssumption DEF Proc
    <3> QED BY <1>5, <3>1 DEF Revalidate
  <2>3. /\ r \in Proc /\ r.pc = "scan" /\ r.next = <<>> /\ r.snap = p.snap
        /\ r.saving = p.saving /\ r.code = p.code
    BY <1>0, <2>1 DEF Proc
  <2> HIDE DEF r
  <2>4. FailedAs("retro") \in ItemState
    BY ItemStates DEF ItemClass
  <2>5. CASE ~outdated
    <3>1. Goes(w, r)
      BY <2>1, <2>5
    <3>2. Moves(w, p, r)
      BY <2>1, <2>3 DEF Moves, Skims
    <3> QED BY <2>3, <3>1, <3>2
  <2>6. CASE outdated
    <3>1. t \in Proc /\ t.pc = "load" /\ t.next = <<"scan">> /\ t.new = FailedAs("retro")
      <4>1. IsAt(t, r, FailedAs("retro"), "load", <<"scan">>)
        BY <2>3, <2>4, ThenAt
      <4> QED BY <4>1 DEF IsAt
    <3>2. t.snap = p.snap /\ t.saving = p.saving /\ t.code = p.code
      BY <2>3 DEF Then, Proc
    <3> HIDE DEF t, i
    <3>3. /\ q \in Proc /\ q.pc = "load" /\ q.next = <<"scan">> /\ q.new = FailedAs("retro")
          /\ q.item = i /\ q.snap = [t.snap EXCEPT ![i] = FailedAs("retro")]
          /\ q.saving = p.saving /\ q.code = p.code
      BY <2>2, <2>4, <3>1, <3>2 DEF Proc
    <3>4. Goes(w, q)
      BY <2>1, <2>6
    <3>5. t.snap \in [Item -> ItemState]
      BY <3>1 DEF Proc
    <3> HIDE DEF q
    <3>6. Outdates(p, q)
      BY <2>1, <2>2, <2>6, <3>2, <3>3, <3>5 DEF Outdates
    <3>7. Moves(w, p, q)
      BY <2>1, <3>3, <3>6 DEF Moves
    <3> QED BY <3>3, <3>4, <3>7
  <2> QED BY <2>5, <2>6
<1> QED BY <1>1, <1>2, <1>3, <1>4, <1>5

\* What a verdict makes of a run at a row.
LEMMA VerdictMoves ==
  ASSUME RunTypeOK, NEW w \in Run, AtRow(w), ckpt' = ckpt,
         NEW verdict \in {"dispatch", "hold", "conflict", "skip"},
         verdict = "dispatch" => Dispatchable(KeyOf[ThisRow(w)]),
         Goes(w, AfterGate(w, verdict))
  PROVE  \E q \in Proc : Goes(w, q) /\ Moves(w, proc[w], q)
<1> DEFINE p == proc[w]
           q == AfterGate(w, verdict)
           i == ThisRow(w)
           after == Passing(w, {})
<1>1. p \in Proc /\ p.pc = "row" /\ p.next = <<>> /\ i \in Item /\ i \in p.todo
  <2>1. p \in Proc /\ p.pc = "row" /\ p.next = <<>> /\ p.todo \subseteq Item /\ p.todo # {}
    BY DEF RunTypeOK, AtRow, PlaceOK, Proc
  <2> QED BY <2>1, FirstIn, ItemAssumption DEF ThisRow
<1>2. \A what \in SUBSET {"ok", "unverified", "held", "failed"} :
        /\ Passing(w, what) \in Proc /\ Passing(w, what).pc = "row"
        /\ Passing(w, what).next = <<>> /\ Passing(w, what).todo = p.todo \ {i}
        /\ Passing(w, what).saving = p.saving /\ Passing(w, what).code = p.code
  <2> TAKE what \in SUBSET {"ok", "unverified", "held", "failed"}
  <2>1. /\ Noting(w, what) \in Proc /\ Noting(w, what).todo = p.todo
        /\ Noting(w, what).saving = p.saving /\ Noting(w, what).code = p.code
    BY <1>1 DEF Noting, Proc
  <2> HIDE DEF i
  <2>2. /\ Passing(w, what).todo = p.todo \ {i}
        /\ Passing(w, what).saving = p.saving /\ Passing(w, what).code = p.code
    BY <2>1 DEF Passing, Proc, i
  <2> QED BY <1>1, <2>2, PassingType
<1>3. after \in Proc /\ after.todo = p.todo \ {i} /\ after.saving = p.saving /\ after.code = p.code
  BY <1>2
<1>d. verdict = "dispatch" => Dispatchable(KeyOf[i])
  OBVIOUS
<1> HIDE DEF after, i
<1>4. q \in Proc
  BY AfterGateType
<1>5. CASE verdict = "dispatch"
  <2>1. q = [after EXCEPT !.pc = "call", !.item = i]
    BY <1>5 DEF AfterGate, after, i
  <2>2. q.pc = "call" /\ q.next = <<>>
    BY <1>5, AfterGateType
  <2>3. q.item = i /\ q.todo = p.todo \ {i} /\ q.saving = p.saving /\ q.code = p.code
    <3> HIDE DEF q
    <3> QED BY <1>3, <2>1 DEF Proc
  <2> HIDE DEF q
  <2>4. Moves(w, p, q)
    BY <1>1, <1>d, <1>5, <2>2, <2>3 DEF Moves, Calls
  <2> QED BY <1>4, <2>4 DEF q
<1>6. CASE verdict = "hold" \/ (verdict = "skip" /\ w = Fresh)
  <2>1. \E what \in SUBSET {"ok", "unverified", "held", "failed"} : q = Passing(w, what)
    <3>1. CASE verdict = "hold"
      <4>1. q = Passing(w, {"held"})
        BY <3>1 DEF AfterGate
      <4> QED BY <4>1
    <3>2. CASE verdict = "skip" /\ w = Fresh
      <4>1. q = Passing(w, {"ok"})
        BY <3>2 DEF AfterGate
      <4> QED BY <4>1
    <3> QED BY <1>6, <3>1, <3>2
  <2>2. /\ q.pc = "row" /\ q.next = <<>> /\ q.todo = p.todo \ {i}
        /\ q.saving = p.saving /\ q.code = p.code
    BY <1>2, <2>1 DEF i
  <2> HIDE DEF q
  <2>3. Moves(w, p, q)
    BY <1>1, <2>2 DEF Moves, Passes
  <2> QED BY <1>4, <2>3 DEF q
<1>7. CASE verdict = "conflict"
  <2>1. q = Off(1)
    BY <1>7 DEF AfterGate
  <2> QED BY <2>1, Quitting DEF ExitCode
<1>8. CASE verdict = "skip" /\ w # Fresh
  <2> DEFINE t == Then(after, <<"load", "row">>, DoneAs(TRUE))
  <2>1. q = [t EXCEPT !.item = i]
    BY <1>8 DEF AfterGate, after, i
  <2>2. IsAt(t, after, DoneAs(TRUE), "load", <<"row">>)
    BY <1>3, ThenAt, ItemStates
  <2>3. t.saving = p.saving /\ t.code = p.code
    BY <1>3 DEF Then, Proc
  <2> HIDE DEF t
  <2>4. /\ q.pc = "load" /\ q.next = <<"row">> /\ q.item = i /\ q.new = DoneAs(TRUE)
        /\ q.saving = p.saving /\ q.code = p.code
    <3> HIDE DEF q
    <3> QED BY <2>1, <2>2, <2>3 DEF IsAt, Proc
  <2> HIDE DEF q
  <2>5. Moves(w, p, q)
    BY <1>1, <1>8, <2>4 DEF Moves, Skips
  <2> QED BY <1>4, <2>5 DEF q
<1> QED BY <1>5, <1>6, <1>7, <1>8

\* A gate that dispatches what was not free takes the key out of contract.
LEMMA GateDispatches ==
  ASSUME TypeOK, NEW w \in Run, NEW k \in Key, NEW force \in BOOLEAN,
         \/ GateEnforce(w, k, force) /\ GateVerdict(row[k], force, up) = "dispatch"
         \/ GateObserve(w, k) \/ GateFault(w, k)
  PROVE  Dispatchable(k)
<1>1. CASE GateEnforce(w, k, force) /\ GateVerdict(row[k], force, up) = "dispatch"
  <2>1. ASSUME row[k].state \notin {"absent", "failed"}
        PROVE  Overriding(k, force)
    BY <1>1, <2>1 DEF Overriding, GateVerdict, TypeOK, Row, State
  <2>2. ASSUME Overriding(k, force)
        PROVE  overrides'[k] # 0
    BY <1>1, <2>2, BoundAssumption DEF GateEnforce, TypeOK
  <2> QED BY <2>1, <2>2 DEF Dispatchable, InContract
<1>2. CASE GateObserve(w, k)
  BY <1>2 DEF GateObserve, IntentWon, Dispatchable, InContract, TypeOK
<1>3. CASE GateFault(w, k)
  <2>1. w \in Observing
    BY <1>3 DEF GateFault, GateFaultVerdict
  <2> QED BY <1>3, <2>1 DEF GateFault, Dispatchable, InContract, TypeOK
<1> QED BY <1>1, <1>2, <1>3

LEMMA MovesInGates ==
  ASSUME TypeOK, RunTypeOK, NEW w \in Run,
         \/ \E what \in {{}, {"failed"}} : PassOver(w, what)
         \/ Drift(w)
         \/ \E force \in BOOLEAN : PassGate(w, force)
         \/ GateHolds(w)
  PROVE  \E q \in Proc : Goes(w, q) /\ Moves(w, proc[w], q)
<1>1. ASSUME NEW what \in {{}, {"failed"}}, PassOver(w, what)
      PROVE  \E q \in Proc : Goes(w, q) /\ Moves(w, proc[w], q)
  <2> DEFINE p == proc[w]
             r == Noting(w, what)
             q == Passing(w, what)
  <2>1. Goes(w, q) /\ ckpt' = ckpt /\ AtRow(w)
    BY <1>1 DEF PassOver
  <2>2. p \in Proc /\ p.pc = "row" /\ p.next = <<>>
    BY <2>1 DEF RunTypeOK, AtRow, PlaceOK
  <2>3. what \in SUBSET {"ok", "unverified", "held", "failed"}
    OBVIOUS
  <2>4. q \in Proc /\ q.pc = "row" /\ q.next = <<>> /\ r \in Proc
    BY <2>2, <2>3, PassingType, NotingType
  <2>5. r.todo = p.todo /\ r.saving = p.saving /\ r.code = p.code
    BY <2>2, <2>3 DEF Noting, Proc
  <2>6. q.todo \subseteq r.todo /\ q.saving = r.saving /\ q.code = r.code
    BY <2>4 DEF Passing, Proc
  <2> HIDE DEF q, r
  <2>7. Moves(w, p, q)
    BY <2>1, <2>2, <2>4, <2>5, <2>6 DEF Moves, Passes
  <2> QED BY <2>1, <2>4, <2>7
<1>2. ASSUME Drift(w)
      PROVE  \E q \in Proc : Goes(w, q) /\ Moves(w, proc[w], q)
  BY <1>2, Quitting DEF Drift, ExitCode
<1>3. ASSUME GateHolds(w)
      PROVE  \E q \in Proc : Goes(w, q) /\ Moves(w, proc[w], q)
  BY <1>3, VerdictMoves DEF GateHolds
<1>4. ASSUME NEW force \in BOOLEAN, PassGate(w, force)
      PROVE  \E q \in Proc : Goes(w, q) /\ Moves(w, proc[w], q)
  <2> DEFINE k == KeyOf[ThisRow(w)]
             verdict == GateVerdict(row[k], force, up)
  <2>1. AtRow(w) /\ ckpt' = ckpt /\ k \in Key
    BY <1>4, RowIn DEF PassGate
  <2>2. CASE GateEnforce(w, k, force) /\ Goes(w, AfterGate(w, verdict))
    <3>1. verdict \in {"dispatch", "hold", "conflict", "skip"}
      BY <2>1, <2>2, GateEffect
    <3>2. verdict = "dispatch" => Dispatchable(k)
      BY <2>1, <2>2, GateDispatches
    <3> HIDE DEF verdict
    <3> QED BY <2>1, <2>2, <3>1, <3>2, VerdictMoves
  <2>3. CASE (GateObserve(w, k) \/ GateFault(w, k)) /\ Goes(w, AfterGate(w, "dispatch"))
    <3>1. Dispatchable(k)
      BY <2>1, <2>3, GateDispatches
    <3> QED BY <2>1, <2>3, <3>1, VerdictMoves
  <2> QED BY <1>4, <2>2, <2>3 DEF PassGate
<1> QED BY <1>1, <1>2, <1>3, <1>4

LEMMA MovesInCalls ==
  ASSUME RunTypeOK, NEW w \in Run,
         \/ PostLands(w)
         \/ \E verified \in Verdicts : Published(w, verified)
         \/ \E class \in {"error", "policy_skip"} : InBand(w, class)
         \/ \E error_class \in ErrorClass : Raised(w, error_class)
         \/ \E auth \in BOOLEAN : Aborts(w, auth)
         \/ Escapes(w)
  PROVE  \E q \in Proc : Goes(w, q) /\ Moves(w, proc[w], q)
<1> DEFINE p == proc[w]
<1>0. p \in Proc
  BY DEF RunTypeOK
<1>1. ASSUME PostLands(w)
      PROVE  \E q \in Proc : Goes(w, q) /\ Moves(w, p, q)
  <2>1. Goes(w, p) /\ ckpt' = ckpt
    BY <1>1 DEF PostLands, Goes, runVars, RunTypeOK
  <2> QED BY <1>0, <2>1 DEF Moves
\* A result or an error that is raised, after which the run goes on.
<1>2. ASSUME NEW what \in SUBSET {"ok", "unverified", "held", "failed"}, NEW new \in ItemState,
             NEW steps \in {<<"settle", "load", "row">>, <<"load", "settle", "row">>},
             p.pc = "call", ckpt' = ckpt, Goes(w, Then(Noting(w, what), steps, new))
      PROVE  \E q \in Proc : Goes(w, q) /\ Moves(w, p, q)
  <2> DEFINE r == Noting(w, what)
             q == Then(r, steps, new)
  <2>1. r \in Proc /\ r.item = p.item
    BY <1>0, NotingType
  <2>2. r.todo = p.todo /\ r.saving = p.saving /\ r.code = p.code
    BY <1>0 DEF Noting, Proc
  <2> HIDE DEF r
  <2>3. q.todo = r.todo /\ q.saving = r.saving /\ q.code = r.code
    BY <2>1 DEF Then, Proc
  <2>4. \/ IsAt(q, r, new, "settle", <<"load", "row">>)
        \/ IsAt(q, r, new, "load", <<"settle", "row">>)
    BY <1>2, <2>1, ThenAt
  <2>5. Goes(w, q)
    BY <1>2 DEF r
  <2> HIDE DEF q
  <2>6. Answers(p, q)
    BY <1>2, <2>1, <2>2, <2>3, <2>4 DEF Answers, IsAt
  <2> QED BY <1>2, <2>2, <2>3, <2>4, <2>5, <2>6 DEF Moves, IsAt
<1>3. ASSUME NEW verified \in Verdicts, Published(w, verified)
      PROVE  \E q \in Proc : Goes(w, q) /\ Moves(w, p, q)
  <2> DEFINE what == IF verified THEN {"ok"} ELSE {"ok", "unverified"}
  <2>1. /\ p.pc = "call" /\ ckpt' = ckpt
        /\ Goes(w, Then(Noting(w, what), <<"settle", "load", "row">>, DoneAs(verified)))
    BY <1>3 DEF Published
  <2>2. what \in SUBSET {"ok", "unverified", "held", "failed"} /\ DoneAs(verified) \in ItemState
    BY ItemStates, VerdictAssumption
  <2> HIDE DEF what
  <2> QED BY <1>2, <2>1, <2>2
<1>4. \A class \in ItemClass : FailedAs(class) \in ItemState
  BY ItemStates
<1>5. ASSUME NEW class \in {"error", "policy_skip"}, InBand(w, class)
      PROVE  \E q \in Proc : Goes(w, q) /\ Moves(w, p, q)
  <2>1. /\ p.pc = "call" /\ ckpt' = ckpt
        /\ Goes(w, Then(Noting(w, {"failed"}), <<"settle", "load", "row">>, FailedAs(class)))
    BY <1>5 DEF InBand, InBandRecord
  <2>2. FailedAs(class) \in ItemState
    BY <1>4 DEF ItemClass
  <2> QED BY <1>2, <2>1, <2>2
<1>6. ASSUME NEW error_class \in ErrorClass, Raised(w, error_class)
      PROVE  \E q \in Proc : Goes(w, q) /\ Moves(w, p, q)
  <2>1. /\ p.pc = "call" /\ ckpt' = ckpt
        /\ Goes(w, Then(Noting(w, {"failed"}), <<"load", "settle", "row">>, FailedAs("error")))
    BY <1>6 DEF Raised
  <2>2. FailedAs("error") \in ItemState
    BY <1>4 DEF ItemClass
  <2> QED BY <1>2, <2>1, <2>2
<1>7. ASSUME NEW auth \in BOOLEAN, Aborts(w, auth)
      PROVE  \E q \in Proc : Goes(w, q) /\ Moves(w, p, q)
  <2> DEFINE route == IF auth THEN <<"settle", "load", "exit">> ELSE <<"settle", "exit">>
             t == Then(p, route, FailedAs("error"))
             q == [t EXCEPT !.code = 3]
  <2>1. p.pc = "call" /\ ckpt' = ckpt /\ Goes(w, q)
    BY <1>7 DEF Aborts
  <2>2. /\ t \in Proc /\ t.pc = "settle" /\ t.next \in {<<"exit">>, <<"load", "exit">>}
        /\ t.item = p.item
    <3>1. FailedAs("error") \in ItemState
      BY <1>4 DEF ItemClass
    <3>2. CASE auth
      <4>1. IsAt(t, p, FailedAs("error"), "settle", <<"load", "exit">>)
        BY <1>0, <3>1, <3>2, ThenAt
      <4> QED BY <4>1 DEF IsAt
    <3>3. CASE ~auth
      <4>1. IsAt(t, p, FailedAs("error"), "settle", <<"exit">>)
        BY <1>0, <3>1, <3>3, ThenAt
      <4> QED BY <4>1 DEF IsAt
    <3> QED BY <3>2, <3>3
  <2>3. t.todo = p.todo /\ t.saving = p.saving
    BY <1>0 DEF Then, Proc
  <2> HIDE DEF t
  <2>4. /\ q \in Proc /\ q.pc = "settle" /\ q.next \in {<<"exit">>, <<"load", "exit">>}
        /\ q.item = p.item /\ q.todo = p.todo /\ q.saving = p.saving /\ q.code = 3
    BY <2>2, <2>3 DEF Proc, ExitCode
  <2> HIDE DEF q
  <2> QED BY <2>1, <2>4 DEF Moves, Answers
<1>8. ASSUME Escapes(w)
      PROVE  \E q \in Proc : Goes(w, q) /\ Moves(w, p, q)
  <2>1. Goes(w, Off(uncaught)) /\ ckpt' = ckpt /\ uncaught \in ExitCode \ {0}
    BY <1>8 DEF Escapes, ExitCode, uncaught
  <2> QED BY <2>1, Quitting
<1> QED BY <1>1, <1>3, <1>5, <1>6, <1>7, <1>8

LEMMA Moving ==
  ASSUME TypeOK, RunTypeOK, NEW w \in Run, Progress(w) \/ PostLands(w)
  PROVE  \E q \in Proc : Goes(w, q) /\ Moves(w, proc[w], q)
BY MovesInLoops, MovesInGates, MovesInCalls, MovesInWrites DEF Progress

-----------------------------------------------------------------------------
(***************************************************************************)
(* The exit code 0 of a resume.                                            *)
(***************************************************************************)

\* A run that has its leases.
Holds(p) == p.pc \notin {"off", "lease"}

\* A run leaves its loops with the code of an abort, or to mark its checkpoint
\* complete.
CodeOK(w, p) ==
  \/ p.code = noExit
  \/ p.code = 3 /\ p.next \in {<<"exit">>, <<"load", "exit">>}
  \/ /\ w # Fresh /\ p.code \in {0, 5}
     /\ p.pc \in {"load", "save"} /\ p.item = NoItem /\ p.next = <<"exit">>

\* A resume has its checkpoint as long as it goes on.  Only a resume waits for its
\* leases, and marks the checkpoint complete.
ProgramOK(w, p) ==
  /\ w # Fresh => p.saving
  /\ w = Fresh => p.pc \notin {"lease", "scan"} /\ p.next # <<"scan">>
  /\ p.pc \in {"call", "settle"} => p.item \in Item
  /\ p.pc \in {"load", "save"} =>
       p.item \in Item \/ (w # Fresh /\ p.next = <<"exit">> /\ p.item = NoItem)
  /\ CodeOK(w, p)

ExitInv ==
  /\ \A v, w \in Run : v # w /\ Holds(proc[w]) => ~Holds(proc[v])
  /\ \A w \in Run :
       /\ proc[w].pc # "off" => ProgramOK(w, proc[w])
       /\ proc[w].pc = "save" => proc[w].file = ckpt
       /\ w # Fresh /\ proc[w].pc = "off" /\ proc[w].code = 0 => ckpt.status = "complete"

\* A step of one run, which has its leases when it writes, or takes them.
LEMMA ExitRun ==
  ASSUME RunTypeOK, ExitInv, NEW w \in Run, NEW q, Goes(w, q),
         Holds(q) => Holds(proc[w]) \/ (\A v \in Run \ {w} : ~Holds(proc[v])),
         ckpt' # ckpt => \A v \in Run \ {w} : ~Holds(proc[v]),
         ckpt.status = "complete" => ckpt'.status = "complete",
         q.pc # "off" => ProgramOK(w, q),
         q.pc = "save" => q.file = ckpt',
         w # Fresh /\ q.pc = "off" /\ q.code = 0 => ckpt'.status = "complete"
  PROVE  ExitInv'
<1>1. proc'[w] = q /\ \A v \in Run \ {w} : proc'[v] = proc[v]
  BY DEF RunTypeOK, Goes
<1>2. ASSUME NEW u \in Run, NEW v \in Run, u # v, Holds(proc'[v])
      PROVE  ~Holds(proc'[u])
  BY <1>1, <1>2 DEF ExitInv
<1>3. ASSUME NEW v \in Run
      PROVE  /\ proc'[v].pc # "off" => ProgramOK(v, proc'[v])
             /\ proc'[v].pc = "save" => proc'[v].file = ckpt'
             /\ v # Fresh /\ proc'[v].pc = "off" /\ proc'[v].code = 0 => ckpt'.status = "complete"
  <2>1. CASE v = w
    BY <1>1, <2>1
  <2>2. CASE v # w
    <3>1. proc'[v] = proc[v]
      BY <1>1, <2>2
    <3>2. proc[v].pc = "save" => Holds(proc[v])
      BY DEF Holds
    <3> QED BY <2>2, <3>1, <3>2 DEF ExitInv
  <2> QED BY <2>1, <2>2
<1> QED BY <1>2, <1>3 DEF ExitInv, ProgramOK, CodeOK, Holds

\* What a run goes on with is as good as where it was.
LEMMA GoesOnProgram ==
  ASSUME NEW w \in Run, NEW p, NEW q, GoesOn(p, q), Holds(p), ProgramOK(w, p),
         p.pc = "settle" => p.next \in {<<"row">>, <<"exit">>, <<"load", "row">>, <<"load", "exit">>},
         p.pc \in {"load", "save"} => p.next \in {<<"row">>, <<"scan">>, <<"exit">>, <<"settle", "row">>},
         p.pc \in {"settle", "load", "save"}
  PROVE  /\ Holds(q) \/ q.pc = "off"
         /\ q.pc # "off" => ProgramOK(w, q)
         /\ q.pc # "save"
         /\ q.pc = "off" => p.next = <<"exit">> /\ q.code = p.code
<1>1. CASE p.next = <<"exit">> /\ q = Off(p.code)
  BY <1>1 DEF Off
<1>2. CASE Onward(p, q) /\ Keeps(p, q)
  <2>1. q.pc \in {"row", "scan", "load", "settle"}
    BY <1>2 DEF Onward
  <2>2. CASE p.next = <<"row">> \/ p.next = <<"scan">>
    <3>1. p.next # <<"exit">> /\ p.next # <<"load", "exit">>
      BY <2>2
    <3>2. p.code = noExit
      BY <3>1 DEF ProgramOK, CodeOK
    <3>3. q.pc \in {"row", "scan"} /\ q.next = <<>> /\ (q.pc = "scan" => p.next = <<"scan">>)
      BY <1>2, <2>2 DEF Onward
    <3> QED BY <1>2, <3>2, <3>3 DEF ProgramOK, CodeOK, Keeps, Holds
  <2>3. CASE p.next \in {<<"load", "row">>, <<"load", "exit">>}
    <3>1. q.pc = "load" /\ q.item = p.item /\ p.pc = "settle" /\ p.item \in Item
      BY <1>2, <2>3 DEF Onward, ProgramOK
    <3> QED BY <1>2, <2>3, <3>1 DEF Onward, ProgramOK, CodeOK, Keeps, Holds
  <2>4. CASE p.next = <<"settle", "row">>
    <3>1. q.pc = "settle" /\ q.next = <<"row">> /\ q.item = p.item /\ p.item \in Item
      BY <1>2, <2>4 DEF Onward, ProgramOK
    <3>2. p.code = noExit
      BY <2>4 DEF ProgramOK, CodeOK
    <3> QED BY <1>2, <3>1, <3>2 DEF ProgramOK, CodeOK, Keeps, Holds
  <2> QED BY <1>2, <2>2, <2>3, <2>4 DEF Onward
<1> QED BY <1>1, <1>2 DEF GoesOn

LEMMA ExitMove ==
  ASSUME ~Overlap, RunTypeOK, ExitInv,
         NEW w \in Run, NEW q \in Proc, Goes(w, q), Moves(w, proc[w], q)
  PROVE  ExitInv'
<1> DEFINE p == proc[w]
<1>0. /\ p \in Proc
      /\ p.pc = "settle" => p.next \in {<<"row">>, <<"exit">>, <<"load", "row">>, <<"load", "exit">>}
      /\ p.pc \in {"load", "save"} =>
           p.next \in {<<"row">>, <<"scan">>, <<"exit">>, <<"settle", "row">>}
      /\ p.pc \in {"lease", "scan", "row", "call"} => p.next = <<>>
  BY DEF RunTypeOK, PlaceOK
<1>1. /\ p.pc # "off" => ProgramOK(w, p)
      /\ p.pc = "save" => p.file = ckpt
      /\ w # Fresh /\ p.pc = "off" /\ p.code = 0 => ckpt.status = "complete"
      /\ Holds(p) => \A v \in Run \ {w} : ~Holds(proc[v])
  BY DEF ExitInv
\* A step that leaves the file, of a run that goes on, or ends otherwise.
<1>2. ASSUME ckpt' = ckpt, q.pc # "off" => ProgramOK(w, q), q.pc = "save" => q.file = ckpt,
             Holds(q) => Holds(p) \/ \A v \in Run \ {w} : ~Holds(proc[v]),
             w # Fresh /\ q.pc = "off" => q.code # 0
      PROVE  ExitInv'
  BY <1>2, ExitRun
<1>3. CASE q = p /\ ckpt' = ckpt
  <2> HIDE DEF p
  <2> QED BY <1>1, <1>3, ExitRun DEF p
<1>4. CASE Quits(w, q) /\ ckpt' = ckpt
  <2>1. q.pc = "off" /\ (w # Fresh => q.code # 0)
    BY <1>4 DEF Quits, Off
  <2> QED BY <1>2, <1>4, <2>1 DEF Holds
<1>5. CASE Settles(p, q) /\ ckpt' = ckpt
  <2>1. p.pc = "settle" /\ GoesOn(p, q) /\ Holds(p) /\ ProgramOK(w, p)
    BY <1>1, <1>5 DEF Settles, Holds
  <2> HIDE DEF p
  <2>2. /\ Holds(q) \/ q.pc = "off"
        /\ q.pc # "off" => ProgramOK(w, q)
        /\ q.pc # "save" /\ (q.pc = "off" => q.code = p.code)
    BY <1>0, <2>1, GoesOnProgram
  <2>3. w # Fresh => p.code # 0
    BY <2>1 DEF ProgramOK, CodeOK, noExit
  <2> QED BY <1>2, <1>5, <2>1, <2>2, <2>3
<1>6. CASE Forgoes(w, p, q) /\ ckpt' = ckpt
  <2>1. CASE p.pc = "load" /\ ~p.saving /\ GoesOn(p, q)
    <3>1. Holds(p) /\ ProgramOK(w, p)
      BY <1>1, <2>1 DEF Holds
    <3>2. w = Fresh
      BY <2>1, <3>1 DEF ProgramOK
    <3> HIDE DEF p
    <3>3. /\ Holds(q) \/ q.pc = "off"
          /\ q.pc # "off" => ProgramOK(w, q)
          /\ q.pc # "save"
      BY <1>0, <2>1, <3>1, GoesOnProgram
    <3> QED BY <1>2, <1>6, <3>1, <3>2, <3>3
  <2>2. CASE p.pc = "save" /\ (w = Fresh \/ p.code = 3) /\ GoesOn([p EXCEPT !.saving = FALSE], q)
    <3> DEFINE t == [p EXCEPT !.saving = FALSE]
    <3>1. Holds(p) /\ ProgramOK(w, p)
      BY <1>1, <2>2 DEF Holds
    <3>2. t.pc = "save" /\ t.next = p.next /\ t.item = p.item /\ t.code = p.code
      BY <1>0, <2>2 DEF Proc
    <3>3. GoesOn(t, q)
      BY <2>2
    <3> HIDE DEF t
    <3>4. CASE w = Fresh
      <4>1. Holds(t) /\ ProgramOK(w, t)
        BY <1>0, <2>2, <3>1, <3>2, <3>4 DEF Holds, ProgramOK, CodeOK
      <4> HIDE DEF p
      <4>2. /\ Holds(q) \/ q.pc = "off"
            /\ q.pc # "off" => ProgramOK(w, q)
            /\ q.pc # "save"
        BY <1>0, <2>2, <3>2, <3>3, <4>1, GoesOnProgram
      <4> QED BY <1>2, <1>6, <3>1, <3>4, <4>2
    <3>5. CASE w # Fresh /\ p.code = 3
      <4>1. p.next = <<"exit">>
        <5>1. p.next \in {<<"exit">>, <<"load", "exit">>}
          BY <3>1, <3>5 DEF ProgramOK, CodeOK, noExit
        <5> QED BY <1>0, <2>2, <5>1
      <4>2. q = Off(3)
        BY <3>2, <3>3, <3>5, <4>1 DEF GoesOn, Onward
      <4>3. q.pc = "off" /\ q.code = 3
        BY <4>2 DEF Off
      <4> QED BY <1>2, <1>6, <4>3 DEF Holds
    <3> QED BY <2>2, <3>4, <3>5
  <2> QED BY <1>6, <2>1, <2>2 DEF Forgoes
<1>7. CASE Finishes(w, p, q) /\ q.saving = p.saving /\ ckpt' = ckpt
  <2>1. Holds(p) /\ ProgramOK(w, p) /\ w # Fresh
    BY <1>1, <1>7 DEF Finishes, Holds, ProgramOK
  <2>2. q.pc = "load" /\ ProgramOK(w, q)
    BY <1>7, <2>1 DEF Finishes, ProgramOK, CodeOK
  <2> QED BY <1>2, <1>7, <2>1, <2>2
<1>8. CASE Answers(p, q) /\ q.saving = p.saving /\ ckpt' = ckpt
  <2>1. Holds(p) /\ ProgramOK(w, p) /\ p.pc = "call" /\ p.next = <<>>
    BY <1>0, <1>1, <1>8 DEF Answers, Holds
  <2>2. p.code = noExit /\ p.item \in Item
    BY <2>1 DEF ProgramOK, CodeOK
  <2>3. q.pc \in {"settle", "load"} /\ ProgramOK(w, q)
    BY <1>8, <2>1, <2>2 DEF Answers, ProgramOK, CodeOK
  <2> QED BY <1>2, <1>8, <2>1, <2>3
<1>9. CASE /\ q.saving = p.saving /\ q.code = p.code /\ ckpt' = ckpt
           /\ \/ Enters(w, p, q) \/ Skims(p, q) \/ Outdates(p, q) \/ Selects(p, q)
              \/ Passes(p, q) \/ Calls(p, q) \/ Skips(w, p, q)
  <2>1. p.pc \in {"lease", "scan", "row"} /\ ProgramOK(w, p) /\ p.next = <<>>
    BY <1>0, <1>1, <1>9 DEF Enters, Skims, Outdates, Selects, Passes, Calls, Skips
  <2>2. p.code = noExit
    BY <2>1 DEF ProgramOK, CodeOK
  <2>3. Holds(p) \/ \A v \in Run \ {w} : ~Holds(proc[v])
    <3>1. CASE p.pc = "lease"
      <4>1. LeasesFree(w)
        BY <1>9, <3>1 DEF Enters, Skims, Outdates, Selects, Passes, Calls, Skips
      <4> QED BY <4>1 DEF LeasesFree, Holds
    <3>2. CASE p.pc # "lease"
      BY <2>1, <3>2 DEF Holds
    <3> QED BY <3>1, <3>2
  <2>4. q.pc \in {"scan", "row", "call", "load"}
    BY <1>9 DEF Enters, Skims, Outdates, Selects, Passes, Calls, Skips
  <2>5. w = Fresh => q.pc # "scan" /\ q.next # <<"scan">>
    <3>1. w = Fresh => p.pc = "row"
      BY <2>1 DEF ProgramOK
    <3>2. p.pc = "row" => q.pc # "scan" /\ q.next \in {<<>>, <<"row">>}
      BY <1>9 DEF Enters, Skims, Outdates, Selects, Passes, Calls, Skips
    <3>3. <<>> # <<"scan">> /\ <<"row">> # <<"scan">>
      OBVIOUS
    <3> HIDE DEF p
    <3> QED BY <3>1, <3>2, <3>3
  <2>6. q.pc \in {"call", "load"} => q.item \in Item
    <3>1. p.todo \subseteq Item
      BY <1>0 DEF Proc
    <3> QED BY <1>9, <3>1 DEF Enters, Skims, Outdates, Selects, Passes, Calls, Skips
  <2>7. ProgramOK(w, q)
    BY <1>9, <2>1, <2>2, <2>4, <2>5, <2>6 DEF ProgramOK, CodeOK
  <2> HIDE DEF p
  <2> QED BY <1>2, <1>9, <2>3, <2>4, <2>7
<1>10. CASE Reads(p, q) /\ q.saving = p.saving /\ q.code = p.code /\ ckpt' = ckpt
  <2>1. Holds(p) /\ ProgramOK(w, p) /\ p.pc = "load"
    BY <1>1, <1>10 DEF Reads, Holds
  <2>2. q.pc = "save" /\ q.file = ckpt /\ ProgramOK(w, q)
    BY <1>10, <2>1 DEF Reads, ProgramOK, CodeOK
  <2> QED BY <1>2, <1>10, <2>1, <2>2
<1>11. CASE Writes(p, q)
  <2>1. Holds(p) /\ ProgramOK(w, p) /\ p.pc = "save" /\ GoesOn(p, q) /\ p.file = ckpt
    BY <1>1, <1>11 DEF Writes, Holds
  <2>2. ckpt' = IF p.item = NoItem THEN [ckpt EXCEPT !.status = "complete"]
                ELSE Updated(ckpt, p.item, p.new)
    BY <1>11, <2>1 DEF Writes
  <2>3. ckpt \in Checkpoint
    BY DEF RunTypeOK
  <2>4. p.item = NoItem => ckpt'.status = "complete"
    BY <2>2, <2>3 DEF Checkpoint
  <2>5. ckpt.status = "complete" => ckpt'.status = "complete"
    BY <2>2, <2>3 DEF Checkpoint, Updated
  <2> HIDE DEF p
  <2>6. /\ Holds(q) \/ q.pc = "off"
        /\ q.pc # "off" => ProgramOK(w, q)
        /\ q.pc # "save"
        /\ q.pc = "off" => q.code = p.code
    BY <1>0, <2>1, GoesOnProgram
  <2>7. w # Fresh /\ p.code = 0 => p.item = NoItem
    BY <2>1 DEF ProgramOK, CodeOK, noExit
  <2>8. \A v \in Run \ {w} : ~Holds(proc[v])
    BY <1>1, <2>1
  <2> QED BY <2>4, <2>5, <2>6, <2>7, <2>8, ExitRun
<1> QED
  BY <1>3, <1>4, <1>5, <1>6, <1>7, <1>8, <1>9, <1>10, <1>11 DEF Moves

LEMMA ExitStarts ==
  ASSUME ~Overlap, RunTypeOK, ExitInv,
         \/ \E created \in BOOLEAN : StartFresh(created)
         \/ EndFresh
         \/ \E w \in Run : StartResume(w)
  PROVE  ExitInv'
<1>1. ASSUME NEW created \in BOOLEAN, StartFresh(created)
      PROVE  ExitInv'
  <2> DEFINE q == [Off(noExit) EXCEPT !.pc = "row", !.todo = Item, !.saving = created]
  <2>1. q.pc = "row" /\ q.next = <<>> /\ q.code = noExit
    BY DEF Off
  <2>2. Goes(Fresh, q) /\ ckpt.status = "none" /\ LeasesFree(Fresh)
    BY <1>1 DEF StartFresh
  <2> HIDE DEF q
  <2>3. ProgramOK(Fresh, q)
    BY <2>1 DEF ProgramOK, CodeOK
  <2>4. \A v \in Run \ {Fresh} : ~Holds(proc[v])
    BY <2>2 DEF LeasesFree, Holds
  <2> QED BY <2>1, <2>2, <2>3, <2>4, FreshAssumption, ExitRun
<1>2. ASSUME EndFresh
      PROVE  ExitInv'
  <2> DEFINE q == Off(FreshExit(proc[Fresh].seen))
  <2>1. Goes(Fresh, q) /\ ckpt' = ckpt
    BY <1>2 DEF EndFresh
  <2>2. q.pc = "off"
    BY DEF Off
  <2> HIDE DEF q
  <2> QED BY <2>1, <2>2, FreshAssumption, ExitRun DEF Holds
<1>3. ASSUME NEW w \in Run, StartResume(w)
      PROVE  ExitInv'
  <2> DEFINE q == [Off(noExit) EXCEPT !.pc = "lease", !.snap = ckpt.item, !.saving = TRUE]
  <2>1. q.pc = "lease" /\ q.next = <<>> /\ q.code = noExit /\ q.saving
    BY DEF Off
  <2>2. Goes(w, q) /\ ckpt' = ckpt /\ w # Fresh
    BY <1>3 DEF StartResume
  <2> HIDE DEF q
  <2>3. ProgramOK(w, q)
    BY <2>1, <2>2 DEF ProgramOK, CodeOK
  <2> QED BY <2>1, <2>2, <2>3, ExitRun DEF Holds
<1> QED BY <1>1, <1>2, <1>3

LEMMA ExitOutside ==
  ASSUME RunTypeOK, ExitInv, UNCHANGED allVars \/ Environment \/ \E died \in Pid : Dies(died)
  PROVE  ExitInv'
<1>1. ckpt' = ckpt /\ \A w \in Run : proc'[w] \in {proc[w], Off(noExit)}
  BY DEF allVars, runVars, Environment, Dies, RunTypeOK
<1>2. Off(noExit).pc = "off" /\ Off(noExit).code # 0
  BY DEF Off, noExit
<1>3. ASSUME NEW v \in Run, NEW w \in Run, v # w, Holds(proc'[w])
      PROVE  ~Holds(proc'[v])
  BY <1>1, <1>2, <1>3 DEF ExitInv, Holds
<1>4. ASSUME NEW w \in Run
      PROVE  /\ proc'[w].pc # "off" => ProgramOK(w, proc'[w])
             /\ proc'[w].pc = "save" => proc'[w].file = ckpt'
             /\ w # Fresh /\ proc'[w].pc = "off" /\ proc'[w].code = 0 => ckpt'.status = "complete"
  <2>1. CASE proc'[w] = proc[w]
    BY <1>1, <2>1 DEF ExitInv
  <2>2. CASE proc'[w] = Off(noExit)
    BY <1>2, <2>2
  <2> QED BY <1>1, <2>1, <2>2
<1> QED BY <1>3, <1>4 DEF ExitInv, ProgramOK, CodeOK, Holds

LEMMA ExitInit == RunInit => ExitInv
<1>1. Off(noExit).pc = "off" /\ Off(noExit).code # 0
  BY DEF Off, noExit
<1> QED BY <1>1 DEF RunInit, ExitInv, Holds

LEMMA ExitNext ==
  ASSUME ~Overlap, TypeOK, RunTypeOK, ExitInv, [RunNext]_allVars
  PROVE  ExitInv'
<1>1. CASE (\E created \in BOOLEAN : StartFresh(created)) \/ EndFresh
  BY <1>1, ExitStarts
<1>2. CASE \E w \in Run : StartResume(w)
  BY <1>2, ExitStarts
<1>3. CASE \E w \in Run : PostLands(w) \/ Progress(w)
  BY <1>3, Moving, ExitMove
<1>4. CASE UNCHANGED allVars \/ Environment \/ \E p \in Pid : Dies(p)
  BY <1>4, ExitOutside
<1> QED BY <1>1, <1>2, <1>3, <1>4 DEF RunNext

\* A resume that exits with 0 leaves its checkpoint complete, for any number of
\* runs and items, as long as the leases keep the runs apart: no run that goes on
\* writes over it what it read before, and no write fails on the way.
THEOREM ExitZeroIsFinal ==
  ASSUME ~Overlap
  PROVE  RunSpec => []ExitZeroMeansComplete
<1>1. RunSpec => [](TypeOK /\ RunTypeOK)
  BY RunsImplementDedup, TypeCorrect, RunTypeCorrect, PTL
<1>2. TypeOK /\ RunTypeOK /\ ExitInv /\ [RunNext]_allVars => ExitInv'
  BY ExitNext
<1>3. ExitInv => ExitZeroMeansComplete
  BY DEF ExitInv, ExitZeroMeansComplete
<1> QED BY <1>1, <1>2, <1>3, ExitInit, PTL DEF RunSpec

-----------------------------------------------------------------------------
(***************************************************************************)
(* A complete checkpoint has nothing left to resume.                       *)
(***************************************************************************)

\* A row of the fresh run that the checkpoint has no answer for yet.
Open(p, i) ==
  \/ i \in p.todo
  \/ i = p.item /\ p.pc \in {"call", "load", "save"}
  \/ i = p.item /\ p.pc = "settle" /\ p.next \in {<<"load", "row">>, <<"load", "exit">>}

\* A resume that has its leases, and has not selected its items.
Scanning(p) == p.pc = "scan" \/ (p.pc \in {"load", "save"} /\ p.next = <<"scan">>)

Completes(p) == p.pc \in {"load", "save"} /\ p.item = NoItem

Settled(items) == \A i \in Item : ~Resumable(items[i])

\* What a resume loaded before it had its leases (_run_resume) has the same items to
\* resume as the checkpoint.
UpToDate(w) == \A i \in Item : Resumable(proc[w].snap[i]) <=> Resumable(ckpt.item[i])

\* A run that writes has a checkpoint to write.
FileOK(p, c) == (p.pc # "off" /\ p.saving) \/ p.pc = "save" => c.status # "none"

FreshOK(p, c) ==
  /\ p.pc \in {"call", "settle", "load", "save"} => p.item \notin p.todo
  /\ p.pc # "off" => \A i \in Item : Open(p, i) => c.item[i] = Pending

\* What a resume loaded, and has corrected, hides no item that can be resumed.
SnapOK(p, c) ==
  /\ Scanning(p) => \A i \in Item : Resumable(c.item[i]) =>
       Resumable(p.snap[i]) \/ (p.pc \in {"load", "save"} /\ i = p.item)
  /\ p.pc \in {"load", "save"} /\ p.next = <<"scan">> => p.new = FailedAs("retro")
  /\ Completes(p) => Settled(c.item)

\* A resume of a complete checkpoint that has its leases selects nothing.
NothingToDo(p) == p.pc \in {"off", "lease"} \/ Completes(p) \/ (Scanning(p) /\ Settled(p.snap))

SettledInv ==
  /\ ckpt.status = "none" => ckpt = NoCheckpoint
  /\ \A w \in Run : FileOK(proc[w], ckpt)
  /\ FreshOK(proc[Fresh], ckpt)
  /\ \A w \in Run \ {Fresh} : SnapOK(proc[w], ckpt)
  /\ ckpt.status = "complete" =>
       /\ Settled(ckpt.item)
       /\ proc[Fresh].pc = "off"
       /\ \A w \in Run \ {Fresh} : NothingToDo(proc[w])

\* A step of one run.
LEMMA SettledRun ==
  ASSUME RunTypeOK, SettledInv, NEW w \in Run, NEW q, Goes(w, q), ckpt' = ckpt,
         FileOK(q, ckpt),
         w = Fresh => FreshOK(q, ckpt),
         w # Fresh => SnapOK(q, ckpt),
         ckpt.status = "complete" => IF w = Fresh THEN q.pc = "off" ELSE NothingToDo(q)
  PROVE  SettledInv'
<1>1. proc'[w] = q /\ \A v \in Run \ {w} : proc'[v] = proc[v]
  BY DEF RunTypeOK, Goes
<1>2. \A v \in Run : FileOK(proc'[v], ckpt')
  BY <1>1 DEF SettledInv
<1>3. FreshOK(proc'[Fresh], ckpt')
  BY <1>1, FreshAssumption DEF SettledInv
<1>4. \A v \in Run \ {Fresh} : SnapOK(proc'[v], ckpt')
  BY <1>1 DEF SettledInv
<1>5. ASSUME ckpt'.status = "complete"
      PROVE  /\ Settled(ckpt'.item) /\ proc'[Fresh].pc = "off"
             /\ \A v \in Run \ {Fresh} : NothingToDo(proc'[v])
  BY <1>1, <1>5, FreshAssumption DEF SettledInv
<1>6. ckpt'.status = "none" => ckpt' = NoCheckpoint
  BY DEF SettledInv
<1> QED BY <1>2, <1>3, <1>4, <1>5, <1>6 DEF SettledInv

\* A step of the fresh run that leaves the file.
LEMMA SettledFresh ==
  ASSUME RunTypeOK, ExitInv, SettledInv, NEW q \in Proc, Goes(Fresh, q),
         ckpt' = ckpt, Moves(Fresh, proc[Fresh], q), ~Writes(proc[Fresh], q)
  PROVE  SettledInv'
<1> DEFINE p == proc[Fresh]
<1>0. /\ p \in Proc
      /\ p.pc = "settle" => p.next \in {<<"row">>, <<"exit">>, <<"load", "row">>, <<"load", "exit">>}
      /\ p.pc \in {"load", "save"} =>
           p.next \in {<<"row">>, <<"scan">>, <<"exit">>, <<"settle", "row">>}
  BY FreshAssumption DEF RunTypeOK, PlaceOK
<1>1. /\ FileOK(p, ckpt) /\ FreshOK(p, ckpt)
      /\ ckpt.status = "complete" => p.pc = "off"
  BY FreshAssumption DEF SettledInv
<1>2. p.pc # "off" => p.pc \notin {"lease", "scan"}
  BY FreshAssumption DEF ExitInv, ProgramOK
\* A step of a run that goes on.
<1>3. ASSUME p.pc # "off", q.pc # "save" \/ p.saving, q.saving => p.saving, FreshOK(q, ckpt)
      PROVE  SettledInv'
  <2>1. FileOK(q, ckpt)
    BY <1>1, <1>3 DEF FileOK
  <2> QED BY <1>1, <1>3, <2>1, SettledRun, FreshAssumption
<1>4. CASE q = p
  <2> HIDE DEF p
  <2> QED BY <1>1, <1>4, SettledRun, FreshAssumption DEF p
<1>5. CASE q.pc = "off"
  BY <1>5, SettledRun, FreshAssumption DEF FileOK, FreshOK
\* What goes on has no row open that was not.
<1>6. ASSUME NEW r \in Proc, GoesOn(r, q), q.pc # "off", r.item = p.item, r.next = p.next,
             r.todo = p.todo, r.saving => p.saving, p.pc \in {"load", "save", "settle"}
      PROVE  SettledInv'
  <2>1. Onward(r, q) /\ Keeps(r, q)
    BY <1>6 DEF GoesOn, Off
  <2>2. q.todo = p.todo /\ (q.saving => p.saving)
    BY <1>6, <2>1 DEF Keeps
  <2>3. /\ q.pc \in {"row", "scan", "load", "settle"}
        /\ q.pc \in {"load", "settle"} => q.item = p.item
        /\ q.pc = "load" => p.pc = "settle" /\ p.next \in {<<"load", "row">>, <<"load", "exit">>}
        /\ q.pc = "settle" => q.next = <<"row">>
    <3> HIDE DEF p
    <3> QED BY <1>0, <1>6, <2>1 DEF Onward
  <2>4. <<"row">> \notin {<<"load", "row">>, <<"load", "exit">>}
    OBVIOUS
  <2>5. \A i \in Item : Open(q, i) => Open(p, i)
    BY <2>2, <2>3, <2>4 DEF Open
  <2>6. FreshOK(q, ckpt)
    BY <1>1, <1>6, <2>2, <2>3, <2>5 DEF FreshOK
  <2> QED BY <1>3, <1>6, <2>2, <2>3, <2>6
<1>7. CASE Settles(p, q) /\ q.pc # "off"
  BY <1>0, <1>6, <1>7 DEF Settles
<1>8. CASE Forgoes(Fresh, p, q) /\ q.pc # "off"
  <2>1. CASE p.pc = "load" /\ GoesOn(p, q)
    BY <1>0, <1>6, <1>8, <2>1
  <2>2. CASE p.pc = "save" /\ GoesOn([p EXCEPT !.saving = FALSE], q)
    <3> DEFINE r == [p EXCEPT !.saving = FALSE]
    <3>1. r \in Proc /\ r.item = p.item /\ r.next = p.next /\ r.todo = p.todo /\ ~r.saving
      BY <1>0 DEF Proc
    <3>2. GoesOn(r, q)
      BY <2>2
    <3> HIDE DEF r
    <3> QED BY <1>6, <1>8, <2>2, <3>1, <3>2
  <2> QED BY <1>8, <2>1, <2>2 DEF Forgoes
<1>9. CASE q.saving = p.saving /\ Answers(p, q)
  <2>1. \A i \in Item : Open(q, i) => Open(p, i)
    BY <1>9 DEF Answers, Open
  <2>2. FreshOK(q, ckpt)
    BY <1>1, <1>9, <2>1 DEF Answers, FreshOK
  <2> QED BY <1>3, <1>9, <2>2 DEF Answers
<1>10. CASE q.saving = p.saving /\ (Passes(p, q) \/ Calls(p, q))
  <2>1. \A i \in Item : Open(q, i) => Open(p, i)
    BY <1>10 DEF Passes, Calls, Open
  <2>2. FreshOK(q, ckpt)
    BY <1>1, <1>10, <2>1 DEF Passes, Calls, FreshOK
  <2> QED BY <1>3, <1>10, <2>2 DEF Passes, Calls
<1>11. CASE q.saving = p.saving /\ Reads(p, q)
  <2>1. \A i \in Item : Open(q, i) => Open(p, i)
    BY <1>11 DEF Reads, Open
  <2>2. FreshOK(q, ckpt)
    BY <1>1, <1>11, <2>1 DEF Reads, FreshOK
  <2> QED BY <1>3, <1>11, <2>2 DEF Reads
<1>12. ~Enters(Fresh, p, q) /\ ~Skims(p, q) /\ ~Outdates(p, q) /\ ~Selects(p, q)
  BY <1>2 DEF Enters, Skims, Outdates, Selects
<1>13. ~Finishes(Fresh, p, q) /\ ~Skips(Fresh, p, q)
  BY <1>2 DEF Finishes, Skips
<1>14. Quits(Fresh, q) => q.pc = "off"
  BY DEF Quits, Off
<1> HIDE DEF p
<1> QED
  BY <1>4, <1>5, <1>7, <1>8, <1>9, <1>10, <1>11, <1>12, <1>13, <1>14 DEF Moves, p

\* A step of a resume that leaves the file.
LEMMA SettledResume ==
  ASSUME RunTypeOK, ExitInv, SettledInv, NEW w \in Run \ {Fresh}, NEW q \in Proc, Goes(w, q),
         ckpt' = ckpt, Moves(w, proc[w], q), ~Writes(proc[w], q),
         proc[w].pc = "lease" /\ q.pc = "scan" => UpToDate(w)
  PROVE  SettledInv'
<1> DEFINE p == proc[w]
<1>0. /\ p \in Proc
      /\ p.pc = "settle" => p.next \in {<<"row">>, <<"exit">>, <<"load", "row">>, <<"load", "exit">>}
      /\ p.pc \in {"load", "save"} =>
           p.next \in {<<"row">>, <<"scan">>, <<"exit">>, <<"settle", "row">>}
  BY DEF RunTypeOK, PlaceOK
<1>1. /\ FileOK(p, ckpt) /\ SnapOK(p, ckpt)
      /\ ckpt.status = "complete" => NothingToDo(p) /\ Settled(ckpt.item)
  BY DEF SettledInv
<1>2. p.pc # "off" => ProgramOK(w, p) /\ p.saving
  BY DEF ExitInv, ProgramOK
\* A step that goes on with something to do, or is off.
<1>3. ASSUME p.pc # "off", SnapOK(q, ckpt),
             ckpt.status = "complete" => NothingToDo(q)
      PROVE  SettledInv'
  <2>1. FileOK(q, ckpt)
    BY <1>1, <1>2, <1>3 DEF FileOK
  <2> QED BY <1>3, <2>1, SettledRun
<1>4. CASE q = p
  <2> HIDE DEF p
  <2> QED BY <1>1, <1>4, SettledRun DEF p
<1>5. CASE q.pc = "off"
  BY <1>5, SettledRun DEF FileOK, SnapOK, Scanning, Completes, NothingToDo
\* A step on a row.
<1>6. ASSUME p.pc \in {"call", "settle", "row"},
             q.pc \in {"row", "call", "settle", "load"},
             q.pc = "load" => q.item \in Item /\ q.next # <<"scan">>
      PROVE  SettledInv'
  <2>1. SnapOK(q, ckpt)
    BY <1>6, ItemAssumption DEF SnapOK, Scanning, Completes
  <2>2. ~NothingToDo(p)
    BY <1>6 DEF NothingToDo, Scanning, Completes
  <2> QED BY <1>1, <1>3, <1>6, <2>1, <2>2
<1>7. CASE Settles(p, q) /\ q.pc # "off"
  <2>1. p.pc = "settle" /\ p.item \in Item /\ Onward(p, q)
    BY <1>2, <1>7 DEF Settles, GoesOn, Off, ProgramOK
  <2> HIDE DEF p
  <2>2. <<"scan">> \notin {<<"row">>, <<"exit">>, <<"load", "row">>, <<"load", "exit">>}
    OBVIOUS
  <2>3. /\ q.pc \in {"row", "load", "settle"}
        /\ q.pc = "load" => q.item \in Item /\ q.next \in {<<"row">>, <<"exit">>}
    BY <1>0, <2>1, <2>2 DEF Onward
  <2> QED BY <1>6, <2>1, <2>2, <2>3
<1>8. CASE Forgoes(w, p, q) /\ q.pc # "off"
  <2>1. p.pc = "save" /\ p.code = 3 /\ GoesOn([p EXCEPT !.saving = FALSE], q)
    BY <1>2, <1>8 DEF Forgoes
  <2> DEFINE r == [p EXCEPT !.saving = FALSE]
  <2>2. GoesOn(r, q) /\ r.next = p.next
    BY <1>0, <2>1 DEF Proc
  <2>3. p.next \in {<<"exit">>, <<"load", "exit">>}
    BY <1>2, <2>1 DEF ProgramOK, CodeOK, noExit
  <2> HIDE DEF r, p
  <2>4. p.next = <<"exit">>
    BY <1>0, <2>1, <2>3
  <2>5. q.pc = "off"
    BY <2>2, <2>4 DEF GoesOn, Onward, Off
  <2> QED BY <1>8, <2>5
<1>9. CASE Answers(p, q)
  <2>1. p.pc = "call" /\ p.item \in Item /\ q.item = p.item
    BY <1>2, <1>9 DEF Answers, ProgramOK
  <2>2. <<"settle", "row">> # <<"scan">>
    OBVIOUS
  <2>3. q.pc \in {"settle", "load"} /\ (q.pc = "load" => q.next # <<"scan">>)
    BY <1>9, <2>2 DEF Answers
  <2> QED BY <1>6, <2>1, <2>3
<1>10. CASE Passes(p, q) \/ Calls(p, q) \/ Skips(w, p, q)
  <2>1. <<"row">> # <<"scan">>
    OBVIOUS
  <2>2. /\ p.pc = "row" /\ q.pc \in {"row", "call", "load"}
        /\ q.pc = "load" => q.item \in Item /\ q.next # <<"scan">>
    BY <1>10, <2>1 DEF Passes, Calls, Skips
  <2> QED BY <1>6, <2>2
<1>11. CASE Skims(p, q)
  <2>1. p.pc = "scan" /\ q.pc = "scan" /\ q.snap = p.snap
    BY <1>11 DEF Skims
  <2>2. SnapOK(q, ckpt)
    BY <1>1, <2>1 DEF SnapOK, Scanning, Completes
  <2>3. NothingToDo(p) => NothingToDo(q)
    BY <2>1 DEF NothingToDo, Scanning, Completes
  <2> QED BY <1>1, <1>3, <2>1, <2>2, <2>3
<1>17. CASE Enters(w, p, q)
  <2>1. p.pc = "lease" /\ q.pc = "scan" /\ q.snap = p.snap
    BY <1>17 DEF Enters
  <2>2. \A i \in Item : Resumable(q.snap[i]) <=> Resumable(ckpt.item[i])
    BY <2>1 DEF UpToDate
  <2>3. SnapOK(q, ckpt)
    BY <2>1, <2>2 DEF SnapOK, Scanning, Completes
  <2>4. Settled(ckpt.item) => NothingToDo(q)
    BY <2>1, <2>2 DEF NothingToDo, Scanning, Settled
  <2> QED BY <1>1, <1>3, <2>1, <2>3, <2>4
<1>12. CASE Outdates(p, q)
  <2>1. /\ p.pc = "scan" /\ q.pc = "load" /\ q.next = <<"scan">>
        /\ q.item \in Item /\ q.new = FailedAs("retro")
        /\ \A i \in Item : i # q.item => q.snap[i] = p.snap[i]
        /\ q.snap[q.item] = FailedAs("retro")
    BY <1>12 DEF Outdates
  <2>2. ~Resumable(FailedAs("retro"))
    BY DEF Resumable, FailedAs
  <2>3. SnapOK(q, ckpt)
    BY <1>1, <2>1, ItemAssumption DEF SnapOK, Scanning, Completes
  <2>4. NothingToDo(p) => NothingToDo(q)
    BY <2>1, <2>2 DEF NothingToDo, Scanning, Completes, Settled
  <2> QED BY <1>1, <1>3, <2>1, <2>3, <2>4
<1>13. CASE Selects(p, q)
  <2>1. p.pc = "scan" /\ q.pc = "row" /\ ~Settled(p.snap)
    BY <1>13 DEF Selects, Settled
  <2>2. SnapOK(q, ckpt)
    BY <2>1 DEF SnapOK, Scanning, Completes
  <2>3. ~NothingToDo(p)
    BY <2>1 DEF NothingToDo, Scanning, Completes
  <2> QED BY <1>1, <1>3, <2>1, <2>2, <2>3
<1>14. CASE Reads(p, q)
  <2>1. p.pc = "load" /\ q.pc = "save" /\ q.next = p.next /\ q.item = p.item
        /\ q.new = p.new /\ q.snap = p.snap
    BY <1>14 DEF Reads
  <2>2. SnapOK(q, ckpt)
    BY <1>1, <2>1 DEF SnapOK, Scanning, Completes
  <2>3. NothingToDo(p) => NothingToDo(q)
    BY <2>1 DEF NothingToDo, Scanning, Completes
  <2> QED BY <1>1, <1>3, <2>1, <2>2, <2>3
<1>15. CASE Finishes(w, p, q)
  <2>1. /\ q.pc = "load" /\ q.next = <<"exit">> /\ q.item = NoItem
        /\ p.pc \in {"scan", "row"}
    BY <1>15 DEF Finishes
  <2>2. Settled(ckpt.item)
    <3>1. p.pc = "scan" /\ Settled(p.snap) => Settled(ckpt.item)
      BY <1>1 DEF SnapOK, Scanning, Settled
    <3> QED BY <1>15, <3>1 DEF Finishes, Settled
  <2>3. <<"exit">> # <<"scan">>
    OBVIOUS
  <2>4. SnapOK(q, ckpt) /\ NothingToDo(q)
    BY <2>1, <2>2, <2>3 DEF SnapOK, NothingToDo, Scanning, Completes
  <2> QED BY <1>3, <2>1, <2>4
<1>16. Quits(w, q) => q.pc = "off"
  BY DEF Quits, Off
<1> HIDE DEF p
<1> QED
  BY <1>4, <1>5, <1>7, <1>8, <1>9, <1>10, <1>11, <1>12, <1>13, <1>14, <1>15, <1>16, <1>17
  DEF Moves, p

\* A write of one run, with its leases, over the file it has read.
LEMMA SettledWrite ==
  ASSUME RunTypeOK, ExitInv, SettledInv,
         NEW w \in Run, NEW q \in Proc, Goes(w, q), Writes(proc[w], q)
  PROVE  SettledInv'
<1> DEFINE p == proc[w]
<1>0. /\ p \in Proc /\ ckpt \in Checkpoint /\ p.pc = "save" /\ GoesOn(p, q)
      /\ p.next \in {<<"row">>, <<"scan">>, <<"exit">>, <<"settle", "row">>}
  BY DEF RunTypeOK, PlaceOK, Writes
<1>1. ProgramOK(w, p) /\ p.file = ckpt /\ \A v \in Run \ {w} : proc[v].pc \in {"off", "lease"}
  BY <1>0 DEF ExitInv, Holds
<1>2. ckpt' = IF p.item = NoItem THEN [ckpt EXCEPT !.status = "complete"]
              ELSE Updated(ckpt, p.item, p.new)
  BY <1>1 DEF Writes
<1>3. FileOK(p, ckpt) /\ ckpt.status # "none"
  BY <1>0 DEF SettledInv, FileOK
<1>4. proc'[w] = q /\ \A v \in Run \ {w} : proc'[v] = proc[v]
  BY DEF RunTypeOK, Goes
<1>5. ckpt'.status # "none" /\ (p.item # NoItem => ckpt'.status = ckpt.status)
  BY <1>0, <1>2, <1>3 DEF Checkpoint, Updated
<1>6. ASSUME p.item \in Item
      PROVE  /\ \A i \in Item \ {p.item} : ckpt'.item[i] = ckpt.item[i]
             /\ ckpt'.item[p.item].status = p.new.status
             /\ ckpt'.item[p.item].class = p.new.class
  <2>1. /\ ckpt' = Updated(ckpt, p.item, p.new) /\ p.new \in ItemState
        /\ ckpt.item \in [Item -> ItemState]
    BY <1>0, <1>2, <1>6, ItemAssumption DEF Proc, Checkpoint
  <2> HIDE DEF p
  <2> DEFINE i == p.item
             s == [p.new EXCEPT !.verified = IF p.new.status = "done" THEN @ ELSE ckpt.item[i].verified]
  <2>2. ckpt'.item = [ckpt.item EXCEPT ![i] = s]
    BY <1>0, <2>1 DEF Updated, Checkpoint
  <2>3. s.status = p.new.status /\ s.class = p.new.class
    BY <2>1 DEF ItemState
  <2> HIDE DEF s
  <2> QED BY <1>6, <2>1, <2>2, <2>3
\* The other runs have no leases.
<1>11. \A v \in Run \ {w} : SnapOK(proc'[v], ckpt') /\ NothingToDo(proc'[v])
  BY <1>1, <1>4 DEF SnapOK, Scanning, Completes, NothingToDo
\* Where the run goes on.
<1>7. /\ q.pc \in {"off", "row", "scan", "settle"}
      /\ q.pc = "settle" => q.next = <<"row">> /\ q.item = p.item
      /\ q.pc = "scan" => p.next = <<"scan">>
      /\ p.next = <<"exit">> => q.pc = "off"
      /\ p.next # <<"exit">> => q.pc # "off"
      /\ q.pc # "off" => q.todo = p.todo /\ q.snap = p.snap
  <2> HIDE DEF p
  <2> QED BY <1>0 DEF GoesOn, Onward, Keeps, Off
<1>8. \A v \in Run : FileOK(proc'[v], ckpt')
  BY <1>5 DEF FileOK
<1>9. CASE w = Fresh
  <2>1. p.item \in Item /\ FreshOK(p, ckpt) /\ Open(p, p.item) /\ ckpt.status # "complete"
    BY <1>0, <1>1, <1>9 DEF SettledInv, ProgramOK, Open
  <2>2. ckpt.item[p.item] = Pending /\ p.item \notin p.todo /\ Resumable(Pending)
    BY <1>0, <2>1 DEF FreshOK, Resumable, Unfinished, Pending
  <2>3. FreshOK(q, ckpt')
    <3>1. <<"row">> \notin {<<"load", "row">>, <<"load", "exit">>}
      OBVIOUS
    <3>2. \A i \in Item : q.pc # "off" /\ Open(q, i) => i \in p.todo
      BY <1>7, <3>1 DEF Open
    <3>3. \A i \in Item : i \in p.todo => ckpt'.item[i] = Pending
      BY <1>0, <1>6, <2>1, <2>2 DEF FreshOK, Open
    <3> QED BY <1>7, <2>2, <3>2, <3>3 DEF FreshOK
  <2>4. \A v \in Run \ {Fresh} : SnapOK(proc'[v], ckpt')
    BY <1>9, <1>11
  <2>5. ckpt'.status # "complete" /\ ckpt'.status # "none"
    BY <1>5, <2>1, ItemAssumption
  <2>6. FreshOK(proc'[Fresh], ckpt')
    BY <1>4, <1>9, <2>3
  <2> QED BY <1>8, <2>4, <2>5, <2>6 DEF SettledInv
<1>10. CASE w # Fresh
  <2>1. proc'[Fresh] = proc[Fresh] /\ proc[Fresh].pc = "off"
    BY <1>1, <1>4, <1>10, FreshAssumption DEF ExitInv, ProgramOK
  <2>2. FreshOK(proc'[Fresh], ckpt')
    BY <2>1 DEF FreshOK
  <2>4. SnapOK(p, ckpt) /\ (ckpt.status = "complete" => Settled(ckpt.item) /\ NothingToDo(p))
    BY <1>10 DEF SettledInv
  <2>5. SnapOK(q, ckpt') /\ (ckpt'.status = "complete" => Settled(ckpt'.item) /\ NothingToDo(q))
    <3>1. CASE p.item = NoItem
      <4>1. p.next = <<"exit">>
        BY <1>0, <1>1, <3>1, ItemAssumption DEF ProgramOK
      <4>2. q.pc = "off" /\ ckpt'.item = ckpt.item /\ Settled(ckpt.item)
        BY <1>0, <1>2, <1>7, <2>4, <3>1, <4>1 DEF SnapOK, Completes, Checkpoint
      <4> QED BY <4>2 DEF SnapOK, Scanning, Completes, NothingToDo
    <3>2. CASE p.item # NoItem
      <4>1. p.item \in Item
        BY <1>0, <1>1, <3>2 DEF ProgramOK
      <4>2. p.next = <<"scan">> =>
              \A i \in Item : Resumable(ckpt'.item[i]) => Resumable(ckpt.item[i]) /\ i # p.item
        <5>1. p.next = <<"scan">> => ~Resumable(ckpt'.item[p.item])
          BY <1>0, <1>6, <2>4, <4>1 DEF SnapOK, Resumable, Unfinished, FailedAs
        <5> QED BY <1>6, <4>1, <5>1
      <4>3. SnapOK(q, ckpt')
        BY <1>0, <1>7, <2>4, <4>2 DEF SnapOK, Scanning, Completes
      <4>4. ASSUME ckpt'.status = "complete"
            PROVE  Settled(ckpt'.item) /\ NothingToDo(q)
        <5>1. Settled(ckpt.item) /\ NothingToDo(p)
          BY <1>5, <2>4, <3>2, <4>4
        <5>2. p.next = <<"scan">> /\ Settled(p.snap)
          BY <1>0, <3>2, <5>1, ItemAssumption DEF NothingToDo, Completes, Scanning
        <5>3. q.pc = "scan" /\ q.snap = p.snap
          <6>1. Onward(p, q) /\ Keeps(p, q)
            <7>1. <<"scan">> # <<"exit">>
              OBVIOUS
            <7> QED BY <1>0, <5>2, <7>1 DEF GoesOn
          <6> HIDE DEF p
          <6> QED BY <5>2, <6>1 DEF Onward, Keeps
        <5> QED BY <4>2, <5>1, <5>2, <5>3 DEF Settled, NothingToDo, Scanning
      <4> QED BY <4>3, <4>4
    <3> QED BY <3>1, <3>2
  <2>6. \A v \in Run \ {Fresh} : SnapOK(proc'[v], ckpt')
    BY <1>4, <1>11, <2>5
  <2>7. ckpt'.status = "complete" => \A v \in Run \ {Fresh} : NothingToDo(proc'[v])
    BY <1>4, <1>11, <2>5
  <2>8. ckpt'.status = "complete" => Settled(ckpt'.item)
    BY <2>5
  <2> HIDE DEF p
  <2> QED BY <1>5, <1>8, <2>1, <2>2, <2>6, <2>7, <2>8 DEF SettledInv
<1> QED BY <1>9, <1>10

LEMMA SettledMove ==
  ASSUME RunTypeOK, ExitInv, SettledInv,
         NEW w \in Run, NEW q \in Proc, Goes(w, q), Moves(w, proc[w], q),
         proc[w].pc = "lease" /\ q.pc = "scan" => UpToDate(w)
  PROVE  SettledInv'
<1>1. CASE Writes(proc[w], q)
  BY <1>1, SettledWrite
<1>2. CASE ~Writes(proc[w], q)
  <2>1. ckpt' = ckpt
    BY <1>2 DEF Moves
  <2>2. CASE w = Fresh
    BY <1>2, <2>1, <2>2, SettledFresh
  <2>3. CASE w # Fresh
    BY <1>2, <2>1, <2>3, SettledResume
  <2> QED BY <2>2, <2>3
<1> QED BY <1>1, <1>2

LEMMA SettledStarts ==
  ASSUME RunTypeOK, ExitInv, SettledInv,
         \/ \E created \in BOOLEAN : StartFresh(created)
         \/ EndFresh
         \/ \E w \in Run : StartResume(w)
  PROVE  SettledInv'
<1>1. ASSUME NEW created \in BOOLEAN, StartFresh(created)
      PROVE  SettledInv'
  <2> DEFINE q == [Off(noExit) EXCEPT !.pc = "row", !.todo = Item, !.saving = created]
  <2>1. q.pc = "row" /\ q.saving = created
    BY DEF Off
  <2>2. Goes(Fresh, q) /\ ckpt = NoCheckpoint
    BY <1>1 DEF StartFresh, SettledInv
  <2>3. ckpt' = IF created THEN [NoCheckpoint EXCEPT !.status = "open"] ELSE ckpt
    BY <1>1 DEF StartFresh
  <2> HIDE DEF q
  <2>4. /\ ckpt'.item = ckpt.item /\ ckpt'.status # "complete"
        /\ ckpt'.status = "none" => ckpt' = NoCheckpoint /\ ~created
        /\ \A i \in Item : ckpt'.item[i] = Pending
    BY <2>2, <2>3 DEF NoCheckpoint
  <2>5. proc'[Fresh] = q /\ \A v \in Run \ {Fresh} : proc'[v] = proc[v]
    BY <2>2, FreshAssumption DEF RunTypeOK, Goes
  <2>6. \A v \in Run : FileOK(proc'[v], ckpt')
    BY <2>1, <2>2, <2>4, <2>5 DEF SettledInv, FileOK, NoCheckpoint
  <2>7. FreshOK(proc'[Fresh], ckpt')
    BY <2>1, <2>4, <2>5 DEF FreshOK
  <2>8. \A v \in Run \ {Fresh} : SnapOK(proc'[v], ckpt')
    BY <2>4, <2>5 DEF SettledInv, SnapOK
  <2> QED BY <2>4, <2>6, <2>7, <2>8 DEF SettledInv
<1>2. ASSUME EndFresh
      PROVE  SettledInv'
  <2> DEFINE q == Off(FreshExit(proc[Fresh].seen))
  <2>1. Goes(Fresh, q) /\ ckpt' = ckpt
    BY <1>2 DEF EndFresh
  <2>2. q.pc = "off"
    BY DEF Off
  <2> HIDE DEF q
  <2> QED BY <2>1, <2>2, SettledRun, FreshAssumption DEF FileOK, FreshOK
<1>3. ASSUME NEW w \in Run, StartResume(w)
      PROVE  SettledInv'
  <2> DEFINE q == [Off(noExit) EXCEPT !.pc = "lease", !.snap = ckpt.item, !.saving = TRUE]
  <2>1. q.pc = "lease" /\ q.snap = ckpt.item
    BY DEF Off
  <2>2. Goes(w, q) /\ ckpt' = ckpt /\ w # Fresh /\ ckpt.status # "none"
    BY <1>3 DEF StartResume
  <2> HIDE DEF q
  <2>3. SnapOK(q, ckpt) /\ (ckpt.status = "complete" => NothingToDo(q))
    BY <2>1 DEF SnapOK, Scanning, Completes, NothingToDo, SettledInv
  <2> QED BY <2>2, <2>3, SettledRun DEF FileOK
<1> QED BY <1>1, <1>2, <1>3

LEMMA SettledOutside ==
  ASSUME RunTypeOK, SettledInv, UNCHANGED allVars \/ Environment \/ \E died \in Pid : Dies(died)
  PROVE  SettledInv'
<1>1. ckpt' = ckpt /\ \A w \in Run : proc'[w] \in {proc[w], Off(noExit)}
  BY DEF allVars, runVars, Environment, Dies, RunTypeOK
<1>2. Off(noExit).pc = "off"
  BY DEF Off
<1>3. \A w \in Run : FileOK(proc'[w], ckpt')
  BY <1>1, <1>2 DEF SettledInv, FileOK
<1>4. FreshOK(proc'[Fresh], ckpt')
  BY <1>1, <1>2, FreshAssumption DEF SettledInv, FreshOK
<1>5. \A w \in Run \ {Fresh} : SnapOK(proc'[w], ckpt')
  BY <1>1, <1>2 DEF SettledInv, SnapOK, Scanning, Completes
<1>6. ckpt.status = "complete" => \A w \in Run \ {Fresh} : NothingToDo(proc'[w])
  BY <1>1, <1>2 DEF SettledInv, NothingToDo
<1>7. ckpt.status = "complete" => proc'[Fresh].pc = "off"
  BY <1>1, <1>2, FreshAssumption DEF SettledInv
<1> QED BY <1>1, <1>3, <1>4, <1>5, <1>6, <1>7 DEF SettledInv

LEMMA SettledInit == RunInit => SettledInv
<1>1. Off(noExit).pc = "off"
  BY DEF Off
<1>2. NoCheckpoint.status = "none"
  BY DEF NoCheckpoint
<1> QED BY <1>1, <1>2, FreshAssumption
    DEF RunInit, SettledInv, FileOK, FreshOK, SnapOK, Scanning, Completes

\* There is one way from the load of the checkpoint to its items.
LEMMA EnteringStep ==
  ASSUME RunTypeOK, NEW w \in Run, Progress(w) \/ PostLands(w),
         proc[w].pc = "lease", proc'[w].pc = "scan"
  PROVE  TakeLeases(w)
<1>1. ~Refused(w)
  BY DEF Refused, Goes, RunTypeOK, Off
<1>2. ~\E force \in BOOLEAN : PassGate(w, force)
  BY DEF PassGate, AtRow
<1>3. ~Drift(w) /\ ~GateHolds(w) /\ ~\E what \in {{}, {"failed"}} : PassOver(w, what)
  BY DEF Drift, GateHolds, PassOver, AtRow
<1>4. ~PostLands(w) /\ (~\E verified \in Verdicts : Published(w, verified)) /\ ~Settle(w)
  BY DEF PostLands, Published, Settle
<1>5. /\ ~\E class \in {"error", "policy_skip"} : InBand(w, class)
      /\ ~\E error_class \in ErrorClass : Raised(w, error_class)
      /\ ~\E auth \in BOOLEAN : Aborts(w, auth)
  BY DEF InBand, Raised, Aborts
<1>6. ~LoadCheckpoint(w) /\ ~SaveCheckpoint(w) /\ ~CheckpointFails(w) /\ ~Escapes(w)
  BY DEF LoadCheckpoint, SaveCheckpoint, CheckpointFails, Escapes
<1>7. ~EndResume(w) /\ ~Select(w) /\ ~\E outdated \in BOOLEAN : Revalidate(w, outdated)
  BY DEF EndResume, RowsDone, Select, Revalidate
<1> QED BY <1>1, <1>2, <1>3, <1>4, <1>5, <1>6, <1>7 DEF Progress

LEMMA SettledNext ==
  ASSUME \A w \in Run : TakeLeases(w) => UpToDate(w),
         TypeOK, RunTypeOK, ExitInv, SettledInv, [RunNext]_allVars
  PROVE  SettledInv'
<1>1. CASE (\E created \in BOOLEAN : StartFresh(created)) \/ EndFresh
  BY <1>1, SettledStarts
<1>2. CASE \E w \in Run : StartResume(w)
  BY <1>2, SettledStarts
<1>3. ASSUME NEW w \in Run, PostLands(w) \/ Progress(w)
      PROVE  SettledInv'
  <2>1. PICK q \in Proc : Goes(w, q) /\ Moves(w, proc[w], q)
    BY <1>3, Moving
  <2>2. proc'[w] = q
    BY <2>1 DEF Goes, RunTypeOK
  <2>3. proc[w].pc = "lease" /\ q.pc = "scan" => UpToDate(w)
    BY <1>3, <2>2, EnteringStep
  <2> QED BY <2>1, <2>3, SettledMove
<1>4. CASE UNCHANGED allVars \/ Environment \/ \E p \in Pid : Dies(p)
  BY <1>4, SettledOutside
<1> QED BY <1>1, <1>2, <1>3, <1>4 DEF RunNext

\* A complete checkpoint has no item that a resume would publish, for any number of
\* items and of resumes, whichever of them crash or find the leases taken, but for one
\* cause: a resume that takes its leases with an old load of the checkpoint, from
\* before another resume changed which of its items are left (_run_resume loads, then
\* acquires).
THEOREM CompleteIsSettled ==
  ASSUME ~Overlap
  PROVE  RunSpec /\ [][\A w \in Run : TakeLeases(w) => UpToDate(w)]_allVars
           => []CompleteMeansSettled
<1>1. RunSpec => [](TypeOK /\ RunTypeOK)
  BY RunsImplementDedup, TypeCorrect, RunTypeCorrect, PTL
<1>2. /\ TypeOK /\ RunTypeOK /\ ExitInv /\ SettledInv /\ [RunNext]_allVars
      /\ [\A w \in Run : TakeLeases(w) => UpToDate(w)]_allVars
      => ExitInv' /\ SettledInv'
  <2> SUFFICES ASSUME TypeOK, RunTypeOK, ExitInv, SettledInv, [RunNext]_allVars,
                      [\A w \in Run : TakeLeases(w) => UpToDate(w)]_allVars
               PROVE  ExitInv' /\ SettledInv'
    OBVIOUS
  <2>1. ExitInv'
    BY ExitNext
  <2>2. CASE \A w \in Run : TakeLeases(w) => UpToDate(w)
    BY <2>1, <2>2, SettledNext
  <2>3. CASE UNCHANGED allVars
    BY <2>1, <2>3, SettledOutside
  <2> QED BY <2>2, <2>3
<1>3. SettledInv => CompleteMeansSettled
  BY DEF SettledInv, CompleteMeansSettled, Settled
<1> QED BY <1>1, <1>2, <1>3, ExitInit, SettledInit, PTL DEF RunSpec

-----------------------------------------------------------------------------
(***************************************************************************)
(* An item that is done stays done.                                        *)
(***************************************************************************)

FilesInv ==
  /\ ckpt.status = "none" => ckpt = NoCheckpoint
  /\ \A w \in Run : FileOK(proc[w], ckpt)

\* A run that publishes an item, or has in hand to write that it is not done.
Undoing(p, i) ==
  /\ i = p.item
  /\ \/ p.pc = "call"
     \/ /\ p.new # DoneAs(TRUE)
        /\ \/ p.pc \in {"load", "save"}
           \/ p.pc = "settle" /\ p.next \in {<<"load", "row">>, <<"load", "exit">>}

\* In contract, and but for the re-validation, it is not done.
KeptInv ==
  \A w \in Run, i \in Item \ Outdated :
    Undoing(proc[w], i) /\ InContract(KeyOf[i]) => ckpt.item[i].status # "done"

\* The part of the file that a run has written, or has not.
LEMMA WrittenFile ==
  ASSUME RunTypeOK, ExitInv, NEW w \in Run, NEW q, Writes(proc[w], q)
  PROVE  LET p == proc[w] IN
         /\ ckpt'.status \in {ckpt.status, "complete"}
         /\ \A i \in Item : i # p.item => ckpt'.item[i] = ckpt.item[i]
         /\ p.item \in Item /\ p.new = DoneAs(TRUE) => ckpt'.item[p.item] = DoneAs(TRUE)
<1> DEFINE p == proc[w]
<1>1. p \in Proc /\ ckpt \in Checkpoint /\ p.file = ckpt
  BY DEF RunTypeOK, ExitInv, Writes
<1>2. ckpt' = IF p.item = NoItem THEN [ckpt EXCEPT !.status = "complete"]
              ELSE Updated(ckpt, p.item, p.new)
  BY <1>1 DEF Writes
<1>3. p.item \in Item \cup {NoItem} /\ p.new \in ItemState
  BY <1>1 DEF Proc
<1> HIDE DEF p
<1>4. CASE p.item = NoItem
  BY <1>1, <1>2, <1>4, ItemAssumption DEF Checkpoint, p
<1>5. CASE p.item \in Item
  <2> DEFINE s == [p.new EXCEPT !.verified = IF p.new.status = "done" THEN @ ELSE ckpt.item[p.item].verified]
  <2>1. ckpt' = [ckpt EXCEPT !.item = [@ EXCEPT ![p.item] = s]]
    BY <1>2, <1>5, ItemAssumption DEF Updated
  <2>2. ASSUME p.new = DoneAs(TRUE)
        PROVE  s = DoneAs(TRUE)
    <3>1. s = [DoneAs(TRUE) EXCEPT !.verified = TRUE]
      BY <2>2 DEF DoneAs
    <3> HIDE DEF s
    <3> QED BY <3>1 DEF DoneAs
  <2> HIDE DEF s
  <2>3. ckpt'.status = ckpt.status /\ ckpt'.item = [ckpt.item EXCEPT ![p.item] = s]
    BY <1>1, <2>1 DEF Checkpoint
  <2>4. ckpt.item \in [Item -> ItemState]
    BY <1>1 DEF Checkpoint
  <2> QED BY <1>5, <2>2, <2>3, <2>4 DEF p
<1> QED BY <1>3, <1>4, <1>5

\* A run that goes on saves when it did.
LEMMA GoesOnSaving ==
  ASSUME NEW p, NEW q, GoesOn(p, q)
  PROVE  q.pc # "save" /\ (q.pc # "off" /\ q.saving => p.saving)
BY DEF GoesOn, Onward, Keeps, Off

LEMMA FilesMove ==
  ASSUME RunTypeOK, ExitInv, FilesInv,
         NEW w \in Run, NEW q \in Proc, Goes(w, q), Moves(w, proc[w], q)
  PROVE  FilesInv'
<1> DEFINE p == proc[w]
<1>0. p \in Proc /\ FileOK(p, ckpt)
  BY DEF RunTypeOK, FilesInv
<1>1. proc'[w] = q /\ \A v \in Run \ {w} : proc'[v] = proc[v]
  BY DEF RunTypeOK, Goes
<1>2. /\ ckpt'.status = "none" => ckpt' = ckpt
      /\ Writes(p, q) => ckpt'.status # "none"
  <2>1. CASE Writes(p, q)
    <3>1. ckpt.status # "none"
      BY <1>0, <2>1 DEF FileOK, Writes
    <3> QED BY <2>1, <3>1, WrittenFile
  <2>2. CASE ~Writes(p, q)
    BY <2>2 DEF Moves
  <2> QED BY <2>1, <2>2
<1>3. ASSUME q.pc # "save", q.pc # "off" /\ q.saving => p.pc # "off" /\ p.saving
      PROVE  FileOK(q, ckpt)
  BY <1>0, <1>3 DEF FileOK
<1>4. ckpt'.status = "none" => FileOK(q, ckpt)
  <2>1. CASE Settles(p, q) \/ (p.pc = "load" /\ GoesOn(p, q))
    BY <1>3, <2>1, GoesOnSaving DEF Settles
  <2>2. CASE GoesOn([p EXCEPT !.saving = FALSE], q)
    <3> DEFINE r == [p EXCEPT !.saving = FALSE]
    <3>1. GoesOn(r, q) /\ ~r.saving
      BY <1>0, <2>2 DEF Proc
    <3> HIDE DEF r
    <3> QED BY <1>3, <3>1, GoesOnSaving
  <2>3. CASE Quits(w, q)
    <3>1. q.pc = "off"
      BY <2>3 DEF Quits, Off
    <3> QED BY <1>3, <3>1
  <2>4. CASE Finishes(w, p, q) /\ q.saving = p.saving
    BY <1>3, <2>4 DEF Finishes
  <2>5. CASE Answers(p, q) /\ q.saving = p.saving
    BY <1>3, <2>5 DEF Answers
  <2>6. CASE Reads(p, q)
    BY <1>0, <2>6 DEF Reads, FileOK
  <2>7. CASE /\ q.saving = p.saving
             /\ \/ Enters(w, p, q) \/ Skims(p, q) \/ Outdates(p, q) \/ Selects(p, q)
                \/ Passes(p, q) \/ Calls(p, q) \/ Skips(w, p, q)
    <3>1. p.pc # "off" /\ q.pc # "save"
      BY <2>7 DEF Enters, Skims, Outdates, Selects, Passes, Calls, Skips
    <3> QED BY <1>3, <2>7, <3>1
  <2>8. CASE q = p
    BY <1>0, <2>8
  <2> HIDE DEF p
  <2> QED BY <1>2, <2>1, <2>2, <2>3, <2>4, <2>5, <2>6, <2>7, <2>8 DEF Moves, Forgoes, p
<1>5. \A v \in Run : FileOK(proc'[v], ckpt')
  BY <1>1, <1>2, <1>4 DEF FilesInv, FileOK
<1> QED BY <1>2, <1>5 DEF FilesInv

\* A run comes to undo an item only through a dispatch.
LEMMA UndoingMove ==
  ASSUME RunTypeOK, ExitInv, NEW w \in Run, NEW q \in Proc, Moves(w, proc[w], q),
         NEW i \in Item \ Outdated, Undoing(q, i)
  PROVE  ckpt' = ckpt /\ (Undoing(proc[w], i) \/ (Calls(proc[w], q) /\ i = q.item))
<1> DEFINE p == proc[w]
<1>0. /\ p \in Proc
      /\ p.pc \in {"load", "save"} =>
           p.next \in {<<"row">>, <<"scan">>, <<"exit">>, <<"settle", "row">>}
  BY DEF RunTypeOK, PlaceOK
<1>1. i = q.item /\ q.pc \in {"call", "load", "save", "settle"}
  BY DEF Undoing
\* After a write nothing is left in hand.
<1>2. ASSUME NEW r, GoesOn(r, q), r.next = p.next
      PROVE  p.pc \notin {"load", "save"} /\ r.item = q.item /\ r.new = q.new
             /\ q.pc = "load" /\ p.next \in {<<"load", "row">>, <<"load", "exit">>}
  <2>1. Onward(r, q)
    BY <1>1, <1>2 DEF GoesOn, Off
  <2>2. <<"row">> \notin {<<"load", "row">>, <<"load", "exit">>}
    OBVIOUS
  <2> HIDE DEF p
  <2>3. q.pc = "load" /\ p.next \in {<<"load", "row">>, <<"load", "exit">>}
    BY <1>1, <1>2, <2>1, <2>2 DEF Onward, Undoing
  <2> QED BY <1>0, <1>2, <2>1, <2>3 DEF Onward
<1>3. ~Writes(p, q)
  BY <1>2 DEF Writes
<1>4. ASSUME Settles(p, q)
      PROVE  Undoing(p, i)
  <2>1. GoesOn(p, q) /\ p.pc = "settle"
    BY <1>4 DEF Settles
  <2>2. p.item = q.item /\ p.new = q.new /\ q.pc = "load"
        /\ p.next \in {<<"load", "row">>, <<"load", "exit">>}
    <3> HIDE DEF p
    <3> QED BY <1>2, <2>1
  <2> HIDE DEF p
  <2> QED BY <1>1, <2>1, <2>2 DEF Undoing
<1>5. ~Forgoes(w, p, q)
  <2>1. ASSUME p.pc = "load", GoesOn(p, q)
        PROVE  FALSE
    BY <1>2, <2>1
  <2>2. ASSUME p.pc = "save", GoesOn([p EXCEPT !.saving = FALSE], q)
        PROVE  FALSE
    <3> DEFINE r == [p EXCEPT !.saving = FALSE]
    <3>1. r.next = p.next /\ GoesOn(r, q)
      BY <1>0, <2>2 DEF Proc
    <3> HIDE DEF r
    <3> QED BY <1>2, <2>2, <3>1
  <2> QED BY <2>1, <2>2 DEF Forgoes
<1>6. ~Quits(w, q) /\ ~Finishes(w, p, q)
  BY <1>1, ItemAssumption DEF Quits, Off, Finishes
<1>7. Answers(p, q) \/ Reads(p, q) => Undoing(p, i)
  BY DEF Answers, Reads, Undoing
<1>8. ~Enters(w, p, q) /\ ~Skims(p, q) /\ ~Selects(p, q) /\ ~Passes(p, q)
  BY <1>1 DEF Enters, Skims, Selects, Passes
<1>9. ~Outdates(p, q) /\ ~Skips(w, p, q)
  BY <1>1 DEF Outdates, Skips, Undoing
<1> HIDE DEF p
<1> QED BY <1>1, <1>3, <1>4, <1>5, <1>6, <1>7, <1>8, <1>9 DEF Moves, p

LEMMA KeptMove ==
  ASSUME TypeOK, RunTypeOK, ExitInv, KeptInv, RepublishableIsNotLive, DoneItemIsLive,
         \A k \in Key : InContract(k)' => InContract(k),
         NEW w \in Run, NEW q \in Proc, Goes(w, q), Moves(w, proc[w], q)
  PROVE  KeptInv'
<1> SUFFICES ASSUME NEW v \in Run, NEW i \in Item \ Outdated,
                    Undoing(proc'[v], i), InContract(KeyOf[i])'
             PROVE  ckpt'.item[i].status # "done"
  BY DEF KeptInv, Undoing
<1> DEFINE k == KeyOf[i]
<1>0. k \in Key /\ InContract(k)
  BY KeyOfAssumption
<1>1. proc'[w] = q /\ \A u \in Run \ {w} : proc'[u] = proc[u]
  BY DEF RunTypeOK, Goes
<1>2. CASE v # w
  <2>1. Undoing(proc[v], i) /\ Holds(proc[v])
    BY <1>1, <1>2 DEF Undoing, Holds
  <2>2. ~Holds(proc[w])
    BY <1>2, <2>1 DEF ExitInv
  <2>3. ckpt' = ckpt
    BY <2>2 DEF Moves, Writes, Holds
  <2> QED BY <1>0, <2>1, <2>3 DEF KeptInv
<1>3. CASE v = w
  <2>1. ckpt' = ckpt /\ (Undoing(proc[w], i) \/ (Calls(proc[w], q) /\ i = q.item))
    BY <1>1, <1>3, UndoingMove
  <2>2. CASE Undoing(proc[w], i)
    BY <1>0, <2>1, <2>2 DEF KeptInv
  <2>3. CASE Calls(proc[w], q) /\ i = q.item
    <3>1. row[k].state \in {"absent", "failed"}
      BY <2>3 DEF Calls, Dispatchable
    <3>2. posts[k] = 0 /\ clean[k]
      BY <1>0, <3>1 DEF RepublishableIsNotLive, InContract
    <3> QED BY <2>1, <3>2 DEF DoneItemIsLive
  <2> QED BY <2>1, <2>2, <2>3
<1> QED BY <1>2, <1>3

\* A run that starts or ends, and what runs do not do.
LEMMA KeptStarts ==
  ASSUME RunTypeOK, FilesInv, KeptInv, \A k \in Key : InContract(k)' => InContract(k),
         \/ \E created \in BOOLEAN : StartFresh(created)
         \/ EndFresh
         \/ \E w \in Run : StartResume(w)
         \/ UNCHANGED allVars \/ Environment
         \/ \E died \in Pid : Dies(died)
  PROVE  FilesInv' /\ KeptInv' /\ ckpt'.item = ckpt.item
\* No run has anything new in hand.
<1>1. ASSUME ckpt'.item = ckpt.item,
             \A w \in Run : proc'[w] = proc[w] \/ proc'[w].pc \in {"off", "row", "lease"}
      PROVE  KeptInv'
  <2> SUFFICES ASSUME NEW w \in Run, NEW i \in Item \ Outdated,
                      Undoing(proc'[w], i), InContract(KeyOf[i])'
               PROVE  ckpt'.item[i].status # "done"
    BY DEF KeptInv, Undoing
  <2>1. Undoing(proc[w], i)
    BY <1>1 DEF Undoing
  <2>2. InContract(KeyOf[i])
    BY KeyOfAssumption
  <2> QED BY <1>1, <2>1, <2>2 DEF KeptInv
<1>2. ASSUME NEW created \in BOOLEAN, StartFresh(created)
      PROVE  FilesInv' /\ KeptInv' /\ ckpt'.item = ckpt.item
  <2> DEFINE q == [Off(noExit) EXCEPT !.pc = "row", !.todo = Item, !.saving = created]
  <2>1. q.pc = "row" /\ q.saving = created
    BY DEF Off
  <2>2. Goes(Fresh, q) /\ ckpt = NoCheckpoint
    BY <1>2 DEF StartFresh, FilesInv
  <2>3. ckpt' = IF created THEN [NoCheckpoint EXCEPT !.status = "open"] ELSE ckpt
    BY <1>2 DEF StartFresh
  <2> HIDE DEF q
  <2>4. /\ ckpt'.item = ckpt.item
        /\ ckpt'.status = "none" => ckpt' = NoCheckpoint /\ ~created
    BY <2>2, <2>3 DEF NoCheckpoint
  <2>5. proc'[Fresh] = q /\ \A v \in Run \ {Fresh} : proc'[v] = proc[v]
    BY <2>2, FreshAssumption DEF RunTypeOK, Goes
  <2>6. \A v \in Run : FileOK(proc'[v], ckpt')
    BY <2>1, <2>2, <2>4, <2>5 DEF FilesInv, FileOK, NoCheckpoint
  <2>7. KeptInv'
    BY <1>1, <2>1, <2>4, <2>5
  <2> QED BY <2>4, <2>6, <2>7 DEF FilesInv
<1>3. ASSUME EndFresh
      PROVE  FilesInv' /\ KeptInv' /\ ckpt'.item = ckpt.item
  <2>1. ckpt' = ckpt /\ \A w \in Run : proc'[w] = proc[w] \/ proc'[w].pc = "off"
    BY <1>3 DEF EndFresh, Goes, RunTypeOK, Off
  <2>2. KeptInv'
    BY <1>1, <2>1
  <2> QED BY <2>1, <2>2 DEF FilesInv, FileOK
<1>4. ASSUME NEW w \in Run, StartResume(w)
      PROVE  FilesInv' /\ KeptInv' /\ ckpt'.item = ckpt.item
  <2> DEFINE q == [Off(noExit) EXCEPT !.pc = "lease", !.snap = ckpt.item, !.saving = TRUE]
  <2>1. q.pc = "lease"
    BY DEF Off
  <2>2. Goes(w, q) /\ ckpt' = ckpt /\ ckpt.status # "none"
    BY <1>4 DEF StartResume
  <2> HIDE DEF q
  <2>3. \A v \in Run : proc'[v] = IF v = w THEN q ELSE proc[v]
    BY <2>2 DEF Goes, RunTypeOK
  <2>4. KeptInv'
    BY <1>1, <2>1, <2>2, <2>3
  <2> QED BY <2>2, <2>4 DEF FilesInv, FileOK
<1>5. ASSUME UNCHANGED allVars \/ Environment \/ \E died \in Pid : Dies(died)
      PROVE  FilesInv' /\ KeptInv' /\ ckpt'.item = ckpt.item
  <2>1. ckpt' = ckpt /\ \A w \in Run : proc'[w] \in {proc[w], Off(noExit)}
    BY <1>5 DEF allVars, runVars, Environment, Dies, RunTypeOK
  <2>2. Off(noExit).pc = "off"
    BY DEF Off
  <2>3. KeptInv'
    BY <1>1, <2>1, <2>2
  <2>4. \A w \in Run : FileOK(proc'[w], ckpt')
    BY <2>1, <2>2 DEF FilesInv, FileOK
  <2> QED BY <2>1, <2>3, <2>4 DEF FilesInv
<1> QED BY <1>2, <1>3, <1>4, <1>5

LEMMA KeptInit == RunInit => FilesInv /\ KeptInv
<1>1. Off(noExit).pc = "off"
  BY DEF Off
<1> QED BY <1>1 DEF RunInit, FilesInv, FileOK, KeptInv, Undoing

\* What the steps of a run do to an item that is done.
LEMMA DoneItemMove ==
  ASSUME RunTypeOK, ExitInv, KeptInv, \A k \in Key : InContract(k)' => InContract(k),
         NEW w \in Run, NEW q \in Proc, Moves(w, proc[w], q),
         NEW i \in Item \ Outdated, ckpt.item[i].status = "done", InContract(KeyOf[i])'
  PROVE  ckpt'.item[i] \in {ckpt.item[i], DoneAs(TRUE)}
<1>1. CASE ~Writes(proc[w], q)
  BY <1>1 DEF Moves
<1>2. CASE Writes(proc[w], q) /\ i = proc[w].item
  <2>1. InContract(KeyOf[i])
    BY KeyOfAssumption
  <2>2. proc[w].new = DoneAs(TRUE)
    BY <1>2, <2>1 DEF KeptInv, Undoing, Writes
  <2> QED BY <1>2, <2>2, WrittenFile
<1>3. CASE Writes(proc[w], q) /\ i # proc[w].item
  BY <1>3, WrittenFile
<1> QED BY <1>1, <1>2, <1>3

LEMMA KeptNext ==
  ASSUME ~Overlap, TypeOK, FlightInv, RepublishableIsNotLive, DoneItemIsLive,
         RunTypeOK, ExitInv, FilesInv, KeptInv, [RunNext]_allVars
  PROVE  /\ FilesInv' /\ KeptInv'
         /\ \A i \in Item \ Outdated :
              ckpt.item[i].status = "done" /\ InContract(KeyOf[i])' =>
                ckpt'.item[i] \in {ckpt.item[i], DoneAs(TRUE)}
<1>1. \A k \in Key : InContract(k)' => InContract(k)
  BY NextRefines, ContractStep
<1>2. ASSUME NEW w \in Run, PostLands(w) \/ Progress(w)
      PROVE  /\ FilesInv' /\ KeptInv'
             /\ \A i \in Item \ Outdated :
                  ckpt.item[i].status = "done" /\ InContract(KeyOf[i])' =>
                    ckpt'.item[i] \in {ckpt.item[i], DoneAs(TRUE)}
  <2>1. PICK q \in Proc : Goes(w, q) /\ Moves(w, proc[w], q)
    BY <1>2, Moving
  <2>2. FilesInv' /\ KeptInv'
    BY <1>1, <2>1, FilesMove, KeptMove
  <2> QED BY <1>1, <2>1, <2>2, DoneItemMove
<1>3. ASSUME \/ \E created \in BOOLEAN : StartFresh(created)
             \/ EndFresh
             \/ \E w \in Run : StartResume(w)
             \/ UNCHANGED allVars \/ Environment
             \/ \E died \in Pid : Dies(died)
      PROVE  FilesInv' /\ KeptInv' /\ ckpt'.item = ckpt.item
  BY <1>1, <1>3, KeptStarts
<1> QED BY <1>2, <1>3 DEF RunNext

\* An item that is done stays done in contract, for any number of runs, of items
\* and of rows that share a key, as long as the leases keep the runs apart: only a
\* run that dispatches it, or re-validates it, has anything else to write, and the
\* gate dispatches no key that is published.
THEOREM DoneItemsStayDone ==
  ASSUME ~Overlap
  PROVE  RunSpec => DoneItemStaysDone
<1>1. RunSpec => [](TypeOK /\ FlightInv /\ RepublishableIsNotLive /\ RunTypeOK)
  BY RunsImplementDedup, TypeCorrect, FlightCorrect, RepublishSafe, RunTypeCorrect, PTL
<1>2. TypeOK /\ RunTypeOK /\ ExitInv /\ [RunNext]_allVars => ExitInv'
  BY ExitNext
<1>3. /\ TypeOK /\ FlightInv /\ RepublishableIsNotLive /\ DoneItemIsLive /\ RunTypeOK
      /\ ExitInv /\ FilesInv /\ KeptInv /\ [RunNext]_allVars
      => FilesInv' /\ KeptInv'
  BY KeptNext
<1>4. /\ TypeOK /\ FlightInv /\ RepublishableIsNotLive /\ DoneItemIsLive /\ RunTypeOK
      /\ ExitInv /\ FilesInv /\ KeptInv /\ [RunNext]_allVars
      => [\A i \in Item \ Outdated :
            ckpt.item[i].status = "done" /\ InContract(KeyOf[i])' =>
              ckpt'.item[i] \in {ckpt.item[i], DoneAs(TRUE)}]_allVars
  BY KeptNext
<1> QED
  BY <1>1, <1>2, <1>3, <1>4, ExitInit, KeptInit, CheckpointTruthful, PTL
  DEF RunSpec, DoneItemStaysDone

=============================================================================
