------------------------------ MODULE PublishRun ------------------------------
(***************************************************************************)
(* A publish run from its first row to its exit code, its checkpoint, and  *)
(* the runs that resume it: publish_rows and the row loop of               *)
(* cli/publish_backlinks/_engine.py, checkpoint.py, and cli/_resume.py.    *)
(*                                                                         *)
(* What a run does to the dedup store and on the platform are the actions  *)
(* of PublishDedup: every step below is one of them, or leaves its         *)
(* variables alone.                                                        *)
(*                                                                         *)
(* One checkpoint is modelled: the run Fresh makes it, the other runs      *)
(* resume it.  The leases of their common platforms keep two runs apart;   *)
(* with Overlap they do not, as after the hour a lease lives               *)
(* (PublishLease).                                                         *)
(***************************************************************************)
EXTENDS PublishDedup, Sequences

CONSTANTS
  Fresh,     \* the run that makes the checkpoint
  Item,      \* items of the checkpoint, numbered in the order of the rows
  NoItem,
  KeyOf,     \* the key of an item: two items may share it
  Overlap,   \* runs overlap: a lease was lost
  Outdated,  \* items that may fail the validation of a later day
  Verdicts   \* verdicts of the verification after a publish

ASSUME FreshAssumption == Fresh \in Run
ASSUME ItemAssumption == Item \subseteq Nat /\ NoItem \notin Item
ASSUME KeyOfAssumption == KeyOf \in [Item -> Key]
ASSUME OverlapAssumption == Overlap \in BOOLEAN
ASSUME OutdatedAssumption == Outdated \subseteq Item
ASSUME VerdictAssumption == Verdicts \subseteq BOOLEAN

VARIABLES
  ckpt,        \* the checkpoint file
  proc,        \* where each run is in its program
  unverified   \* history: items whose publish did not pass the verification

runVars == <<ckpt, proc, unverified>>
allVars == <<vars, runVars>>

\* retro stands for the RETRO_ classes; error for all those that a resume tries
\* again.
ItemClass == {"none", "error", "policy_skip", "retro"}

ItemState == [status : {"pending", "done", "failed"}, class : ItemClass, verified : BOOLEAN]

Pending == [status |-> "pending", class |-> "none", verified |-> TRUE]
DoneAs(verified) == [status |-> "done", class |-> "none", verified |-> verified]
FailedAs(class) == [status |-> "failed", class |-> class, verified |-> TRUE]

Checkpoint == [status : {"none", "open", "complete"}, item : [Item -> ItemState]]

NoCheckpoint == [status |-> "none", item |-> [i \in Item |-> Pending]]

PC == {"off", "lease", "scan", "row", "call", "settle", "load", "save"}

\* noExit: the run goes on, or its process died.  uncaught: an exception ended it.
noExit == 100
uncaught == 101
ExitCode == {noExit, uncaught, 0, 1, 3, 4, 5}

\* What may follow a step, in the order the code has it.
Steps == {<<>>, <<"row">>, <<"scan">>, <<"exit">>,
          <<"load", "row">>, <<"load", "exit">>, <<"settle", "row">>}

Proc ==
  [pc : PC, todo : SUBSET Item, item : Item \cup {NoItem}, new : ItemState,
   next : Steps, code : ExitCode, snap : [Item -> ItemState],
   file : Checkpoint, saving : BOOLEAN,
   seen : SUBSET {"ok", "unverified", "held", "failed"}]

\* todo: items still to go through.  item, new: the item in hand and what the
\* checkpoint is to say of it; NoItem marks the checkpoint complete.  next: the
\* steps that follow, code: the exit code when the last is "exit".  snap: the
\* items a resume loaded.  file: the checkpoint as a write read it.  saving:
\* run_id is not None.  seen: what happened to the rows, for the exit code.
Off(code) ==
  [pc |-> "off", todo |-> {}, item |-> NoItem, new |-> Pending, next |-> <<>>,
   code |-> code, snap |-> NoCheckpoint.item, file |-> NoCheckpoint,
   saving |-> FALSE, seen |-> {}]

RunInit ==
  /\ Init
  /\ ckpt = NoCheckpoint
  /\ proc = [w \in Run |-> Off(noExit)]
  /\ unverified = {}

-----------------------------------------------------------------------------

First(S) == CHOOSE i \in S : \A other \in S : i <= other

\* The program of a run goes on with its next step, and has nothing in hand when
\* it is back in a loop.
Continue(p) ==
  LET q == [p EXCEPT !.pc = Head(p.next), !.next = Tail(p.next)] IN
  CASE Head(p.next) = "exit" -> Off(p.code)
    [] Head(p.next) \in {"scan", "row"} ->
         [q EXCEPT !.item = NoItem, !.new = Pending, !.file = NoCheckpoint]
    [] OTHER -> q

Goes(w, p) == proc' = [proc EXCEPT ![w] = p]

\* The settle of the dedup row and the write of the checkpoint that follow an
\* answer, in the order the code has them.
Then(p, steps, new) ==
  [p EXCEPT !.pc = Head(steps), !.next = Tail(steps), !.new = new]

Unfinished(item) == item.status \in {"pending", "failed"}

\* _select_resume_items.
Resumable(item) == Unfinished(item) /\ item.class \notin {"retro", "policy_skip"}

-----------------------------------------------------------------------------
(***************************************************************************)
(* The start of a run.                                                     *)
(***************************************************************************)

MayStart(w) == CanStart(w) /\ proc[w].pc = "off"

\* _acquire_publish_leases, for platforms that the runs have in common.
LeasesFree(w) == Overlap \/ \A other \in Run \ {w} : proc[other].pc \in {"off", "lease"}

\* publish_rows; a checkpoint that cannot be created does not stop it.
StartFresh(created) ==
  /\ MayStart(Fresh) /\ LeasesFree(Fresh) /\ ckpt.status = "none"
  /\ ckpt' = IF created THEN [NoCheckpoint EXCEPT !.status = "open"] ELSE ckpt
  /\ Goes(Fresh, [Off(noExit) EXCEPT !.pc = "row", !.todo = Item, !.saving = created])
  /\ UNCHANGED <<vars, unverified>>

\* _run_resume loads the checkpoint before it has its leases.
StartResume(w) ==
  /\ w # Fresh /\ MayStart(w) /\ ckpt.status # "none"
  /\ Goes(w, [Off(noExit) EXCEPT !.pc = "lease", !.snap = ckpt.item, !.saving = TRUE])
  /\ UNCHANGED <<vars, ckpt, unverified>>

TakeLeases(w) ==
  LET p == proc[w] IN
  /\ p.pc = "lease" /\ LeasesFree(w)
  /\ Goes(w, [p EXCEPT !.pc = "scan",
              !.todo = {i \in Item : Unfinished(p.snap[i]) /\ p.snap[i].class # "retro"}])
  /\ UNCHANGED <<vars, ckpt, unverified>>

\* The leases of another run, or an adapter that is not set up.
Refused(w) ==
  /\ proc[w].pc = "lease"
  /\ Goes(w, Off(3))
  /\ UNCHANGED <<vars, ckpt, unverified>>

\* _revalidate_checkpoint_items, one item.
Revalidate(w, outdated) ==
  LET p == proc[w]
      i == First(p.todo)
      q == [p EXCEPT !.todo = @ \ {i}] IN
  /\ p.pc = "scan" /\ p.todo # {}
  /\ outdated => i \in Outdated
  /\ Goes(w, IF outdated
               THEN [Then(q, <<"load", "scan">>, FailedAs("retro")) EXCEPT
                       !.item = i, !.snap[i] = FailedAs("retro")]
               ELSE q)
  /\ UNCHANGED <<vars, ckpt, unverified>>

\* mark_complete, then exit.
Completing(p, code) ==
  [Then(p, <<"load", "exit">>, Pending) EXCEPT !.item = NoItem, !.code = code]

\* _select_resume_items, and _emit_noop_resume when nothing is left to do.
Select(w) ==
  LET p == proc[w]
      todo == {i \in Item : Resumable(p.snap[i])} IN
  /\ p.pc = "scan" /\ p.todo = {}
  /\ Goes(w, IF todo = {} THEN Completing(p, 0)
             ELSE [p EXCEPT !.pc = "row", !.todo = todo, !.snap = NoCheckpoint.item])
  /\ UNCHANGED <<vars, ckpt, unverified>>

-----------------------------------------------------------------------------
(***************************************************************************)
(* The gates of a row.                                                     *)
(***************************************************************************)

\* The next row, its key, and the run without it.
ThisRow(w) == First(proc[w].todo)
AtRow(w) == proc[w].pc = "row" /\ proc[w].todo # {}

\* A resume takes its exit code from the checkpoint, and remembers only what was
\* not verified.
Noting(w, what) ==
  [proc[w] EXCEPT !.seen = @ \cup IF w = Fresh THEN what ELSE what \cap {"unverified"}]

Passing(w, what) == [Noting(w, what) EXCEPT !.todo = @ \ {ThisRow(w)}]

\* The canary gate counts the row; the reachability gate and an unsupported
\* platform put a failure into the outputs.  The checkpoint is not told.
PassOver(w, what) ==
  /\ w = Fresh /\ AtRow(w)
  /\ Goes(w, Passing(w, what))
  /\ UNCHANGED <<vars, ckpt, unverified>>

\* _check_token_drift aborts the run.
Drift(w) ==
  /\ AtRow(w)
  /\ Goes(w, Off(3))
  /\ UNCHANGED <<vars, ckpt, unverified>>

\* Variant: a held row is dispatched.
AfterGate_HoldDispatches(w, verdict) ==
  LET i == ThisRow(w) IN
  CASE verdict \in {"dispatch", "hold"} -> [Passing(w, {}) EXCEPT !.pc = "call", !.item = i]
    [] verdict = "conflict" -> Off(1)
    [] verdict = "skip" /\ w = Fresh -> Passing(w, {"ok"})
    [] OTHER                -> [Then(Passing(w, {}), <<"load", "row">>, DoneAs(TRUE))
                                  EXCEPT !.item = i]

\* Variant: a resume records a held row as failed.
AfterGate_HoldFails(w, verdict) ==
  LET i == ThisRow(w) IN
  CASE verdict = "dispatch" -> [Passing(w, {}) EXCEPT !.pc = "call", !.item = i]
    [] verdict = "conflict" -> Off(1)
    [] w = Fresh            -> Passing(w, {IF verdict = "hold" THEN "held" ELSE "ok"})
    [] OTHER -> [Then(Passing(w, {}), <<"load", "row">>,
                      IF verdict = "hold" THEN FailedAs("error") ELSE DoneAs(TRUE))
                   EXCEPT !.item = i]

\* Variant: a skipped row stays pending.
AfterGate_SkipKeepsPending(w, verdict) ==
  CASE verdict = "dispatch" -> [Passing(w, {}) EXCEPT !.pc = "call", !.item = ThisRow(w)]
    [] verdict = "hold"     -> Passing(w, {"held"})
    [] verdict = "conflict" -> Off(1)
    [] verdict = "skip"     -> Passing(w, {"ok"})

\* The verdict: a resume records a skipped row as done and verified.
AfterGate(w, verdict) ==
  LET i == ThisRow(w) IN
  CASE verdict = "dispatch" -> [Passing(w, {}) EXCEPT !.pc = "call", !.item = i]
    [] verdict = "hold"     -> Passing(w, {"held"})
    [] verdict = "conflict" -> Off(1)
    [] verdict = "skip" /\ w = Fresh -> Passing(w, {"ok"})
    [] OTHER                -> [Then(Passing(w, {}), <<"load", "row">>, DoneAs(TRUE))
                                  EXCEPT !.item = i]

\* gate_with_force in the fresh run, gate in a resume.
PassGate(w, force) ==
  LET k == KeyOf[ThisRow(w)] IN
  /\ AtRow(w)
  /\ force => w = Fresh
  /\ \/ GateEnforce(w, k, force) /\ Goes(w, AfterGate(w, GateVerdict(row[k], force, up)))
     \/ GateObserve(w, k) /\ Goes(w, AfterGate(w, "dispatch"))
     \/ GateFault(w, k) /\ Goes(w, AfterGate(w, "dispatch"))
  /\ UNCHANGED <<ckpt, unverified>>

\* gate: the store raises in enforce mode.
GateHolds(w) ==
  /\ AtRow(w) /\ GateFaultVerdict(w) = "hold"
  /\ Goes(w, AfterGate(w, "hold"))
  /\ UNCHANGED <<vars, ckpt, unverified>>

-----------------------------------------------------------------------------
(***************************************************************************)
(* The answer of the adapter, and what follows from it.                    *)
(***************************************************************************)

PostLands(w) == proc[w].pc = "call" /\ Land(w) /\ UNCHANGED runVars

\* A result without an error: record_done, then the checkpoint.
Published(w, verified) ==
  LET what == IF verified THEN {"ok"} ELSE {"ok", "unverified"} IN
  /\ proc[w].pc = "call" /\ Succeed(w)
  /\ Goes(w, Then(Noting(w, what), <<"settle", "load", "row">>, DoneAs(verified)))
  /\ unverified' = IF verified THEN unverified ELSE unverified \cup {proc[w].item}
  /\ UNCHANGED ckpt

\* Variant: an in-band error is recorded as any other result.
InBandRecord_Done(class) == DoneAs(TRUE)

\* A result with an error: the item failed.  A policy skip never called the
\* adapter.
InBandRecord(class) == FailedAs(class)

InBand(w, class) ==
  /\ proc[w].pc = "call" /\ Fail(w, "other")
  /\ class = "policy_skip" => ~job[w].sent
  /\ Goes(w, Then(Noting(w, {"failed"}), <<"settle", "load", "row">>, InBandRecord(class)))
  /\ UNCHANGED <<ckpt, unverified>>

\* An error that is raised: _record_publish_failure and _record_resume_failure
\* write the checkpoint first.
Raised(w, error_class) ==
  /\ proc[w].pc = "call" /\ Fail(w, error_class)
  /\ Goes(w, Then(Noting(w, {"failed"}), <<"load", "settle", "row">>, FailedAs("error")))
  /\ UNCHANGED <<ckpt, unverified>>

\* AuthExpiredError and DependencyError end the run with exit code 3; a
\* dependency error leaves the item as it is.
Aborts(w, auth) ==
  /\ proc[w].pc = "call" /\ Fail(w, "other")
  /\ Goes(w, [Then(proc[w], IF auth THEN <<"settle", "load", "exit">> ELSE <<"settle", "exit">>,
                   FailedAs("error")) EXCEPT !.code = 3])
  /\ UNCHANGED <<ckpt, unverified>>

\* _record_terminal; what the store raises is swallowed.
Settle(w) ==
  LET done == job'[w] = Idle IN
  /\ proc[w].pc = "settle"
  /\ SettleRead(w) \/ SettleWrite(w) \/ Abandon(w)
  /\ IF done THEN Goes(w, Continue(proc[w])) ELSE UNCHANGED proc
  /\ UNCHANGED <<ckpt, unverified>>

-----------------------------------------------------------------------------
(***************************************************************************)
(* The writes of the checkpoint: update_item and mark_complete read the    *)
(* file, change it and replace it, under a lock of the process only.       *)
(***************************************************************************)

LoadCheckpoint(w) ==
  LET p == proc[w] IN
  /\ p.pc = "load"
  /\ Goes(w, IF p.saving THEN [p EXCEPT !.pc = "save", !.file = ckpt] ELSE Continue(p))
  /\ UNCHANGED <<vars, ckpt, unverified>>

\* update_item on what it read: verified is no field that it resets.
Updated(file, i, new) ==
  [file EXCEPT !.item[i] =
     [new EXCEPT !.verified = IF new.status = "done" THEN @ ELSE file.item[i].verified]]

SaveCheckpoint(w) ==
  LET p == proc[w] IN
  /\ p.pc = "save"
  /\ ckpt' = IF p.item = NoItem THEN [p.file EXCEPT !.status = "complete"]
             ELSE Updated(p.file, p.item, p.new)
  /\ Goes(w, Continue([p EXCEPT !.file = NoCheckpoint]))
  /\ UNCHANGED <<vars, unverified>>

\* Variant: every run goes on after a failed write.
CheckpointFails_InEveryRun(w) ==
  /\ proc[w].pc = "save"
  /\ Goes(w, Continue([proc[w] EXCEPT !.file = NoCheckpoint, !.saving = FALSE]))
  /\ UNCHANGED <<vars, ckpt, unverified>>

\* The read or the write raises.  A fresh run goes on without its checkpoint, and
\* an abort for expired credentials goes on as well.
CheckpointFails(w) ==
  LET p == proc[w] IN
  /\ p.pc = "save"
  /\ w = Fresh \/ p.code = 3
  /\ Goes(w, Continue([p EXCEPT !.file = NoCheckpoint, !.saving = FALSE]))
  /\ UNCHANGED <<vars, ckpt, unverified>>

\* An exception escapes: from the audit append of a force or the verification,
\* and in a resume from a write of the checkpoint.
Escapes(w) ==
  LET p == proc[w] IN
  /\ \/ p.pc = "call"
     \/ p.pc = "save" /\ w # Fresh /\ p.code # 3
  /\ Abandon(w) \/ (job[w] = Idle /\ UNCHANGED vars)
  /\ Goes(w, Off(uncaught))
  /\ UNCHANGED <<ckpt, unverified>>

-----------------------------------------------------------------------------
(***************************************************************************)
(* The end of a run.                                                       *)
(***************************************************************************)

\* _decide_publish_exit.
FreshExit(seen) ==
  IF "failed" \in seen THEN 4
  ELSE IF "ok" \notin seen THEN (IF "held" \in seen THEN 3 ELSE 5)
  ELSE IF "unverified" \in seen THEN 5 ELSE 0

RowsDone(w) == proc[w].pc = "row" /\ proc[w].todo = {}

EndFresh ==
  /\ RowsDone(Fresh)
  /\ Goes(Fresh, Off(FreshExit(proc[Fresh].seen)))
  /\ UNCHANGED <<vars, ckpt, unverified>>

\* Variant: a failed item does not keep the run open.
Finished_IgnoresFailed(items) == \A i \in Item : items[i].status # "pending"

Finished(items) == \A i \in Item : ~Unfinished(items[i])

\* _finalize_resume, on the checkpoint it loads again.
EndResume(w) ==
  LET p == proc[w] IN
  /\ w # Fresh /\ RowsDone(w)
  /\ Goes(w, IF Finished(ckpt.item)
               THEN Completing(p, IF "unverified" \in p.seen THEN 5 ELSE 0)
               ELSE Off(4))
  /\ UNCHANGED <<vars, ckpt, unverified>>

-----------------------------------------------------------------------------

\* The process of a run dies.
Dies(p) ==
  /\ Crash(p)
  /\ proc' = [w \in Run |-> IF PidOf[w] = p THEN Off(noExit) ELSE proc[w]]
  /\ UNCHANGED <<ckpt, unverified>>

Environment ==
  /\ \/ \E p \in Pid : Restart(p)
     \/ \E k \in Key : Age(k) \/ OperatorStep(k)
  /\ UNCHANGED runVars

Progress(w) ==
  \/ TakeLeases(w) \/ Refused(w)
  \/ \E outdated \in BOOLEAN : Revalidate(w, outdated)
  \/ Select(w)
  \/ \E what \in {{}, {"failed"}} : PassOver(w, what)
  \/ Drift(w)
  \/ \E force \in BOOLEAN : PassGate(w, force)
  \/ GateHolds(w)
  \/ \E verified \in Verdicts : Published(w, verified)
  \/ \E class \in {"error", "policy_skip"} : InBand(w, class)
  \/ \E error_class \in ErrorClass : Raised(w, error_class)
  \/ \E auth \in BOOLEAN : Aborts(w, auth)
  \/ Settle(w)
  \/ LoadCheckpoint(w) \/ SaveCheckpoint(w) \/ CheckpointFails(w) \/ Escapes(w)
  \/ EndResume(w)

RunNext ==
  \/ \E created \in BOOLEAN : StartFresh(created)
  \/ EndFresh
  \/ \E w \in Run : StartResume(w) \/ PostLands(w) \/ Progress(w)
  \/ \E p \in Pid : Dies(p)
  \/ Environment

RunSpec == RunInit /\ [][RunNext]_allVars

\* Every run goes on, the operator resumes and adjudicates, and no fault strikes
\* every time: a platform that is tried again and again takes the post, and a
\* write that is tried again and again succeeds.
RunFairness ==
  /\ WF_allVars(EndFresh)
  /\ \A w \in Run :
       WF_allVars(Progress(w)) /\ WF_allVars(StartResume(w))
  /\ \A w \in Run \ {Fresh} :
       /\ SF_allVars(TakeLeases(w)) /\ SF_allVars(PassGate(w, FALSE))
       /\ SF_allVars(PostLands(w)) /\ SF_allVars(Published(w, TRUE))
       /\ SF_allVars(SaveCheckpoint(w))
  /\ \A p \in Pid : WF_allVars(Restart(p) /\ UNCHANGED runVars)
  /\ \A k \in Key :
       WF_allVars((Age(k) \/ \E outcome \in Outcome : Adjudicate(k, outcome)) /\ UNCHANGED runVars)

RunFairSpec == RunSpec /\ RunFairness

-----------------------------------------------------------------------------

\* Where a run is and what it has in flight: a run in the adapter or settling is
\* the run PublishDedup has in flight, for the key of its item, and only the
\* checkpoint of a raised error is written before the settle.
PlaceOK(p, j) ==
  /\ p.pc \in {"off", "lease", "scan", "row"} => p.next = <<>> /\ j = Idle
  /\ p.pc = "call" =>
       p.next = <<>> /\ p.item \in Item /\ j.phase = "dispatch" /\ j.key = KeyOf[p.item]
  /\ p.pc = "settle" =>
       /\ p.next \in {<<"row">>, <<"exit">>, <<"load", "row">>, <<"load", "exit">>}
       /\ j.phase \in {"settle", "write"}
  /\ p.pc \in {"load", "save"} =>
       \/ p.next \in {<<"row">>, <<"scan">>, <<"exit">>} /\ j = Idle
       \/ p.next = <<"settle", "row">> /\ j.phase = "settle"

\* Types, and what is in flight is where PublishDedup has it.
RunTypeOK ==
  /\ ckpt \in Checkpoint
  /\ unverified \subseteq Item
  /\ proc \in [Run -> Proc]
  /\ \A w \in Run : PlaceOK(proc[w], job[w])

\* The checkpoint tells the truth about what it calls done, whoever published
\* the item: a run that was killed after its settle, another row with the same
\* key, or an operator's adjudication.
DoneItemIsLive ==
  \A i \in Item : ckpt.item[i].status = "done" /\ clean[KeyOf[i]] => posts[KeyOf[i]] > 0

\* A run is marked complete only when a resume would find nothing to do
\* (_emit_noop_resume, _finalize_resume), whatever died in between: with one resume
\* at a time.  A second one that loaded the checkpoint before the first completed
\* it has a snapshot that still says otherwise, and publishes from it.
CompleteMeansSettled ==
  ckpt.status = "complete" => \A i \in Item : ~Resumable(ckpt.item[i])

\* The exit code 0 of a resume is final: its checkpoint is complete, although the
\* write that completes it may fail, and no run that goes on opens it again.
ExitZeroMeansComplete ==
  \A w \in Run \ {Fresh} : proc[w].code = 0 /\ proc[w].pc = "off" => ckpt.status = "complete"

\* An item that is done stays done, in contract: no late failure takes it back, nor
\* a resume that loaded the checkpoint before it was; a resume that finds it
\* published may only call it verified.  The exception are items that the
\* re-validation rejects: it writes over what it has not read again.
DoneItemStaysDone ==
  [][\A i \in Item \ Outdated :
       ckpt.item[i].status = "done" /\ InContract(KeyOf[i])' =>
         ckpt'.item[i] \in {ckpt.item[i], DoneAs(TRUE)}]_allVars

\* Resumed as often as it takes, with its held rows adjudicated, a run becomes
\* complete, unless processes die for ever or a key leaves the contract.
RunCompletes ==
  [](\A k \in Key : clean[k]) /\ <>[](\A p \in Pid : up[p]) =>
    (ckpt.status = "open" ~> ckpt.status = "complete")

=============================================================================
