---------------------------- MODULE EventProjection ----------------------------
(***************************************************************************)
(* How the outcomes of publish runs reach the event log: the checkpoints   *)
(* of the runs, flush_for, which diffs a checkpoint with the projection    *)
(* cursor and emits what is new (events/projector.py,                      *)
(* events/_project_reducers.py), its callers, the end of a publish or of a *)
(* resume and the dashboard (events/reconcile.py), and the reconciler that *)
(* settles unfinished items from the dedup store (events/reconciler.py).   *)
(*                                                                         *)
(* A flush reads the file, then the cursor, and then writes: sqlite's      *)
(* legacy mode opens the transaction of store.connect() at the first       *)
(* INSERT, so another process may write between any two of the three, and  *)
(* the writes commit together or not at all.                               *)
(*                                                                         *)
(* update_item reads a whole checkpoint, changes one row and writes it     *)
(* back.  Its lock is one of a process (checkpoint._lock), so a run and a  *)
(* reconciler that another process runs undo each other's rows.            *)
(*                                                                         *)
(* A publish run is what PublishRun says of it, in fewer steps: here an    *)
(* item is settled in the dedup store, and then in the checkpoint.         *)
(***************************************************************************)
EXTENDS Integers

CONSTANTS
  Run,         \* checkpoints
  Item,        \* rows of all the checkpoints, in the order of their files
  RunOf,       \* the run an item is a row of
  Target,      \* targets on a platform: the keys of the dedup store
  TargetOf,    \* the target of an item
  Live,        \* URLs of published posts
  NoUrl, NoTarget, NoItem, NoRun, NoClaim,
  Barred,      \* items that the policy may skip
  Dashboard,   \* the process that serves the dashboard
  Reconciler,  \* processes that reconcile, each once
  MaxResumes   \* bound on the resumes of a run

ASSUME ItemAssumption == Item \subseteq Nat
ASSUME BarredAssumption == Barred \subseteq Item
ASSUME RunOfAssumption == RunOf \in [Item -> Run]
ASSUME TargetOfAssumption == TargetOf \in [Item -> Target]
ASSUME OutsidersAssumption ==
  /\ NoUrl \notin Live /\ NoTarget \notin Target /\ NoItem \notin Item
  /\ NoRun \notin Run /\ Dashboard \notin Run
ASSUME ResumesAssumption == MaxResumes \in Nat

VARIABLES
  file,      \* the rows of the checkpoints
  cursor,    \* projection_cursor: what each item was when it was projected
  articles,  \* articles.live_url
  log,       \* the events
  proc,      \* the runs' processes and the dashboard's
  resumes,   \* resumes of each run so far
  posts,     \* the posts on the platforms, and the target each is for
  settled,   \* targets with a done record in the dedup store
  recon,     \* the reconcilers
  sent,      \* history: the items a run published, each with the URL it got
  lost,      \* history: of these, those whose record is lost
  skipped    \* history: the items that the policy skipped

vars == <<file, cursor, articles, log, proc, resumes, posts, settled, recon, sent, lost, skipped>>

\* policy_skip is the error class of a failed item.
ItemState == [status : {"pending", "done", "failed", "policy_skip"}, url : Live \cup {NoUrl}]

Pending == [status |-> "pending", url |-> NoUrl]
DoneAt(url) == [status |-> "done", url |-> url]
Failed(class) == [status |-> class, url |-> NoUrl]

Unfinished(s) == s.status # "done"

\* What the cursor keeps of an item: its status and its URL, not its class.
Claim(s) == IF s.status = "policy_skip" THEN Failed("failed") ELSE s

ASSUME NoClaimAssumption == NoClaim \notin ItemState

Claims == {Claim(s) : s \in ItemState} \cup {NoClaim}

Process == Run \cup {Dashboard}

\* none: a run without a checkpoint.  going: its items are published.  save: the
\* run writes back what it read of its checkpoint.  load, write: the steps of a
\* flush.  projected: the flush of the run's end committed.  mark: mark_complete.
\* over: the run ended without a flush, or after its mark.  idle: no load of the
\* dashboard is served.  source: a load goes on with its next checkpoint.
PC == {"none", "going", "save", "source", "load", "write", "projected", "mark", "over", "idle"}

\* todo: the sources a load has still to flush.  left: the items a run has still to
\* take up.  item, row: an outcome that the checkpoint is not told of yet.  seen:
\* the rows last read.  prior: the cursor a flush loaded.
ProcState ==
  [pc : PC, todo : SUBSET Run, run : Run \cup {NoRun}, left : SUBSET Item,
   item : Item \cup {NoItem}, row : ItemState, seen : [Item -> ItemState],
   prior : [Item -> Claims]]

NoCursor == [i \in Item |-> NoClaim]

NoRows == [i \in Item |-> Pending]

At(pc) ==
  [pc |-> pc, todo |-> {}, run |-> NoRun, left |-> {}, item |-> NoItem, row |-> Pending,
   seen |-> NoRows, prior |-> NoCursor]

\* idle: before its pass.  matched: the items of todo have a done record each.  fix:
\* item is settled in the rows that were read.  over: after its pass.
ReconState ==
  [pc : {"idle", "matched", "fix", "over"}, todo : SUBSET Item, item : Item \cup {NoItem},
   seen : [Item -> ItemState]]

Pass(pc, todo) == [pc |-> pc, todo |-> todo, item |-> NoItem, seen |-> NoRows]

Init ==
  /\ file = [i \in Item |-> Pending]
  /\ cursor = [r \in Run |-> NoCursor]
  /\ articles = {}
  /\ log = [confirmed |-> [u \in Live |-> 0], blank |-> {}, failed |-> {}, intent |-> {}]
  /\ proc = [p \in Process |-> At(IF p = Dashboard THEN "idle" ELSE "none")]
  /\ resumes = [r \in Run |-> 0]
  /\ posts = [u \in Live |-> NoTarget]
  /\ settled = {}
  /\ recon = [c \in Reconciler |-> Pass("idle", {})]
  /\ sent = {} /\ lost = {} /\ skipped = {}

Rows(r) == {i \in Item : RunOf[i] = r}

Exists(r) == proc[r].pc # "none"

HasCursor(r) == cursor[r] # NoCursor

logged == <<cursor, articles, log>>
published == <<posts, settled>>
history == <<sent, lost, skipped>>

\* The rows of a run as its file has them.
RowsNow(r) == [i \in Item |-> IF RunOf[i] = r THEN file[i] ELSE Pending]

\* The checkpoint of a run is written whole.  A row that had a post and does not
\* have it any more is the record of the post that is lost.
Write(r, rows) ==
  /\ file' = [i \in Item |-> IF RunOf[i] = r THEN rows[i] ELSE file[i]]
  /\ lost' = lost \cup {s \in sent : RunOf[s[1]] = r /\ file[s[1]] = DoneAt(s[2])
                                     /\ rows[s[1]] # DoneAt(s[2])}
  /\ UNCHANGED <<sent, skipped>>

-----------------------------------------------------------------------------
(***************************************************************************)
(* A run publishes.                                                        *)
(***************************************************************************)

\* create_checkpoint.
Create(r) ==
  /\ proc[r].pc = "none"
  /\ proc' = [proc EXCEPT ![r] = [At("going") EXCEPT !.left = Rows(r)]]
  /\ UNCHANGED <<file, logged, resumes, published, recon, history>>

\* A resume, of a run that left items or that has nothing left to do: it takes up
\* what its checkpoint has as pending or failed and not as a skip of the policy.
Resume(r) ==
  LET left == {i \in Rows(r) : file[i].status \in {"pending", "failed"}} IN
  /\ proc[r].pc \in {"over", "projected"}
  /\ resumes[r] < MaxResumes
  /\ proc' = [proc EXCEPT ![r] = [At("going") EXCEPT !.left = left]]
  /\ resumes' = [resumes EXCEPT ![r] = @ + 1]
  /\ UNCHANGED <<file, logged, published, recon, history>>

\* A run works from its own list, whatever its file has by now.
TakesUp(r, i) ==
  proc[r].pc = "going" /\ proc[r].item = NoItem /\ i \in proc[r].left

\* An item has its outcome; the rows before it had theirs or were held by the gate.
Outcome(r, i, row) ==
  proc' = [proc EXCEPT ![r].item = i, ![r].row = row, ![r].left = {j \in @ : j > i}]

\* The post is out and the dedup store has it: the one is new, or was made before
\* for the same target and the gate of a resume takes its URL over.
Publish(r, i, url) ==
  /\ TakesUp(r, i)
  /\ \/ posts[url] = NoTarget
     \/ posts[url] = TargetOf[i] /\ TargetOf[i] \in settled /\ resumes[r] > 0
  /\ posts' = [posts EXCEPT ![url] = TargetOf[i]]
  /\ settled' = settled \cup {TargetOf[i]}
  /\ sent' = sent \cup {<<i, url>>}
  /\ Outcome(r, i, DoneAt(url))
  /\ UNCHANGED <<file, logged, resumes, recon, lost, skipped>>

\* A failure, or a skip of the policy.
Fail(r, i, class) ==
  /\ TakesUp(r, i)
  /\ class = "policy_skip" => i \in Barred
  /\ Outcome(r, i, Failed(class))
  /\ skipped' = IF class = "policy_skip" THEN skipped \cup {i} ELSE skipped
  /\ UNCHANGED <<file, logged, resumes, published, recon, sent, lost>>

\* update_item, which reads the checkpoint.
LoadFile(r) ==
  /\ proc[r].pc = "going" /\ proc[r].item # NoItem
  /\ proc' = [proc EXCEPT ![r].pc = "save", ![r].seen = RowsNow(r)]
  /\ UNCHANGED <<file, logged, resumes, published, recon, history>>

\* _atomic_write of what update_item made of the rows it read.
SaveFile(r) ==
  LET p == proc[r] IN
  /\ p.pc = "save"
  /\ Write(r, [p.seen EXCEPT ![p.item] = p.row])
  /\ proc' = [proc EXCEPT ![r] = [At("going") EXCEPT !.left = p.left]]
  /\ UNCHANGED <<logged, resumes, published, recon>>

\* The process of a run dies, and the record of a post it has in hand with it; or its
\* update_item fails, after which a run writes nothing more and projects nothing
\* (its run_id is None) and a resume exits; or its projection fails:
\* project_run_safe swallows what flush_for raises.
Die(r) ==
  /\ proc[r].pc \in {"going", "save", "load", "write", "mark"}
  /\ proc' = [proc EXCEPT ![r] = At("over")]
  /\ lost' = lost \cup {s \in sent : proc[r].item = s[1] /\ proc[r].row = DoneAt(s[2])}
  /\ UNCHANGED <<file, logged, resumes, published, recon, sent, skipped>>

\* The end of a run, with items left when it was aborted or the gate held them:
\* project_run_safe, and _project_checkpoint reads the file.
Finish(r) ==
  /\ proc[r].pc = "going" /\ proc[r].item = NoItem
  /\ proc' = [proc EXCEPT ![r] = [At("load") EXCEPT !.run = r, !.seen = RowsNow(r)]]
  /\ UNCHANGED <<file, logged, resumes, published, recon, history>>

\* mark_complete reads the checkpoint, after a resume that has nothing left by rows it
\* read before its flush.  They may be others by now, so any resume may come here.
MarkLoad(r) ==
  /\ proc[r].pc = "projected" /\ resumes[r] > 0
  /\ proc' = [proc EXCEPT ![r] = [At("mark") EXCEPT !.seen = RowsNow(r)]]
  /\ UNCHANGED <<file, logged, resumes, published, recon, history>>

\* It writes the rows back as it read them.
MarkSave(r) ==
  /\ proc[r].pc = "mark"
  /\ Write(r, proc[r].seen)
  /\ proc' = [proc EXCEPT ![r] = At("over")]
  /\ UNCHANGED <<logged, resumes, published, recon>>

-----------------------------------------------------------------------------
(***************************************************************************)
(* A flush.                                                                *)
(***************************************************************************)

\* A load of the dashboard, _collect_sources: the checkpoints that have no cursor.
\* _PROJECTION_LOCK lets one load in at a time.
Load ==
  LET stranded == {r \in Run : Exists(r) /\ ~HasCursor(r)} IN
  /\ proc[Dashboard].pc = "idle" /\ stranded # {}
  /\ proc' = [proc EXCEPT ![Dashboard] = [At("source") EXCEPT !.todo = stranded]]
  /\ UNCHANGED <<file, logged, resumes, published, recon, history>>

\* _project_all takes the next source, and _project_checkpoint reads the file.
NextSource(r) ==
  LET p == proc[Dashboard] IN
  /\ p.pc = "source" /\ r \in p.todo
  /\ proc' = [proc EXCEPT ![Dashboard] =
                [At("load") EXCEPT !.run = r, !.todo = p.todo \ {r}, !.seen = RowsNow(r)]]
  /\ UNCHANGED <<file, logged, resumes, published, recon, history>>

\* cursor_load.
LoadCursor(p) ==
  /\ proc[p].pc = "load"
  /\ proc' = [proc EXCEPT ![p].pc = "write", ![p].prior = cursor[proc[p].run]]
  /\ UNCHANGED <<file, logged, resumes, published, recon, history>>

\* What a process does after a flush that committed.
Flushed(p) ==
  IF p # Dashboard THEN At("projected")
  ELSE IF proc[p].todo = {} THEN At("idle")
  ELSE [At("source") EXCEPT !.todo = proc[p].todo]

\* Variant: a row is compared by its status alone.
Changed_StatusOnly(p) ==
  {i \in Rows(proc[p].run) :
     proc[p].prior[i] = NoClaim \/ proc[p].prior[i].status # Claim(proc[p].seen[i]).status}

\* The rows of the file that the cursor does not have as they are now.
Changed(p) == {i \in Rows(proc[p].run) : Claim(proc[p].seen[i]) # proc[p].prior[i]}

\* The changed rows with a status.
ChangedTo(p, status) == {i \in Changed(p) : proc[p].seen[i].status = status}

\* Variant: a row whose article is there already is confirmed again.
Confirmed_Again(p) == {proc[p].seen[i].url : i \in Changed(p)} \ {NoUrl}

\* Variant: no URL is taken for a URL.
Confirmed_Null(p) == {proc[p].seen[i].url : i \in ChangedTo(p, "done")} \ articles

\* add_article: live_url is UNIQUE.  A URL that is there already is only
\* reported, as reconcile.swallowed.
Confirmed(p) == {proc[p].seen[i].url : i \in Changed(p)} \ (articles \cup {NoUrl})

\* Events that are the same for two rows with one target are emitted once.
TargetsOf(p, rows) == {<<proc[p].run, TargetOf[i]>> : i \in rows}

\* The events of the changed rows.  A row that is done without a URL gets an
\* article each time, NULLs being distinct; a row the policy skipped gets none.
Emit(p) ==
  log' = [confirmed |-> [u \in Live |-> log.confirmed[u] + IF u \in Confirmed(p) THEN 1 ELSE 0],
          blank |-> log.blank \cup {i \in ChangedTo(p, "done") : proc[p].seen[i].url = NoUrl},
          failed |-> log.failed \cup TargetsOf(p, ChangedTo(p, "failed")),
          intent |-> log.intent
            \cup TargetsOf(p, {i \in ChangedTo(p, "pending") : proc[p].prior[i] = NoClaim})]

\* The transaction of a flush.
Commit(p) ==
  /\ proc[p].pc = "write"
  /\ Emit(p)
  /\ articles' = articles \cup Confirmed(p)
  /\ cursor' = [cursor EXCEPT ![proc[p].run] =
                  [i \in Item |-> IF RunOf[i] = proc[p].run THEN Claim(proc[p].seen[i]) ELSE NoClaim]]
  /\ proc' = [proc EXCEPT ![p] = Flushed(p)]
  /\ UNCHANGED <<file, resumes, published, recon, history>>

\* Variant: a load that fails leaves its lock behind.
LoadFails_Locked ==
  /\ proc[Dashboard].pc \in {"source", "load", "write"}
  /\ proc' = [proc EXCEPT ![Dashboard] = At("over")]
  /\ UNCHANGED <<file, logged, resumes, published, recon, history>>

\* The database is locked, or the process is restarted: the load ends.
LoadFails ==
  /\ proc[Dashboard].pc \in {"source", "load", "write"}
  /\ proc' = [proc EXCEPT ![Dashboard] = At("idle")]
  /\ UNCHANGED <<file, logged, resumes, published, recon, history>>

-----------------------------------------------------------------------------
(***************************************************************************)
(* The reconcilers, at the ends of runs with --reconcile.  They quarantine *)
(* no item: their age is that of completed_at or created_at, which no      *)
(* unfinished item has.                                                    *)
(***************************************************************************)

\* Variant: the dedup store is not asked.
Match_All(c) ==
  /\ recon[c].pc = "idle"
  /\ recon' = [recon EXCEPT ![c] =
                 Pass("matched", {i \in Item : Exists(RunOf[i]) /\ Unfinished(file[i])})]
  /\ UNCHANGED <<file, logged, proc, resumes, published, history>>

\* list_failed_items, get_many, and the items whose record is done.
Match(c) ==
  /\ recon[c].pc = "idle"
  /\ recon' = [recon EXCEPT ![c] =
                 Pass("matched", {i \in Item : Exists(RunOf[i]) /\ Unfinished(file[i])
                                                /\ TargetOf[i] \in settled})]
  /\ UNCHANGED <<file, logged, proc, resumes, published, history>>

\* _auto_fix_checkpoint, whatever the item is by now: update_item reads.  The items
\* before it were settled, or their checkpoint could not be read.
FixLoad(c, i) ==
  LET p == recon[c] IN
  /\ p.pc = "matched" /\ i \in p.todo
  /\ recon' = [recon EXCEPT ![c] =
                 [pc |-> "fix", todo |-> {j \in p.todo : j > i}, item |-> i, seen |-> RowsNow(RunOf[i])]]
  /\ UNCHANGED <<file, logged, proc, resumes, published, history>>

\* The item is done, without a URL; or the write fails and the pass goes on.
FixSave(c, saved) ==
  LET p == recon[c] IN
  /\ p.pc = "fix"
  /\ IF saved THEN Write(RunOf[p.item], [p.seen EXCEPT ![p.item] = DoneAt(NoUrl)])
              ELSE UNCHANGED <<file, history>>
  /\ recon' = [recon EXCEPT ![c] = Pass("matched", p.todo)]
  /\ UNCHANGED <<logged, proc, resumes, published>>

\* The pass is over, or its process died.
Reconciled(c) ==
  /\ recon[c].pc \in {"matched", "fix"}
  /\ recon' = [recon EXCEPT ![c] = Pass("over", {})]
  /\ UNCHANGED <<file, logged, proc, resumes, published, history>>

-----------------------------------------------------------------------------

Publishing(r) ==
  \/ Create(r) \/ Resume(r) \/ Finish(r) \/ Die(r)
  \/ LoadFile(r) \/ SaveFile(r) \/ MarkLoad(r) \/ MarkSave(r)
  \/ \E i \in Item :
       \/ \E url \in Live : Publish(r, i, url)
       \/ \E class \in {"failed", "policy_skip"} : Fail(r, i, class)

Flush(p) == LoadCursor(p) \/ Commit(p)

Loading == Load \/ (\E r \in Run : NextSource(r)) \/ LoadFails

Reconciling(c) ==
  \/ Match(c) \/ Reconciled(c)
  \/ \E i \in Item : FixLoad(c, i)
  \/ \E saved \in BOOLEAN : FixSave(c, saved)

Next ==
  \/ \E r \in Run : Publishing(r)
  \/ \E p \in Process : Flush(p)
  \/ Loading
  \/ \E c \in Reconciler : Reconciling(c)

Spec == Init /\ [][Next]_vars

\* The dashboard is loaded again and again, and not every load fails, at any step.
FairSpec ==
  /\ Spec /\ WF_vars(Load)
  /\ SF_vars(\E r \in Run : NextSource(r))
  /\ SF_vars(LoadCursor(Dashboard)) /\ SF_vars(Commit(Dashboard))

-----------------------------------------------------------------------------
(***************************************************************************)
(* Properties.                                                             *)
(***************************************************************************)

\* Every variable has its type.
TypeOK ==
  /\ file \in [Item -> ItemState]
  /\ cursor \in [Run -> [Item -> Claims]]
  /\ articles \subseteq Live
  /\ log \in [confirmed : [Live -> Nat], blank : SUBSET Item,
              failed : SUBSET (Run \X Target), intent : SUBSET (Run \X Target)]
  /\ proc \in [Process -> ProcState]
  /\ resumes \in [Run -> 0..MaxResumes]
  /\ posts \in [Live -> Target \cup {NoTarget}]
  /\ settled \subseteq Target
  /\ recon \in [Reconciler -> ReconState]
  /\ sent \subseteq Item \X Live /\ lost \subseteq sent /\ skipped \subseteq Item

\* Two processes that flush one checkpoint at a time, or two checkpoints with one
\* URL, confirm a post once: the article and its event are one transaction, and
\* the URL of an article is UNIQUE (_handle_checkpoint_confirmed).
ConfirmedOnce ==
  \A u \in Live : log.confirmed[u] = IF u \in articles THEN 1 ELSE 0

\* A failure is in the log; a skip of the policy is not, nor is what a later failure
\* of the item adds to it.
FailureLogged(i) == <<RunOf[i], TargetOf[i]>> \in log.failed \/ i \in skipped

\* What an item that the cursor has as s has left in the log.  An item that is
\* pending again, because its row was undone, has left its outcome there.
InLog(i, s) ==
  /\ s.status = "done" => IF s.url = NoUrl THEN i \in log.blank ELSE s.url \in articles
  /\ s.status = "failed" => FailureLogged(i)
  /\ s.status = "pending" =>
       \/ <<RunOf[i], TargetOf[i]>> \in log.intent
       \/ i \in log.blank \/ FailureLogged(i)
       \/ \E u \in articles : <<i, u>> \in sent

\* The cursor is never ahead of the log, nor do two flushes that interleave make it
\* so: what it says of an item, a committed flush emitted (cursor_save in the
\* transaction of the events; a cursor that moves back, or a row that another
\* process undid, only emits again).
CursorTellsTheTruth ==
  \A r \in Run, i \in Item :
    RunOf[i] = r /\ cursor[r][i] # NoClaim => InLog(i, cursor[r][i])

\* After the flush at the end of a run every post of the run, and of its resumes so
\* far, is in the log, except one whose record was lost before: its process died or
\* its write failed with the post in hand, or the write of another process, which had
\* read the checkpoint earlier or knows no URL, undid the row (project_run_safe,
\* update_item).
FlushedRunIsLogged ==
  \A r \in Run : proc[r].pc = "projected" =>
    \A i \in Rows(r), u \in Live :
      <<i, u>> \in sent => u \in articles \/ <<i, u>> \in lost

\* An item that a run or the reconciler calls done has a post (_auto_fix_checkpoint
\* acts on a record that was read before, update_item on rows that were).
DoneHasLanded ==
  \A i \in Item : file[i].status = "done" => \E u \in Live : posts[u] = TargetOf[i]

Ledger ==
  INSTANCE PostLedger WITH
    post <- posts,
    done <- {i \in Item : file[i].status = "done"},
    url <- [i \in Item |-> file[i].url],
    confirmed <- log.confirmed

\* Over flushes that interleave, resumes, and reconcilers that act on old records and
\* write old rows back, a post is confirmed at most once and not before it is made;
\* and an item is done only for a target that has a post, with no URL but one that
\* its own run got for it (_handle_checkpoint_confirmed, update_item,
\* _auto_fix_checkpoint).
ImplementsLedger == Ledger!Spec

\* A checkpoint whose run never projected it is projected from the dashboard
\* (project_on_read).
BackstopProjects ==
  \A r \in Run : Exists(r) ~> HasCursor(r)

\* "This gate is a cost bound, not a correctness requirement" (events/reconcile.py,
\* _collect_sources): the loads of the dashboard get what a run published into the
\* log when the run ended without projecting it.
StrandedIsProjected ==
  \A i \in Item, u \in Live :
    (proc[RunOf[i]].pc = "over" /\ file[i] = DoneAt(u)) ~> u \in articles

=============================================================================
