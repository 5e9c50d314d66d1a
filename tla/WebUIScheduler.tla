---------------------------- MODULE WebUIScheduler ----------------------------
(***************************************************************************)
(* The WebUI's publish queue and its scheduled drafts: the one thread of   *)
(* APScheduler that runs both (webui_app/scheduler.py), the requests that  *)
(* add and retry tasks (webui_store/queue_store.py, routes/queue.py,       *)
(* api/history_api.py) and those that schedule, cancel and delete drafts   *)
(* (api/drafts_api.py), and the restart of the process.                    *)
(*                                                                         *)
(* A store's update() loads the table, and writes it back whole, under the *)
(* store's lock; update_task takes the lock too.  A retry does not: it is  *)
(* one conditional UPDATE.                                                 *)
(*                                                                         *)
(* Requests about drafts come one at a time: with two of them at once a    *)
(* cancel may remove the job of a schedule that came after it.             *)
(*                                                                         *)
(* surplus is a history variable: the publishes of a task or a draft that  *)
(* succeeded, less those that have a cause of their own, which are an      *)
(* operator who asks again for what is published, and a crash or a fault   *)
(* of the store between a publish and its record.  missed is another: the  *)
(* drafts whose job was too late to run and that got no new one.           *)
(***************************************************************************)
EXTENDS Integers

CONSTANTS
  Task,       \* tasks of the queue, numbered in the order they are added
  Draft,      \* drafts
  Adder,      \* request threads that add tasks
  NoJob,
  MaxCrashes, \* bound on the crashes of the process
  MaxFaults   \* bound on the writes of a result that fail for good

ASSUME TaskAssumption == Task \subseteq Nat
ASSUME DisjointAssumption == Task \cap Draft = {} /\ NoJob \notin Task \cup Draft
ASSUME BoundsAssumption == MaxCrashes \in Nat /\ MaxFaults \in Nat

VARIABLES
  task,     \* the table tasks
  adding,   \* the update() of each adder
  draft,    \* the table drafts
  job,      \* date jobs of APScheduler
  worker,   \* its thread
  req,      \* what is left to do of a request about a draft
  crashes, faults,
  surplus, missed

vars == <<task, adding, draft, job, worker, req, crashes, faults, surplus, missed>>

\* wait: next_retry_at is still to come.
TaskRow == [status : {"none", "pending", "processing", "failed", "success"}, wait : BOOLEAN]

DraftStatus == {"none", "pending", "scheduled", "published", "failed", "deleted"}

Result == {"none", "success", "failed", "limited"}

\* claim: get_runnable has returned.  settle: a publish has returned.
Worker ==
  [at : {"down", "idle", "claim", "publish", "settle"},
   job : Task \cup Draft \cup {NoJob}, result : Result]

At(at, j) == [at |-> at, job |-> j, result |-> "none"]

\* on: the adder is between its load and its save, and has the lock.
NoUpdate == [on |-> FALSE, rows |-> [t \in Task |-> [status |-> "none", wait |-> FALSE]]]

NoRequest == [step |-> "none", draft |-> NoJob]

Init ==
  /\ task = NoUpdate.rows
  /\ adding = [a \in Adder |-> NoUpdate]
  /\ draft = [d \in Draft |-> "none"]
  /\ job = {}
  /\ worker = At("idle", NoJob)
  /\ req = NoRequest
  /\ crashes = 0 /\ faults = 0
  /\ surplus = [x \in Task \cup Draft |-> 0]
  /\ missed = {}

Up == worker.at # "down"

queue == <<task, adding>>
drafts == <<draft, job, req, missed>>
ended == <<crashes, faults>>

-----------------------------------------------------------------------------
(***************************************************************************)
(* The queue.                                                              *)
(***************************************************************************)

\* Variant: the store has no lock.
LockFree_Always == TRUE

\* The RLock of the store.
LockFree == \A a \in Adder : ~adding[a].on

IsNext(t) ==
  task[t].status = "none" /\ \A other \in Task : other < t => task[other].status # "none"

\* update(lambda tasks: tasks + [task]), its load; Task bounds the tasks.
AddLoad(a) ==
  /\ Up /\ LockFree /\ ~adding[a].on /\ \E t \in Task : IsNext(t)
  /\ adding' = [adding EXCEPT ![a] = [on |-> TRUE, rows |-> task]]
  /\ UNCHANGED <<task, drafts, worker, ended, surplus>>

\* Its save, of all the rows: t is the next new task.
AddSave(a, t) ==
  /\ adding[a].on /\ IsNext(t)
  /\ task' = [adding[a].rows EXCEPT ![t].status = "pending"]
  /\ adding' = [adding EXCEPT ![a] = NoUpdate]
  /\ UNCHANGED <<drafts, worker, ended, surplus>>

\* Variant: the status is not looked at.
MayRetry_Always(t) == task[t].status # "none"

MayRetry(t) == task[t].status \notin {"none", "processing"}

\* An operator who asks again for what is published.
AskedAgain(x) == [surplus EXCEPT ![x] = IF @ > 0 THEN @ - 1 ELSE @]

\* retry_task: update_task_if_status leaves next_retry_at as it is.
Retry(t) ==
  /\ Up /\ MayRetry(t)
  /\ task' = [task EXCEPT ![t].status = "pending"]
  /\ surplus' = IF task[t].status = "success" THEN AskedAgain(t) ELSE surplus
  /\ UNCHANGED <<adding, drafts, worker, ended>>

Runnable(t) == task[t].status \in {"pending", "failed"} /\ ~task[t].wait

\* _process_queue_job, get_runnable: the first row.
Tick(t) ==
  /\ worker.at = "idle"
  /\ Runnable(t) /\ \A other \in Task : other < t => ~Runnable(other)
  /\ worker' = At("claim", t)
  /\ UNCHANGED <<queue, drafts, ended, surplus>>

\* update_task to processing.
Claim ==
  /\ worker.at = "claim" /\ LockFree
  /\ task' = [task EXCEPT ![worker.job].status = "processing"]
  /\ worker' = At("publish", worker.job)
  /\ UNCHANGED <<adding, drafts, ended, surplus>>

\* PipelineAPI returns.
Publish(result) ==
  /\ worker.at = "publish" /\ result # "none"
  /\ worker' = [worker EXCEPT !.at = "settle", !.result = result]
  /\ surplus' = IF result = "success" THEN [surplus EXCEPT ![worker.job] = @ + 1] ELSE surplus
  /\ UNCHANGED <<queue, drafts, ended>>

\* Variant: the result is the status.
StatusFor_Verbatim(result) == result

StatusFor(result) == IF result = "success" THEN "success" ELSE "failed"

\* update_task with the result; a 429 sets next_retry_at.
SettleTask ==
  /\ worker.at = "settle" /\ worker.job \in Task /\ LockFree
  /\ task' = [task EXCEPT ![worker.job] =
                [status |-> StatusFor(worker.result), wait |-> worker.result = "limited"]]
  /\ worker' = At("idle", NoJob)
  /\ UNCHANGED <<adding, drafts, ended, surplus>>

\* next_retry_at passes.
Elapse(t) ==
  /\ task[t].wait
  /\ task' = [task EXCEPT ![t].wait = FALSE]
  /\ UNCHANGED <<adding, drafts, worker, ended, surplus>>

-----------------------------------------------------------------------------
(***************************************************************************)
(* Drafts.                                                                 *)
(***************************************************************************)

\* insert_first.
Create(d) ==
  /\ Up /\ draft[d] = "none"
  /\ draft' = [draft EXCEPT ![d] = "pending"]
  /\ UNCHANGED <<queue, job, req, worker, ended, surplus, missed>>

Present(d) == draft[d] \notin {"none", "deleted"}

\* A request on a draft that is shown, or was when the page was made.
MayAsk(d) == Up /\ req = NoRequest /\ draft[d] # "none"

\* update_item, which leaves a deleted draft deleted.
Updated(d, status) == IF Present(d) THEN [draft EXCEPT ![d] = status] ELSE draft

Then(step, d) == req' = [step |-> step, draft |-> d]

\* schedule and publish_now write the draft first.
Schedule(d) ==
  /\ MayAsk(d) /\ Then("addJob", d)
  /\ draft' = Updated(d, "scheduled")
  /\ surplus' = IF draft[d] # "scheduled" THEN AskedAgain(d) ELSE surplus
  /\ UNCHANGED <<queue, job, worker, ended, missed>>

\* _schedule_draft_job, which replaces a job of the draft; when it fails the draft
\* is made pending again.
AddJob(added) ==
  /\ req.step = "addJob"
  /\ job' = IF added THEN job \cup {req.draft} ELSE job
  /\ missed' = IF added THEN missed \ {req.draft} ELSE missed
  /\ draft' = IF added THEN draft ELSE Updated(req.draft, "pending")
  /\ req' = NoRequest
  /\ UNCHANGED <<queue, worker, ended, surplus>>

\* cancel and delete write the draft first, and then remove its job.
Cancel(d) ==
  /\ MayAsk(d) /\ Then("removeJob", d)
  /\ draft' = Updated(d, "pending")
  /\ UNCHANGED <<queue, job, worker, ended, surplus, missed>>

Delete(d) ==
  /\ MayAsk(d) /\ Then("removeJob", d)
  /\ draft' = Updated(d, "deleted")
  /\ UNCHANGED <<queue, job, worker, ended, surplus, missed>>

\* _remove_scheduled_job, which may fail.
RemoveJob(removed) ==
  /\ req.step = "removeJob"
  /\ job' = IF removed THEN job \ {req.draft} ELSE job
  /\ req' = NoRequest
  /\ UNCHANGED <<queue, draft, worker, ended, surplus, missed>>

\* bulk_cancel removes the job first, and leaves the draft alone when it cannot.
BulkCancel(d) ==
  /\ MayAsk(d) /\ draft[d] = "scheduled"
  /\ job' = job \ {d} /\ Then("unschedule", d)
  /\ UNCHANGED <<queue, draft, worker, ended, surplus, missed>>

Unschedule ==
  /\ req.step = "unschedule"
  /\ draft' = Updated(req.draft, "pending")
  /\ req' = NoRequest
  /\ UNCHANGED <<queue, job, worker, ended, surplus, missed>>

\* Variant: whatever its status.
MayPublish_Any(d) == Present(d)

MayPublish(d) == draft[d] = "scheduled"

\* The date job of a draft fires.
Fire(d) ==
  /\ worker.at = "idle" /\ d \in job
  /\ job' = job \ {d}
  /\ worker' = IF MayPublish(d) THEN At("publish", d) ELSE worker
  /\ UNCHANGED <<queue, draft, req, ended, surplus, missed>>

\* It is more than misfire_grace_time late, behind other jobs of the one thread or
\* because its date was long past when it was registered: it is dropped, and the
\* draft is not touched.
Misfire(d) ==
  /\ worker.at = "idle" /\ d \in job
  /\ job' = job \ {d}
  /\ missed' = missed \cup {d}
  /\ UNCHANGED <<queue, draft, req, worker, ended, surplus>>

\* update_item with the outcome, whatever became of the draft meanwhile.
SettleDraft ==
  /\ worker.at = "settle" /\ worker.job \in Draft
  /\ draft' = Updated(worker.job, IF worker.result = "success" THEN "published" ELSE "failed")
  /\ worker' = At("idle", NoJob)
  /\ UNCHANGED <<queue, job, req, ended, surplus, missed>>

-----------------------------------------------------------------------------
(***************************************************************************)
(* Faults.                                                                 *)
(***************************************************************************)

\* What a crash or a fault of the store makes of a publish that is not recorded.
Unrecorded ==
  IF worker.at = "settle" /\ worker.result = "success"
    THEN [surplus EXCEPT ![worker.job] = @ - 1] ELSE surplus

\* The database stays locked.  The handler of the exception writes that the
\* publish failed, or cannot write either.
StoreFails(again) ==
  /\ worker.at = "settle" /\ (worker.job \in Task => LockFree)
  /\ faults < MaxFaults
  /\ faults' = faults + 1
  /\ task' = IF worker.job \in Task /\ ~again
               THEN [task EXCEPT ![worker.job].status = "failed"] ELSE task
  /\ draft' = IF worker.job \in Draft /\ ~again THEN Updated(worker.job, "failed") ELSE draft
  /\ worker' = At("idle", NoJob)
  /\ surplus' = Unrecorded
  /\ UNCHANGED <<adding, job, req, crashes, missed>>

\* The process dies, and the jobs, which are kept in memory, with it.
Crash ==
  /\ Up /\ crashes < MaxCrashes
  /\ crashes' = crashes + 1
  /\ worker' = At("down", NoJob)
  /\ adding' = [a \in Adder |-> NoUpdate]
  /\ job' = {} /\ req' = NoRequest
  /\ surplus' = Unrecorded
  /\ UNCHANGED <<task, draft, faults, missed>>

\* Variant: a draft whose time has passed is not restored, and by then it has.
Restored_Future == {}

\* The drafts _restore_scheduled_jobs registers: one whose time has passed gets a
\* new one.
Restored == {d \in Draft : draft[d] = "scheduled"}

\* Variant: a task in processing is left as it is.
Reset_Nothing(row) == row

\* _restore_processing_tasks.
Reset(row) == IF row.status = "processing" THEN [row EXCEPT !.status = "pending"] ELSE row

\* The start of the process, with _restore_scheduled_jobs.
Start ==
  /\ worker.at = "down"
  /\ task' = [t \in Task |-> Reset(task[t])]
  /\ job' = Restored
  /\ missed' = missed \ Restored
  /\ worker' = At("idle", NoJob)
  /\ UNCHANGED <<adding, draft, req, ended, surplus>>

-----------------------------------------------------------------------------

Adding(a) == AddLoad(a) \/ \E t \in Task : AddSave(a, t)

Queue(t) == Retry(t) \/ Tick(t) \/ Elapse(t)

Asking(d) == Create(d) \/ Schedule(d) \/ Cancel(d) \/ Delete(d) \/ BulkCancel(d)

Answering ==
  \/ Unschedule
  \/ \E done \in BOOLEAN : AddJob(done) \/ RemoveJob(done)

Working ==
  \/ Claim \/ SettleTask \/ SettleDraft
  \/ \E result \in Result : Publish(result)
  \/ \E d \in Draft : Fire(d) \/ Misfire(d)

Failing == Crash \/ Start \/ \E again \in BOOLEAN : StoreFails(again)

Next ==
  \/ \E a \in Adder : Adding(a)
  \/ \E t \in Task : Queue(t)
  \/ \E d \in Draft : Asking(d)
  \/ Answering \/ Working \/ Failing

Spec == Init /\ [][Next]_vars

\* The thread goes on, requests end, and the process is started again.  The jobs
\* that are due wait in the executor's queue, so that each gets its turn: it fires
\* then, or is found to be too late.
FairSpec ==
  /\ Spec
  /\ WF_vars(Start) /\ WF_vars(Answering)
  /\ SF_vars(Claim) /\ SF_vars(SettleTask)
  /\ WF_vars(SettleDraft) /\ WF_vars(\E result \in Result : Publish(result))
  /\ \A a \in Adder : WF_vars(\E t \in Task : AddSave(a, t))
  /\ \A d \in Draft : SF_vars(Fire(d) \/ Misfire(d))

-----------------------------------------------------------------------------
(***************************************************************************)
(* Properties.                                                             *)
(***************************************************************************)

\* Every variable has its type.
TypeOK ==
  /\ task \in [Task -> TaskRow]
  /\ adding \in [Adder -> [on : BOOLEAN, rows : [Task -> TaskRow]]]
  /\ draft \in [Draft -> DraftStatus]
  /\ job \subseteq Draft
  /\ worker \in Worker
  /\ req \in [step : {"none", "addJob", "removeJob", "unschedule"}, draft : Draft \cup {NoJob}]
  /\ crashes \in 0..MaxCrashes /\ faults \in 0..MaxFaults
  /\ surplus \in [Task \cup Draft -> Int]
  /\ missed \subseteq Draft

Publishes(x) == worker.at \in {"publish", "settle"} /\ worker.job = x

\* What the thread is publishing is in processing: no retry and no add takes it
\* away (update_task_if_status, and the lock of update and update_task).
ClaimHolds == \A t \in Task : Publishes(t) => task[t].status = "processing"

\* Before a fault of the store, what says processing is what the thread publishes, and
\* a draft that says scheduled has its job, is in the hand of the thread or of a
\* request, or lost its job to misfire_grace_time since it was last scheduled or
\* restored: no restart and no request leaves one that nobody will take up again
\* (_restore_processing_tasks, _restore_scheduled_jobs, _remove_scheduled_job).
NothingStranded ==
  faults = 0 /\ Up =>
    /\ \A t \in Task : task[t].status = "processing" => Publishes(t)
    /\ \A d \in Draft : draft[d] = "scheduled" =>
         d \in job \cup missed \/ Publishes(d) \/ (req.draft = d /\ req.step \in {"addJob", "unschedule"})

\* Without a cause of its own nothing is published twice (the status that
\* _process_queue_job and _publish_draft_job write and look at).
PublishedOnce == \A x \in Task \cup Draft : surplus[x] <= 1

\* An add that was answered is never lost (QueueSqliteStore.save writes all rows).
TasksKept ==
  [][\A t \in Task : task[t].status # "none" => task'[t].status # "none"]_vars

\* A task does not stay in processing, not even through a restart
\* (_restore_processing_tasks).
TaskSettles ==
  \A t \in Task :
    task[t].status = "processing" ~> task[t].status # "processing" \/ faults > 0

\* A scheduled draft leaves that status, whatever the queue has to do and whenever the
\* process restarts: it is published, fails, or is taken back, unless its job came too
\* late to run (_scheduler, one thread and misfire_grace_time).
DraftFires ==
  \A d \in Draft :
    draft[d] = "scheduled" ~> draft[d] # "scheduled" \/ faults > 0 \/ d \in missed

=============================================================================
