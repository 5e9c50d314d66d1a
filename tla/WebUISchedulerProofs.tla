------------------------- MODULE WebUISchedulerProofs -------------------------
(***************************************************************************)
(* What holds of the queue and the scheduled drafts for any number of      *)
(* tasks, drafts and requests, crashes and faults: types, the lock and the *)
(* claim, adds that stay, publishes that are not repeated, and that        *)
(* nothing is left in a status that nobody will take it out of.            *)
(***************************************************************************)
EXTENDS WebUIScheduler, TLAPS

-----------------------------------------------------------------------------
(***************************************************************************)
(* Types.                                                                  *)
(***************************************************************************)

\* A job in the thread is what its step works on, and a request has a draft.
InHand ==
  /\ worker.at = "claim" => worker.job \in Task
  /\ worker.at \in {"publish", "settle"} => worker.job \in Task \cup Draft
  /\ req.step # "none" => req.draft \in Draft

TypeInv == TypeOK /\ InHand

LEMMA WorkerType ==
  \A at \in {"down", "idle", "claim", "publish", "settle"}, j \in Task \cup Draft \cup {NoJob} :
    At(at, j) \in Worker
BY DEF At, Worker, Result

LEMMA RowsType == NoUpdate \in [on : BOOLEAN, rows : [Task -> TaskRow]] /\ ~NoUpdate.on
BY DEF NoUpdate, TaskRow

LEMMA SurplusSet ==
  ASSUME TypeOK, NEW x \in Task \cup Draft, NEW n \in Int
  PROVE  [surplus EXCEPT ![x] = n] \in [Task \cup Draft -> Int]
<1>. DEFINE S == Task \cup Draft
<1>1. surplus \in [S -> Int] /\ x \in S
  BY DEF TypeOK
<1>. HIDE DEF S
<1>2. [surplus EXCEPT ![x] = n] \in [S -> Int]
  BY <1>1
<1>. QED
  BY <1>2 DEF S

LEMMA SurplusInt == ASSUME TypeOK, NEW x \in Task \cup Draft PROVE surplus[x] \in Int
BY DEF TypeOK

LEMMA SurplusType ==
  ASSUME TypeInv
  PROVE  /\ \A x \in Task \cup Draft : AskedAgain(x) \in [Task \cup Draft -> Int]
         /\ Unrecorded \in [Task \cup Draft -> Int]
<1>0. TypeOK
  BY DEF TypeInv
<1>1. ASSUME NEW x \in Task \cup Draft PROVE AskedAgain(x) \in [Task \cup Draft -> Int]
  <2>1. (IF surplus[x] > 0 THEN surplus[x] - 1 ELSE surplus[x]) \in Int
    BY <1>0, SurplusInt
  <2>. QED
    BY <1>0, <2>1, SurplusSet DEF AskedAgain
<1>2. CASE worker.at = "settle" /\ worker.result = "success"
  <2>1. worker.job \in Task \cup Draft
    BY <1>2 DEF TypeInv, InHand
  <2>2. surplus[worker.job] - 1 \in Int
    BY <1>0, <2>1, SurplusInt
  <2>3. Unrecorded \in [Task \cup Draft -> Int]
    BY <1>0, <1>2, <2>1, <2>2, SurplusSet DEF Unrecorded
  <2>. QED
    BY <1>1, <2>3
<1>3. CASE ~(worker.at = "settle" /\ worker.result = "success")
  BY <1>0, <1>1, <1>3 DEF TypeOK, Unrecorded
<1>. QED
  BY <1>2, <1>3

LEMMA UpdatedType ==
  ASSUME TypeOK, NEW d, NEW status \in DraftStatus
  PROVE  Updated(d, status) \in [Draft -> DraftStatus]
BY DEF TypeOK, Updated

LEMMA TypeInit == Init => TypeInv
<1>. SUFFICES ASSUME Init PROVE TypeInv
  OBVIOUS
<1>1. task \in [Task -> TaskRow] /\ adding \in [Adder -> [on : BOOLEAN, rows : [Task -> TaskRow]]]
  BY RowsType DEF Init
<1>2. worker \in Worker /\ worker.at = "idle" /\ worker.job = NoJob
  BY WorkerType DEF Init, At
<1>. QED
  BY <1>1, <1>2, BoundsAssumption DEF Init, TypeInv, TypeOK, InHand, DraftStatus, NoRequest

LEMMA TypeQueue ==
  ASSUME TypeInv,
         \/ \E a \in Adder : Adding(a)
         \/ \E t \in Task : Queue(t)
         \/ Claim \/ SettleTask
  PROVE  TypeInv'
<1>. USE DEF TypeInv, TypeOK, InHand, drafts, ended
<1>1. ASSUME NEW a \in Adder, AddLoad(a) PROVE TypeInv'
  BY <1>1 DEF AddLoad
<1>2. ASSUME NEW a \in Adder, NEW t \in Task, AddSave(a, t) PROVE TypeInv'
  <2>1. adding[a].rows \in [Task -> TaskRow]
    OBVIOUS
  <2>2. task' \in [Task -> TaskRow]
    BY <1>2, <2>1 DEF AddSave, TaskRow
  <2>3. adding' \in [Adder -> [on : BOOLEAN, rows : [Task -> TaskRow]]]
    BY <1>2, RowsType DEF AddSave
  <2>. QED
    BY <1>2, <2>2, <2>3 DEF AddSave
<1>3. ASSUME NEW t \in Task, Retry(t) PROVE TypeInv'
  <2>1. surplus' \in [Task \cup Draft -> Int]
    BY <1>3, SurplusType DEF Retry
  <2>2. task' \in [Task -> TaskRow]
    BY <1>3 DEF Retry, TaskRow
  <2>. QED
    BY <1>3, <2>1, <2>2 DEF Retry
<1>4. ASSUME NEW t \in Task, Tick(t) PROVE TypeInv'
  <2>1. worker' \in Worker /\ worker'.at = "claim" /\ worker'.job = t
    BY <1>4, WorkerType DEF Tick, At
  <2>. QED
    BY <1>4, <2>1 DEF Tick, queue
<1>5. ASSUME NEW t \in Task, Elapse(t) PROVE TypeInv'
  <2>1. task' \in [Task -> TaskRow]
    BY <1>5 DEF Elapse, TaskRow
  <2>. QED
    BY <1>5, <2>1 DEF Elapse
<1>6. CASE Claim
  <2>1. task' \in [Task -> TaskRow]
    BY <1>6 DEF Claim, TaskRow
  <2>2. worker' \in Worker /\ worker'.at = "publish" /\ worker'.job \in Task
    BY <1>6, WorkerType DEF Claim, At
  <2>. QED
    BY <1>6, <2>1, <2>2 DEF Claim
<1>7. CASE SettleTask
  <2>1. task' \in [Task -> TaskRow]
    BY <1>7 DEF SettleTask, TaskRow, StatusFor
  <2>2. worker' \in Worker /\ worker'.at = "idle"
    BY <1>7, WorkerType DEF SettleTask, At
  <2>. QED
    BY <1>7, <2>1, <2>2 DEF SettleTask
<1>. QED
  BY <1>1, <1>2, <1>3, <1>4, <1>5, <1>6, <1>7 DEF Adding, Queue

LEMMA TypeDrafts ==
  ASSUME TypeInv,
         \/ \E d \in Draft : Asking(d) \/ Fire(d) \/ Misfire(d)
         \/ Answering \/ SettleDraft
  PROVE  TypeInv'
<1>. USE DEF TypeInv, TypeOK, InHand, queue, ended, NoRequest
<1>1. ASSUME NEW d \in Draft, Create(d) PROVE TypeInv'
  BY <1>1 DEF Create, DraftStatus
<1>2. ASSUME NEW d \in Draft, Schedule(d) PROVE TypeInv'
  <2>1. draft' \in [Draft -> DraftStatus] /\ surplus' \in [Task \cup Draft -> Int]
    BY <1>2, UpdatedType, SurplusType DEF Schedule, DraftStatus
  <2>. QED
    BY <1>2, <2>1 DEF Schedule, Then
<1>3. ASSUME NEW d \in Draft, Cancel(d) \/ Delete(d) PROVE TypeInv'
  <2>1. draft' \in [Draft -> DraftStatus]
    BY <1>3, UpdatedType DEF Cancel, Delete, DraftStatus
  <2>. QED
    BY <1>3, <2>1 DEF Cancel, Delete, Then
<1>4. ASSUME NEW d \in Draft, BulkCancel(d) PROVE TypeInv'
  BY <1>4 DEF BulkCancel, Then
<1>5. ASSUME NEW d \in Draft, Fire(d) PROVE TypeInv'
  <2>1. worker' \in Worker /\ (worker' = worker \/ (worker'.at = "publish" /\ worker'.job = d))
    BY <1>5, WorkerType DEF Fire, At
  <2>. QED
    BY <1>5, <2>1 DEF Fire
<1>6. ASSUME NEW done \in BOOLEAN, AddJob(done) PROVE TypeInv'
  <2>1. draft' \in [Draft -> DraftStatus] /\ job' \subseteq Draft
    BY <1>6, UpdatedType DEF AddJob, DraftStatus
  <2>. QED
    BY <1>6, <2>1 DEF AddJob
<1>7. ASSUME NEW done \in BOOLEAN, RemoveJob(done) PROVE TypeInv'
  BY <1>7 DEF RemoveJob
<1>8. CASE Unschedule
  <2>1. draft' \in [Draft -> DraftStatus]
    BY <1>8, UpdatedType DEF Unschedule, DraftStatus
  <2>. QED
    BY <1>8, <2>1 DEF Unschedule
<1>9. CASE SettleDraft
  <2>1. draft' \in [Draft -> DraftStatus]
    BY <1>9, UpdatedType DEF SettleDraft, DraftStatus
  <2>2. worker' \in Worker /\ worker'.at = "idle"
    BY <1>9, WorkerType DEF SettleDraft, At
  <2>. QED
    BY <1>9, <2>1, <2>2 DEF SettleDraft
<1>10. ASSUME NEW d \in Draft, Misfire(d) PROVE TypeInv'
  BY <1>10 DEF Misfire
<1>. QED
  BY <1>1, <1>2, <1>3, <1>4, <1>5, <1>6, <1>7, <1>8, <1>9, <1>10 DEF Asking, Answering

LEMMA TypeFaults ==
  ASSUME TypeInv, Failing \/ \E result \in Result : Publish(result)
  PROVE  TypeInv'
<1>. USE DEF TypeInv, TypeOK, InHand
<1>1. ASSUME NEW result \in Result, Publish(result) PROVE TypeInv'
  <2>1. /\ worker' \in Worker /\ worker'.at = "settle" /\ worker'.job = worker.job
        /\ worker.job \in Task \cup Draft
    BY <1>1 DEF Publish, Worker
  <2>2. surplus' \in [Task \cup Draft -> Int]
    <3>1. surplus[worker.job] + 1 \in Int
      BY <2>1, SurplusInt
    <3>2. [surplus EXCEPT ![worker.job] = surplus[worker.job] + 1] \in [Task \cup Draft -> Int]
      BY <2>1, <3>1, SurplusSet
    <3>. QED
      BY <1>1, <3>2 DEF Publish
  <2>. QED
    BY <1>1, <2>1, <2>2 DEF Publish, queue, drafts, ended
<1>2. CASE Crash
  <2>1. worker' \in Worker /\ worker'.at = "down"
    BY <1>2, WorkerType DEF Crash, At
  <2>2. surplus' \in [Task \cup Draft -> Int]
    BY <1>2, SurplusType DEF Crash
  <2>3. adding' \in [Adder -> [on : BOOLEAN, rows : [Task -> TaskRow]]]
    BY <1>2, RowsType DEF Crash
  <2>. QED
    BY <1>2, <2>1, <2>2, <2>3, BoundsAssumption DEF Crash, NoRequest
<1>3. CASE Start
  <2>1. worker' \in Worker /\ worker'.at = "idle"
    BY <1>3, WorkerType DEF Start, At
  <2>2. task' \in [Task -> TaskRow]
    BY <1>3 DEF Start, Reset, TaskRow
  <2>. QED
    BY <1>3, <2>1, <2>2 DEF Start, Restored, ended
<1>4. ASSUME NEW again \in BOOLEAN, StoreFails(again) PROVE TypeInv'
  <2>1. worker' \in Worker /\ worker'.at = "idle"
    BY <1>4, WorkerType DEF StoreFails, At
  <2>2. surplus' \in [Task \cup Draft -> Int]
    BY <1>4, SurplusType DEF StoreFails
  <2>3. task' \in [Task -> TaskRow]
    BY <1>4 DEF StoreFails, TaskRow
  <2>4. draft' \in [Draft -> DraftStatus]
    BY <1>4, UpdatedType DEF StoreFails, DraftStatus
  <2>5. faults' \in 0..MaxFaults
    BY <1>4, BoundsAssumption DEF StoreFails
  <2>. QED
    BY <1>4, <2>1, <2>2, <2>3, <2>4, <2>5 DEF StoreFails
<1>. QED
  BY <1>1, <1>2, <1>3, <1>4 DEF Failing

LEMMA TypeNext == TypeInv /\ [Next]_vars => TypeInv'
<1>. SUFFICES ASSUME TypeInv, [Next]_vars PROVE TypeInv'
  OBVIOUS
<1>1. CASE UNCHANGED vars
  BY <1>1 DEF vars, TypeInv, TypeOK, InHand
<1>2. CASE Next
  BY <1>2, TypeQueue, TypeDrafts, TypeFaults DEF Next, Working
<1>. QED
  BY <1>1, <1>2

\* Every variable has its type, for all sets of tasks, drafts and requests.
THEOREM QueueTypeCorrect == Spec => []TypeOK
<1>1. TypeInv => TypeOK
  BY DEF TypeInv
<1>. QED
  BY <1>1, TypeInit, TypeNext, PTL DEF Spec

-----------------------------------------------------------------------------
(***************************************************************************)
(* The lock.  A retry does not take it, so the rows an add has loaded may  *)
(* be older than the table; but not where it matters: what is claimed or   *)
(* settled, and what is there at all, changes under the lock only.         *)
(***************************************************************************)

Alike(row, now) ==
  /\ row.status = "none" <=> now.status = "none"
  /\ row.status = "processing" <=> now.status = "processing"
  /\ now.status = "success" => row.status = "success"

LockInv ==
  /\ \A a, b \in Adder : adding[a].on /\ adding[b].on => a = b
  /\ worker.at = "down" => LockFree
  /\ \A a \in Adder, t \in Task : adding[a].on => Alike(adding[a].rows[t], task[t])

QueueInv == TypeInv /\ LockInv /\ ClaimHolds

LEMMA QueueInit == Init => QueueInv
<1>. SUFFICES ASSUME Init PROVE LockInv /\ ClaimHolds
  BY TypeInit DEF QueueInv
<1>1. \A a \in Adder : ~adding[a].on
  BY RowsType DEF Init
<1>2. worker.at = "idle"
  BY DEF Init, At
<1>. QED
  BY <1>1, <1>2 DEF LockInv, LockFree, ClaimHolds, Publishes

\* No update is on, nor is one started: the table may change as it likes.
LEMMA Unlocked ==
  ASSUME LockFree, UNCHANGED adding
  PROVE  LockInv'
BY DEF LockFree, LockInv

\* A step of the thread or of an operator that leaves the queue alone.
LEMMA QueueUntouched ==
  ASSUME QueueInv, UNCHANGED queue, worker'.at \notin {"down", "publish", "settle"} \/ worker' = worker
                     \/ (worker'.at \in {"publish", "settle"} /\ worker'.job \in Draft)
                     \/ (worker.at = "publish" /\ worker'.at = "settle" /\ worker'.job = worker.job)
  PROVE  LockInv' /\ ClaimHolds'
BY DisjointAssumption DEF QueueInv, LockInv, LockFree, ClaimHolds, Publishes, queue, Alike

LEMMA LockQueue ==
  ASSUME QueueInv,
         \/ \E a \in Adder : Adding(a)
         \/ \E t \in Task : Queue(t)
         \/ Claim \/ SettleTask
  PROVE  LockInv' /\ ClaimHolds'
<1>. USE DEF QueueInv, TypeInv, TypeOK, InHand
<1>1. ASSUME NEW a \in Adder, AddLoad(a) PROVE LockInv' /\ ClaimHolds'
  <2>1. ClaimHolds'
    BY <1>1 DEF AddLoad, ClaimHolds, Publishes
  <2>2. \A b \in Adder : adding'[b].on => b = a /\ adding'[b].rows = task'
    BY <1>1 DEF AddLoad, LockFree
  <2>3. worker'.at # "down"
    BY <1>1 DEF AddLoad, Up
  <2>. QED
    BY <2>1, <2>2, <2>3 DEF LockInv, Alike
<1>2. ASSUME NEW a \in Adder, NEW t \in Task, AddSave(a, t) PROVE LockInv' /\ ClaimHolds'
  <2>1. \A b \in Adder : ~adding'[b].on
    BY <1>2, RowsType DEF AddSave, LockInv
  <2>2. \A x \in Task \ {t} : task'[x] = adding[a].rows[x]
    BY <1>2 DEF AddSave
  <2>3. task[t].status = "none" /\ worker' = worker
    BY <1>2 DEF AddSave, IsNext
  <2>4. \A x \in Task : Alike(adding[a].rows[x], task[x])
    BY <1>2 DEF AddSave, LockInv
  <2>5. ClaimHolds'
    BY <2>2, <2>3, <2>4 DEF ClaimHolds, Publishes, Alike
  <2>. QED
    BY <2>1, <2>5 DEF LockInv, LockFree
<1>3. ASSUME NEW t \in Task, Retry(t) PROVE LockInv' /\ ClaimHolds'
  <2>1. \A x \in Task : task'[x].status = IF x = t THEN "pending" ELSE task[x].status
    BY <1>3 DEF Retry, TaskRow
  <2>2. task[t].status \notin {"none", "processing"} /\ UNCHANGED <<adding, worker>>
    BY <1>3 DEF Retry, MayRetry, drafts, ended
  <2>3. ClaimHolds'
    BY <2>1, <2>2 DEF ClaimHolds, Publishes
  <2>4. \A a \in Adder, x \in Task : adding[a].on => Alike(adding[a].rows[x], task'[x])
    BY <2>1, <2>2 DEF LockInv, Alike
  <2>. QED
    BY <2>2, <2>3, <2>4 DEF LockInv, LockFree
<1>4. ASSUME NEW t \in Task, Tick(t) PROVE LockInv' /\ ClaimHolds'
  BY <1>4, QueueUntouched DEF Tick, At
<1>5. ASSUME NEW t \in Task, Elapse(t) PROVE LockInv' /\ ClaimHolds'
  <2>1. \A x \in Task : task'[x].status = task[x].status
    BY <1>5 DEF Elapse, TaskRow
  <2>2. UNCHANGED <<adding, worker>>
    BY <1>5 DEF Elapse
  <2>. QED
    BY <2>1, <2>2 DEF LockInv, LockFree, ClaimHolds, Publishes, Alike
<1>6. CASE Claim
  <2>1. LockInv'
    BY <1>6, Unlocked DEF Claim
  <2>2. task'[worker.job].status = "processing" /\ worker'.job = worker.job
    BY <1>6 DEF Claim, At, TaskRow
  <2>. QED
    BY <2>1, <2>2 DEF ClaimHolds, Publishes
<1>7. CASE SettleTask
  <2>1. LockInv'
    BY <1>7, Unlocked DEF SettleTask
  <2>. QED
    BY <1>7, <2>1 DEF SettleTask, At, ClaimHolds, Publishes
<1>. QED
  BY <1>1, <1>2, <1>3, <1>4, <1>5, <1>6, <1>7 DEF Adding, Queue

LEMMA LockDrafts ==
  ASSUME QueueInv,
         \/ \E d \in Draft : Asking(d) \/ Fire(d) \/ Misfire(d)
         \/ Answering \/ SettleDraft
         \/ \E result \in Result : Publish(result)
  PROVE  LockInv' /\ ClaimHolds'
<1>1. ASSUME NEW d \in Draft, Asking(d) PROVE LockInv' /\ ClaimHolds'
  BY <1>1, QueueUntouched DEF Asking, Create, Schedule, Cancel, Delete, BulkCancel
<1>2. CASE Answering
  BY <1>2, QueueUntouched DEF Answering, Unschedule, AddJob, RemoveJob
<1>3. ASSUME NEW d \in Draft, Fire(d) PROVE LockInv' /\ ClaimHolds'
  BY <1>3, QueueUntouched DEF Fire, At
<1>4. CASE SettleDraft
  BY <1>4, QueueUntouched DEF SettleDraft, At
<1>5. ASSUME NEW result \in Result, Publish(result) PROVE LockInv' /\ ClaimHolds'
  <2>1. worker.at = "publish" /\ worker'.at = "settle" /\ worker'.job = worker.job
    BY <1>5 DEF Publish, QueueInv, TypeInv, TypeOK, Worker
  <2>. QED
    BY <1>5, <2>1, QueueUntouched DEF Publish
<1>6. ASSUME NEW d \in Draft, Misfire(d) PROVE LockInv' /\ ClaimHolds'
  BY <1>6, QueueUntouched DEF Misfire
<1>. QED
  BY <1>1, <1>2, <1>3, <1>4, <1>5, <1>6

LEMMA LockFaults ==
  ASSUME QueueInv, Failing
  PROVE  LockInv' /\ ClaimHolds'
<1>. USE DEF QueueInv, TypeInv, TypeOK
<1>1. CASE Crash
  <2>1. \A a \in Adder : ~adding'[a].on
    BY <1>1, RowsType DEF Crash
  <2>. QED
    BY <1>1, <2>1 DEF Crash, At, LockInv, LockFree, ClaimHolds, Publishes
<1>2. CASE Start
  <2>1. LockInv'
    BY <1>2, Unlocked DEF Start, LockInv
  <2>. QED
    BY <1>2, <2>1 DEF Start, At, ClaimHolds, Publishes
<1>3. ASSUME NEW again \in BOOLEAN, StoreFails(again) PROVE LockInv' /\ ClaimHolds'
  <2>1. worker'.at = "idle" /\ UNCHANGED adding
    BY <1>3 DEF StoreFails, At
  <2>2. CASE LockFree
    BY <2>1, <2>2, Unlocked DEF ClaimHolds, Publishes
  <2>3. CASE worker.job \notin Task
    <3>1. UNCHANGED queue
      BY <1>3, <2>3 DEF StoreFails, queue
    <3>. QED
      BY <2>1, <3>1, QueueUntouched
  <2>. QED
    BY <1>3, <2>2, <2>3 DEF StoreFails
<1>. QED
  BY <1>1, <1>2, <1>3 DEF Failing

LEMMA QueueNext == QueueInv /\ [Next]_vars => QueueInv'
<1>. SUFFICES ASSUME QueueInv, [Next]_vars PROVE LockInv' /\ ClaimHolds'
  BY TypeNext DEF QueueInv
<1>1. CASE UNCHANGED vars
  BY <1>1, QueueUntouched DEF vars, queue
<1>2. CASE Next
  BY <1>2, LockQueue, LockDrafts, LockFaults DEF Next, Working
<1>. QED
  BY <1>1, <1>2

\* What the thread is publishing is in processing, whatever requests add and retry
\* meanwhile, and over whatever rows an add that is on has loaded.
THEOREM ClaimIsHeld == Spec => []ClaimHolds
<1>1. QueueInv => ClaimHolds
  BY DEF QueueInv
<1>. QED
  BY <1>1, QueueInit, QueueNext, PTL DEF Spec

-----------------------------------------------------------------------------

LEMMA RowsStay ==
  ASSUME QueueInv, [Next]_vars, NEW t \in Task, task[t].status # "none"
  PROVE  task'[t].status # "none"
<1>. USE DEF QueueInv, TypeInv, TypeOK, TaskRow
<1>1. CASE UNCHANGED task
  BY <1>1
<1>2. ASSUME NEW a \in Adder, NEW x \in Task, AddSave(a, x) PROVE task'[t].status # "none"
  <2>1. adding[a].rows[t].status # "none" /\ x # t
    BY <1>2 DEF AddSave, IsNext, LockInv, Alike
  <2>. QED
    BY <1>2, <2>1 DEF AddSave
<1>3. ASSUME NEW x \in Task, Retry(x) \/ Elapse(x) PROVE task'[t].status # "none"
  <2>0. task \in [Task -> TaskRow]
    OBVIOUS
  <2>1. ASSUME Retry(x) PROVE task'[t].status # "none"
    <3>1. task' = [task EXCEPT ![x].status = "pending"]
      BY <2>1 DEF Retry
    <3>. QED
      BY <2>0, <3>1
  <2>2. ASSUME Elapse(x) PROVE task'[t].status # "none"
    <3>1. task' = [task EXCEPT ![x].wait = FALSE]
      BY <2>2 DEF Elapse
    <3>. QED
      BY <2>0, <3>1
  <2>. QED
    BY <1>3, <2>1, <2>2
<1>4. /\ Claim \/ SettleTask => task'[t].status # "none"
      /\ Start => task'[t].status # "none"
      /\ \A again \in BOOLEAN : StoreFails(again) => task'[t].status # "none"
  <2>1. Claim \/ SettleTask => task'[t].status # "none"
    BY DEF Claim, SettleTask, StatusFor
  <2>2. Start => task'[t].status # "none"
    BY DEF Start, Reset
  <2>3. ASSUME NEW again \in BOOLEAN, StoreFails(again) PROVE task'[t].status # "none"
    BY <2>3 DEF StoreFails
  <2>. QED
    BY <2>1, <2>2, <2>3
<1>5. CASE Next
  <2>1. ASSUME NEW a \in Adder, Adding(a) PROVE task'[t].status # "none"
    BY <1>1, <1>2, <2>1 DEF Adding, AddLoad
  <2>2. ASSUME NEW x \in Task, Queue(x) PROVE task'[t].status # "none"
    BY <1>1, <1>3, <2>2 DEF Queue, Tick, queue
  <2>3. ASSUME NEW d \in Draft, Asking(d) PROVE UNCHANGED task
    BY <2>3 DEF Asking, Create, Schedule, Cancel, Delete, BulkCancel, queue
  <2>4. Answering => UNCHANGED task
    BY DEF Answering, Unschedule, AddJob, RemoveJob, queue
  <2>5. CASE Working
    <3>1. CASE Claim \/ SettleTask
      BY <1>4, <3>1
    <3>2. SettleDraft => UNCHANGED task
      BY DEF SettleDraft, queue
    <3>3. ASSUME NEW result \in Result, Publish(result) PROVE UNCHANGED task
      BY <3>3 DEF Publish, queue
    <3>4. ASSUME NEW d \in Draft, Fire(d) \/ Misfire(d) PROVE UNCHANGED task
      BY <3>4 DEF Fire, Misfire, queue
    <3>. QED
      BY <1>1, <2>5, <3>1, <3>2, <3>3, <3>4 DEF Working
  <2>6. CASE Failing
    BY <1>1, <1>4, <2>6 DEF Failing, Crash
  <2>. QED
    BY <1>1, <1>5, <2>1, <2>2, <2>3, <2>4, <2>5, <2>6 DEF Next
<1>. QED
  BY <1>1, <1>5 DEF vars

\* An add that was answered is never lost, whatever other requests add, retry or
\* settle meanwhile: the save of an add has all the rows there are.
THEOREM AddsAreKept == Spec => TasksKept
<1>1. QueueInv /\ [Next]_vars
        => [\A t \in Task : task[t].status # "none" => task'[t].status # "none"]_vars
  BY RowsStay
<1>. QED
  BY <1>1, QueueInit, QueueNext, PTL DEF Spec, TasksKept

-----------------------------------------------------------------------------
(***************************************************************************)
(* What was published has a status that keeps it from being published      *)
(* again, or its publish is in the thread's hand and will have one.        *)
(***************************************************************************)

Recorded(x) == IF x \in Task THEN task[x].status = "success" ELSE draft[x] # "scheduled"

Once(x) ==
  /\ surplus[x] <= 1
  /\ surplus[x] >= 1 =>
       IF worker.job = x THEN worker.at = "settle" /\ worker.result = "success" ELSE Recorded(x)

OnceInv == QueueInv /\ \A x \in Task \cup Draft : Once(x)

\* A step that counts nothing of x and leaves it recorded, and the thread alone.
LEMMA Uncounted ==
  ASSUME OnceInv, NEW x \in Task \cup Draft,
         surplus'[x] = surplus[x], worker' = worker, Recorded(x) => Recorded(x)'
  PROVE  Once(x)'
BY DEF OnceInv, Once

\* An operator who asks again: what was published is not counted any more.
LEMMA Again ==
  ASSUME OnceInv, NEW x \in Task \cup Draft, NEW y \in Task \cup Draft
  PROVE  AskedAgain(y)[x] = IF x = y /\ surplus[x] > 0 THEN surplus[x] - 1 ELSE surplus[x]
BY DEF OnceInv, QueueInv, TypeInv, TypeOK, AskedAgain

LEMMA Fallen ==
  ASSUME OnceInv, NEW x \in Task \cup Draft
  PROVE  /\ Unrecorded[x] \in Int
         /\ worker.job = x => Unrecorded[x] <= 0
         /\ worker.job # x => Unrecorded[x] = surplus[x]
<1>1. TypeOK /\ TypeInv /\ surplus[x] \in Int /\ Once(x)
  BY DEF OnceInv, QueueInv, TypeInv, TypeOK
<1>2. Unrecorded \in [Task \cup Draft -> Int]
  BY <1>1, SurplusType
<1>3. CASE worker.at = "settle" /\ worker.result = "success"
  <2>1. Unrecorded = [surplus EXCEPT ![worker.job] = surplus[worker.job] - 1]
    BY <1>3 DEF Unrecorded
  <2>2. Unrecorded[x] = IF worker.job = x THEN surplus[x] - 1 ELSE surplus[x]
    BY <1>1, <2>1 DEF TypeOK
  <2>. QED
    BY <1>1, <2>2 DEF Once
<1>4. CASE ~(worker.at = "settle" /\ worker.result = "success")
  <2>1. Unrecorded = surplus
    BY <1>4 DEF Unrecorded
  <2>. QED
    BY <1>1, <1>4, <2>1 DEF Once
<1>. QED
  BY <1>3, <1>4

LEMMA OnceQueue ==
  ASSUME OnceInv, TypeInv', NEW x \in Task \cup Draft,
         \/ \E a \in Adder : Adding(a)
         \/ \E t \in Task : Queue(t)
         \/ Claim \/ SettleTask
  PROVE  Once(x)'
<1>0. /\ TypeInv /\ TypeOK /\ InHand /\ LockInv /\ ClaimHolds /\ Once(x)
      /\ surplus[x] \in Int
  BY DEF OnceInv, QueueInv, TypeInv, TypeOK
<1>1. ASSUME NEW a \in Adder, AddLoad(a) PROVE Once(x)'
  BY <1>1, Uncounted DEF AddLoad, drafts, Recorded
<1>2. ASSUME NEW a \in Adder, NEW t \in Task, AddSave(a, t) PROVE Once(x)'
  <2>1. UNCHANGED <<surplus, worker, draft>> /\ task[t].status = "none"
    BY <1>2 DEF AddSave, drafts, IsNext
  <2>2. ASSUME x \in Task, task[x].status = "success" PROVE task'[x].status = "success"
    <3>1. adding[a].rows[x].status = "success" /\ x # t
      BY <1>0, <1>2, <2>1, <2>2 DEF AddSave, LockInv, Alike
    <3>. QED
      BY <1>0, <1>2, <2>2, <3>1 DEF AddSave, TypeOK
  <2>3. Recorded(x) => Recorded(x)'
    BY <2>1, <2>2 DEF Recorded
  <2>. QED
    BY <2>1, <2>3, Uncounted
<1>3. ASSUME NEW t \in Task, Retry(t) PROVE Once(x)'
  <2>1. UNCHANGED <<worker, draft>>
    BY <1>3 DEF Retry, drafts
  <2>2. CASE x = t
    <3>1. surplus'[x] <= 0
      <4>1. CASE task[t].status = "success"
        <5>1. surplus' = AskedAgain(t)
          BY <1>3, <4>1 DEF Retry
        <5>2. surplus'[x] = IF surplus[x] > 0 THEN surplus[x] - 1 ELSE surplus[x]
          BY <2>2, <5>1, Again
        <5>. QED
          BY <1>0, <5>2 DEF Once
      <4>2. CASE task[t].status # "success"
        <5>1. surplus' = surplus /\ task[t].status # "processing"
          BY <1>3, <4>2 DEF Retry, MayRetry
        <5>2. surplus[x] < 1
          BY <1>0, <2>2, <4>2, <5>1 DEF Once, Recorded, ClaimHolds, Publishes
        <5>. QED
          BY <1>0, <5>1, <5>2
      <4>. QED
        BY <4>1, <4>2
    <3>2. surplus'[x] \in Int
      BY DEF TypeInv, TypeOK
    <3>. QED
      BY <3>1, <3>2 DEF Once
  <2>3. CASE x # t
    <3>1. surplus'[x] = surplus[x]
      BY <1>3, <2>3, Again DEF Retry
    <3>2. Recorded(x) => Recorded(x)'
      BY <1>0, <1>3, <2>1, <2>3 DEF Retry, Recorded, TypeOK
    <3>. QED
      BY <2>1, <3>1, <3>2, Uncounted
  <2>. QED
    BY <2>2, <2>3
<1>4. ASSUME NEW t \in Task, Tick(t) PROVE Once(x)'
  <2>1. UNCHANGED <<surplus, task, draft>> /\ worker'.job = t /\ worker.at = "idle"
    BY <1>4 DEF Tick, queue, drafts, At
  <2>2. task[t].status # "success"
    BY <1>4 DEF Tick, Runnable
  <2>3. x = t => surplus[x] < 1
    BY <1>0, <2>1, <2>2 DEF Once, Recorded
  <2>. QED
    BY <1>0, <2>1, <2>3 DEF Once, Recorded
<1>5. ASSUME NEW t \in Task, Elapse(t) PROVE Once(x)'
  <2>1. UNCHANGED <<surplus, worker, draft>>
    BY <1>5 DEF Elapse, drafts
  <2>2. Recorded(x) => Recorded(x)'
    BY <1>0, <1>5, <2>1 DEF Elapse, Recorded, TypeOK, TaskRow
  <2>. QED
    BY <2>1, <2>2, Uncounted
<1>6. CASE Claim
  <2>1. /\ UNCHANGED <<surplus, draft>> /\ worker'.job = worker.job /\ worker.at = "claim"
        /\ worker.job \in Task
    BY <1>0, <1>6 DEF Claim, drafts, At, InHand
  <2>2. worker.job # x => (Recorded(x) => Recorded(x)')
    BY <1>0, <1>6, <2>1 DEF Claim, Recorded, TypeOK
  <2>. QED
    BY <1>0, <2>1, <2>2 DEF Once
<1>7. CASE SettleTask
  <2>1. UNCHANGED <<surplus, draft>> /\ worker'.job = NoJob /\ worker.job \in Task
    BY <1>7 DEF SettleTask, drafts, At
  <2>2. x # NoJob
    BY DisjointAssumption
  <2>3. CASE worker.job = x
    <3>1. task'[x].status = StatusFor(worker.result)
      BY <1>0, <1>7, <2>3 DEF SettleTask, TypeOK
    <3>. QED
      BY <1>0, <2>1, <2>2, <2>3, <3>1 DEF Once, Recorded, StatusFor
  <2>4. CASE worker.job # x
    <3>1. x \in Task => task'[x] = task[x]
      BY <1>0, <1>7, <2>4 DEF SettleTask, TypeOK
    <3>. QED
      BY <1>0, <2>1, <2>2, <2>4, <3>1 DEF Once, Recorded
  <2>. QED
    BY <2>3, <2>4
<1>. QED
  BY <1>1, <1>2, <1>3, <1>4, <1>5, <1>6, <1>7 DEF Adding, Queue

LEMMA OnceDrafts ==
  ASSUME OnceInv, TypeInv', NEW x \in Task \cup Draft,
         \/ \E d \in Draft : Asking(d) \/ Fire(d) \/ Misfire(d)
         \/ Answering \/ SettleDraft
  PROVE  Once(x)'
<1>0. /\ TypeInv /\ TypeOK /\ InHand /\ Once(x) /\ surplus[x] \in Int /\ surplus'[x] \in Int
  BY DEF OnceInv, QueueInv, TypeInv, TypeOK
<1>1. ASSUME UNCHANGED <<surplus, worker, task>>, draft' = draft \/ \E d \in Draft :
                \E status \in DraftStatus \ {"scheduled"} : draft' = Updated(d, status)
      PROVE  Once(x)'
  <2>1. Recorded(x) => Recorded(x)'
    BY <1>0, <1>1 DEF Recorded, Updated, TypeOK
  <2>. QED
    BY <1>1, <2>1, Uncounted
<1>2. ASSUME NEW d \in Draft, Create(d) PROVE Once(x)'
  <2>1. UNCHANGED <<surplus, worker, task>>
    BY <1>2 DEF Create, queue
  <2>2. Recorded(x) => Recorded(x)'
    BY <1>0, <1>2, <2>1 DEF Create, Recorded, TypeOK
  <2>. QED
    BY <2>1, <2>2, Uncounted
<1>3. ASSUME NEW d \in Draft, Schedule(d) PROVE Once(x)'
  <2>1. UNCHANGED <<worker, task>>
    BY <1>3 DEF Schedule, queue
  <2>2. CASE x = d
    <3>1. CASE draft[d] = "scheduled"
      <4>1. surplus' = surplus /\ draft' = draft
        BY <1>0, <1>3, <3>1 DEF Schedule, Updated, TypeOK
      <4>. QED
        BY <2>1, <4>1, Uncounted DEF Recorded
    <3>2. CASE draft[d] # "scheduled"
      <4>1. surplus'[x] = IF surplus[x] > 0 THEN surplus[x] - 1 ELSE surplus[x]
        BY <1>3, <2>2, <3>2, Again DEF Schedule
      <4>. QED
        BY <1>0, <4>1 DEF Once
    <3>. QED
      BY <3>1, <3>2
  <2>3. CASE x # d
    <3>1. surplus'[x] = surplus[x]
      BY <1>3, <2>3, Again DEF Schedule
    <3>2. Recorded(x) => Recorded(x)'
      BY <1>0, <1>3, <2>1, <2>3 DEF Schedule, Updated, Recorded, TypeOK
    <3>. QED
      BY <2>1, <3>1, <3>2, Uncounted
  <2>. QED
    BY <2>2, <2>3
<1>4. ASSUME NEW d \in Draft, Cancel(d) \/ Delete(d) \/ BulkCancel(d) PROVE Once(x)'
  BY <1>1, <1>4 DEF Cancel, Delete, BulkCancel, queue, DraftStatus
<1>5. CASE Answering
  <2>1. ASSUME NEW done \in BOOLEAN, AddJob(done) \/ RemoveJob(done) PROVE Once(x)'
    BY <1>0, <1>1, <2>1 DEF AddJob, RemoveJob, queue, InHand, DraftStatus
  <2>2. CASE Unschedule
    BY <1>0, <1>1, <2>2 DEF Unschedule, queue, InHand, DraftStatus
  <2>. QED
    BY <1>5, <2>1, <2>2 DEF Answering
<1>6. ASSUME NEW d \in Draft, Fire(d) PROVE Once(x)'
  <2>1. UNCHANGED <<surplus, task, draft>> /\ worker.at = "idle"
    BY <1>6 DEF Fire, queue
  <2>2. CASE draft[d] = "scheduled"
    <3>1. worker'.job = d
      BY <1>6, <2>2 DEF Fire, MayPublish, At
    <3>2. x = d => surplus[x] < 1
      <4>1. d \notin Task
        BY DisjointAssumption
      <4>. QED
        BY <1>0, <2>1, <2>2, <4>1 DEF Once, Recorded
    <3>. QED
      BY <1>0, <2>1, <3>1, <3>2 DEF Once, Recorded
  <2>3. CASE draft[d] # "scheduled"
    BY <1>1, <1>6, <2>1, <2>3 DEF Fire, MayPublish
  <2>. QED
    BY <2>2, <2>3
<1>7. CASE SettleDraft
  <2>1. UNCHANGED <<surplus, task>> /\ worker'.job = NoJob /\ worker.job \in Draft
    BY <1>7 DEF SettleDraft, queue, ended, At
  <2>2. x # NoJob
    BY DisjointAssumption
  <2>3. CASE worker.job = x
    <3>1. x \notin Task
      BY <2>1, <2>3, DisjointAssumption
    <3>2. worker.result = "success" => draft'[x] # "scheduled"
      BY <1>0, <1>7, <2>1, <2>3 DEF SettleDraft, Updated, Present, TypeOK
    <3>. QED
      BY <1>0, <2>1, <2>2, <2>3, <3>1, <3>2 DEF Once, Recorded
  <2>4. CASE worker.job # x
    <3>1. x \in Draft => draft'[x] = draft[x]
      BY <1>0, <1>7, <2>1, <2>4 DEF SettleDraft, Updated, TypeOK
    <3>. QED
      BY <1>0, <2>1, <2>2, <2>4, <3>1 DEF Once, Recorded
  <2>. QED
    BY <2>3, <2>4
<1>8. ASSUME NEW d \in Draft, Misfire(d) PROVE Once(x)'
  BY <1>1, <1>8 DEF Misfire, queue
<1>. QED
  BY <1>2, <1>3, <1>4, <1>5, <1>6, <1>7, <1>8 DEF Asking

LEMMA OnceFaults ==
  ASSUME OnceInv, TypeInv', NEW x \in Task \cup Draft,
         Failing \/ \E result \in Result : Publish(result)
  PROVE  Once(x)'
<1>0. /\ TypeInv /\ TypeOK /\ InHand /\ Once(x) /\ surplus[x] \in Int /\ surplus'[x] \in Int
      /\ x # NoJob
  BY DisjointAssumption DEF OnceInv, QueueInv, TypeInv, TypeOK
<1>1. ASSUME NEW result \in Result, Publish(result) PROVE Once(x)'
  <2>1. /\ worker.at = "publish" /\ worker'.at = "settle" /\ worker'.job = worker.job
        /\ worker'.result = result /\ UNCHANGED <<task, draft>>
    BY <1>0, <1>1 DEF Publish, TypeOK, Worker, queue, drafts
  <2>2. CASE worker.job = x
    <3>1. surplus'[x] = IF result = "success" THEN surplus[x] + 1 ELSE surplus[x]
      BY <1>0, <1>1, <2>2 DEF Publish, TypeOK
    <3>. QED
      BY <1>0, <2>1, <2>2, <3>1 DEF Once
  <2>3. CASE worker.job # x
    <3>1. surplus'[x] = surplus[x]
      BY <1>0, <1>1, <2>3 DEF Publish, TypeOK
    <3>. QED
      BY <1>0, <2>1, <2>3, <3>1 DEF Once, Recorded
  <2>. QED
    BY <2>2, <2>3
<1>2. CASE Crash
  <2>1. surplus'[x] = Unrecorded[x] /\ worker'.job = NoJob /\ UNCHANGED <<task, draft>>
    BY <1>2 DEF Crash, At
  <2>. QED
    BY <1>0, <2>1, Fallen DEF Once, Recorded
<1>3. CASE Start
  <2>1. UNCHANGED <<surplus, draft>> /\ worker'.job = NoJob /\ worker.at = "down"
    BY <1>3 DEF Start, ended, At
  <2>2. Recorded(x) => Recorded(x)'
    BY <1>3, <2>1 DEF Start, Recorded, Reset
  <2>. QED
    BY <1>0, <2>1, <2>2 DEF Once
<1>4. ASSUME NEW again \in BOOLEAN, StoreFails(again) PROVE Once(x)'
  <2>1. surplus'[x] = Unrecorded[x] /\ worker'.job = NoJob
    BY <1>4 DEF StoreFails, At
  <2>2. worker.job # x => (Recorded(x) => Recorded(x)')
    BY <1>0, <1>4 DEF StoreFails, Recorded, Updated, TypeOK
  <2>. QED
    BY <1>0, <2>1, <2>2, Fallen DEF Once
<1>. QED
  BY <1>1, <1>2, <1>3, <1>4 DEF Failing

LEMMA OnceNext == OnceInv /\ [Next]_vars => OnceInv'
<1>. SUFFICES ASSUME OnceInv, [Next]_vars, NEW x \in Task \cup Draft PROVE Once(x)'
  BY QueueNext DEF OnceInv
<1>1. TypeInv'
  BY QueueNext DEF OnceInv, QueueInv
<1>2. CASE UNCHANGED vars
  BY <1>2, Uncounted DEF vars, Recorded
<1>3. CASE Next
  BY <1>1, <1>3, OnceQueue, OnceDrafts, OnceFaults DEF Next, Working
<1>. QED
  BY <1>2, <1>3

\* No task and no draft is published twice but by an operator who asks for it, a
\* crash, or a fault of the store: for any number of requests that add, retry,
\* schedule, cancel and delete while the thread publishes.
THEOREM PublishesOnce == Spec => []PublishedOnce
<1>1. Init => OnceInv
  <2>1. ASSUME Init PROVE \A x \in Task \cup Draft : Once(x)
    BY <2>1 DEF Init, Once
  <2>. QED
    BY <2>1, QueueInit DEF OnceInv
<1>2. OnceInv => PublishedOnce
  BY DEF OnceInv, Once, PublishedOnce
<1>. QED
  BY <1>1, <1>2, OnceNext, PTL DEF Spec

-----------------------------------------------------------------------------
(***************************************************************************)
(* Nothing is left behind.  The two halves are about steps of their own:   *)
(* the claim and the result of a task are written by the thread, around    *)
(* its publish; the status of a draft and its job are two writes of a      *)
(* request or of the thread, and whichever comes second knows the first.   *)
(***************************************************************************)

Held == faults = 0 /\ Up => \A t \in Task : task[t].status = "processing" => Publishes(t)

Asked(d) == req.draft = d /\ req.step \in {"addJob", "unschedule"}

Armed ==
  faults = 0 /\ Up =>
    \A d \in Draft : draft[d] = "scheduled" => d \in job \cup missed \/ Publishes(d) \/ Asked(d)

\* A job that a request is about to remove has a draft that is not scheduled: no
\* other request may schedule it meanwhile, and an outcome does not.
Removing == req.step = "removeJob" => draft[req.draft] # "scheduled"

StrandedInv == QueueInv /\ Held /\ Armed /\ Removing

\* A step that leaves the tasks alone, and a publish of a task in the thread.
LEMMA HeldStays ==
  ASSUME Held, UNCHANGED <<task, faults>>, Up' => Up,
         \A t \in Task : Publishes(t) => Publishes(t)'
  PROVE  Held'
BY DEF Held

\* A step that leaves the drafts and their jobs alone, and a publish of a draft.
LEMMA ArmedStays ==
  ASSUME Armed, Removing, UNCHANGED <<drafts, faults>>, Up' => Up,
         \A d \in Draft : Publishes(d) => Publishes(d)'
  PROVE  Armed' /\ Removing'
BY DEF Armed, Removing, Asked, drafts

LEMMA StrandedQueue ==
  ASSUME StrandedInv,
         \/ \E a \in Adder : Adding(a)
         \/ \E t \in Task : Queue(t)
         \/ Claim \/ SettleTask
  PROVE  Held' /\ Armed' /\ Removing'
<1>0. /\ TypeInv /\ TypeOK /\ InHand /\ LockInv /\ Held /\ Armed /\ Removing
      /\ task \in [Task -> TaskRow]
  BY DEF StrandedInv, QueueInv, TypeInv, TypeOK
<1>1. ASSUME NEW a \in Adder, AddLoad(a) PROVE Held' /\ Armed' /\ Removing'
  BY <1>0, <1>1, HeldStays, ArmedStays DEF AddLoad, ended, Up, Publishes
<1>2. ASSUME NEW a \in Adder, NEW t \in Task, AddSave(a, t) PROVE Held' /\ Armed' /\ Removing'
  <2>1. UNCHANGED <<drafts, worker, faults>>
    BY <1>2 DEF AddSave, ended
  <2>2. \A x \in Task : task'[x].status = "processing" => task[x].status = "processing"
    <3>1. adding[a].rows \in [Task -> TaskRow]
      BY <1>0 DEF TypeOK
    <3>2. task'[t].status = "pending"
      BY <1>2, <3>1 DEF AddSave, TaskRow
    <3>3. \A x \in Task \ {t} : task'[x] = adding[a].rows[x]
      BY <1>2, <3>1 DEF AddSave
    <3>. QED
      BY <1>0, <1>2, <3>2, <3>3 DEF AddSave, LockInv, Alike
  <2>3. Held'
    BY <1>0, <2>1, <2>2 DEF Held, Up, Publishes
  <2>. QED
    BY <1>0, <2>1, <2>3, ArmedStays DEF Up, Publishes
<1>3. ASSUME NEW t \in Task, Retry(t) \/ Elapse(t) PROVE Held' /\ Armed' /\ Removing'
  <2>1. UNCHANGED <<drafts, worker, faults>>
    BY <1>3 DEF Retry, Elapse, ended
  <2>2. \A x \in Task : task'[x].status = "processing" => task[x].status = "processing"
    BY <1>0, <1>3 DEF Retry, Elapse, TaskRow
  <2>3. Held'
    BY <1>0, <2>1, <2>2 DEF Held, Up, Publishes
  <2>. QED
    BY <1>0, <2>1, <2>3, ArmedStays DEF Up, Publishes
<1>4. ASSUME NEW t \in Task, Tick(t) PROVE Held' /\ Armed' /\ Removing'
  <2>1. UNCHANGED <<task, drafts, faults>> /\ worker.at = "idle"
    BY <1>4 DEF Tick, queue, ended
  <2>. QED
    BY <1>0, <2>1, HeldStays, ArmedStays DEF Up, Publishes
<1>5. CASE Claim
  <2>1. /\ UNCHANGED <<drafts, faults>> /\ worker.at = "claim" /\ worker.job \in Task
        /\ worker'.at = "publish" /\ worker'.job = worker.job
    BY <1>0, <1>5 DEF Claim, At, InHand, ended
  <2>2. \A x \in Task \ {worker.job} : task'[x] = task[x]
    BY <1>0, <1>5 DEF Claim
  <2>3. Held'
    BY <1>0, <2>1, <2>2 DEF Held, Up, Publishes
  <2>. QED
    BY <1>0, <2>1, <2>3, ArmedStays DEF Up, Publishes
<1>6. CASE SettleTask
  <2>1. /\ UNCHANGED <<drafts, faults>> /\ worker.at = "settle" /\ worker.job \in Task
        /\ worker.job \notin Draft
    BY <1>6, DisjointAssumption DEF SettleTask, ended
  <2>2. \A x \in Task : task'[x].status = "processing" => task[x].status = "processing" /\ x # worker.job
    BY <1>0, <1>6 DEF SettleTask, StatusFor
  <2>3. Held'
    BY <1>0, <2>1, <2>2 DEF Held, Up, Publishes
  <2>. QED
    BY <1>0, <2>1, <2>3, ArmedStays DEF Up, Publishes
<1>. QED
  BY <1>1, <1>2, <1>3, <1>4, <1>5, <1>6 DEF Adding, Queue

LEMMA StrandedAsking ==
  ASSUME StrandedInv, \/ \E d \in Draft : Asking(d)
                      \/ Answering
  PROVE  Held' /\ Armed' /\ Removing'
<1>0. /\ TypeInv /\ TypeOK /\ InHand /\ Held /\ Armed /\ Removing
      /\ draft \in [Draft -> DraftStatus]
  BY DEF StrandedInv, QueueInv, TypeInv, TypeOK
<1>1. UNCHANGED <<task, worker, faults>> => Held'
  BY <1>0, HeldStays DEF Up, Publishes
<1>2. ASSUME NEW d \in Draft, Create(d) PROVE Held' /\ Armed' /\ Removing'
  <2>1. UNCHANGED <<task, worker, faults, job, req, missed>>
    BY <1>2 DEF Create, queue, ended
  <2>2. \A x \in Draft : draft'[x] = "scheduled" => draft[x] = "scheduled"
    BY <1>0, <1>2 DEF Create
  <2>. QED
    BY <1>0, <1>1, <2>1, <2>2 DEF Armed, Removing, Asked, Up, Publishes, InHand
<1>3. ASSUME NEW d \in Draft, Schedule(d) PROVE Held' /\ Armed' /\ Removing'
  <2>1. /\ UNCHANGED <<task, worker, faults, job, missed>> /\ req = NoRequest
        /\ req'.step = "addJob" /\ req'.draft = d
    BY <1>3 DEF Schedule, MayAsk, Then, queue, ended
  <2>2. \A x \in Draft \ {d} : draft'[x] = draft[x]
    BY <1>0, <1>3 DEF Schedule, Updated
  <2>. QED
    BY <1>0, <1>1, <2>1, <2>2 DEF Armed, Removing, Asked, Up, Publishes, NoRequest
<1>4. ASSUME NEW d \in Draft, Cancel(d) \/ Delete(d) PROVE Held' /\ Armed' /\ Removing'
  <2>1. /\ UNCHANGED <<task, worker, faults, job, missed>> /\ req = NoRequest
        /\ req'.step = "removeJob" /\ req'.draft = d
    BY <1>4 DEF Cancel, Delete, MayAsk, Then, queue, ended
  <2>2. \A x \in Draft : draft'[x] = "scheduled" => draft[x] = "scheduled" /\ x # d
    BY <1>0, <1>4 DEF Cancel, Delete, Updated, Present
  <2>. QED
    BY <1>0, <1>1, <2>1, <2>2 DEF Armed, Removing, Asked, Up, Publishes, NoRequest
<1>5. ASSUME NEW d \in Draft, BulkCancel(d) PROVE Held' /\ Armed' /\ Removing'
  <2>1. /\ UNCHANGED <<task, worker, faults, draft, missed>> /\ req = NoRequest /\ job' = job \ {d}
        /\ req'.step = "unschedule" /\ req'.draft = d
    BY <1>5 DEF BulkCancel, MayAsk, Then, queue, ended
  <2>. QED
    BY <1>0, <1>1, <2>1 DEF Armed, Removing, Asked, Up, Publishes, NoRequest
<1>6. ASSUME NEW done \in BOOLEAN, AddJob(done) PROVE Held' /\ Armed' /\ Removing'
  <2>1. /\ UNCHANGED <<task, worker, faults>> /\ req.step = "addJob" /\ req'.step = "none"
    BY <1>6 DEF AddJob, NoRequest, queue, ended
  <2>2. /\ done => /\ job' = job \cup {req.draft} /\ draft' = draft
                   /\ missed' = missed \ {req.draft}
        /\ ~done => /\ job' = job /\ missed' = missed
                    /\ \A x \in Draft : draft'[x] = "scheduled" => draft[x] = "scheduled" /\ x # req.draft
    BY <1>0, <1>6 DEF AddJob, Updated, Present, InHand
  <2>. QED
    BY <1>0, <1>1, <2>1, <2>2 DEF Armed, Removing, Asked, Up, Publishes
<1>7. ASSUME NEW done \in BOOLEAN, RemoveJob(done) PROVE Held' /\ Armed' /\ Removing'
  <2>1. /\ UNCHANGED <<task, worker, faults, draft, missed>> /\ req.step = "removeJob" /\ req'.step = "none"
        /\ job \ {req.draft} \subseteq job'
    BY <1>7 DEF RemoveJob, NoRequest, queue, ended
  <2>. QED
    BY <1>0, <1>1, <2>1 DEF Armed, Removing, Asked, Up, Publishes
<1>8. CASE Unschedule
  <2>1. /\ UNCHANGED <<task, worker, faults, job, missed>> /\ req.step = "unschedule" /\ req'.step = "none"
    BY <1>8 DEF Unschedule, NoRequest, queue, ended
  <2>2. \A x \in Draft : draft'[x] = "scheduled" => draft[x] = "scheduled" /\ x # req.draft
    BY <1>0, <1>8, <2>1 DEF Unschedule, Updated, Present, InHand
  <2>. QED
    BY <1>0, <1>1, <2>1, <2>2 DEF Armed, Removing, Asked, Up, Publishes
<1>. QED
  BY <1>2, <1>3, <1>4, <1>5, <1>6, <1>7, <1>8 DEF Asking, Answering

LEMMA StrandedThread ==
  ASSUME StrandedInv,
         \/ \E d \in Draft : Fire(d) \/ Misfire(d)
         \/ SettleDraft \/ Failing
         \/ \E result \in Result : Publish(result)
  PROVE  Held' /\ Armed' /\ Removing'
<1>0. /\ TypeInv /\ TypeOK /\ InHand /\ Held /\ Armed /\ Removing
      /\ draft \in [Draft -> DraftStatus] /\ task \in [Task -> TaskRow] /\ worker \in Worker
      /\ faults \in Nat
  BY BoundsAssumption DEF StrandedInv, QueueInv, TypeInv, TypeOK
<1>1. ASSUME NEW d \in Draft, Fire(d) PROVE Held' /\ Armed' /\ Removing'
  <2>1. /\ UNCHANGED <<task, faults, draft, req, missed>> /\ worker.at = "idle" /\ job' = job \ {d}
        /\ draft[d] = "scheduled" => worker'.at = "publish" /\ worker'.job = d
    BY <1>1 DEF Fire, MayPublish, At, queue, ended
  <2>2. Held'
    BY <1>0, <2>1, HeldStays DEF Up, Publishes
  <2>. QED
    BY <1>0, <2>1, <2>2 DEF Armed, Removing, Asked, Up, Publishes
<1>2. CASE SettleDraft
  <2>1. /\ UNCHANGED <<task, faults, job, req, missed>> /\ worker.at = "settle" /\ worker.job \in Draft
        /\ worker.job \notin Task
    BY <1>2, DisjointAssumption DEF SettleDraft, queue, ended
  <2>2. \A x \in Draft : draft'[x] = "scheduled" => draft[x] = "scheduled" /\ x # worker.job
    BY <1>0, <1>2 DEF SettleDraft, Updated, Present
  <2>3. Held'
    BY <1>0, <2>1, HeldStays DEF Up, Publishes
  <2>. QED
    BY <1>0, <2>1, <2>2, <2>3 DEF Armed, Removing, Asked, Up, Publishes, InHand
<1>3. ASSUME NEW result \in Result, Publish(result) PROVE Held' /\ Armed' /\ Removing'
  <2>1. /\ UNCHANGED <<task, drafts, faults>> /\ worker.at = "publish"
        /\ worker'.at = "settle" /\ worker'.job = worker.job
    BY <1>0, <1>3 DEF Publish, Worker, queue, ended
  <2>. QED
    BY <1>0, <2>1, HeldStays, ArmedStays DEF Up, Publishes
<1>4. CASE Crash
  <2>1. worker'.at = "down" /\ req'.step = "none"
    BY <1>4 DEF Crash, At, NoRequest
  <2>. QED
    BY <2>1 DEF Held, Armed, Removing, Up
<1>5. CASE Start
  <2>1. /\ UNCHANGED <<draft, req>> /\ job' = Restored
        /\ \A t \in Task : task'[t].status # "processing"
    BY <1>0, <1>5 DEF Start, Reset, TaskRow
  <2>. QED
    BY <1>0, <2>1 DEF Held, Armed, Removing, Restored
<1>6. ASSUME NEW again \in BOOLEAN, StoreFails(again) PROVE Held' /\ Armed' /\ Removing'
  <2>1. faults' # 0 /\ req' = req
    BY <1>0, <1>6 DEF StoreFails
  <2>2. \A x \in Draft : draft'[x] = "scheduled" => draft[x] = "scheduled"
    BY <1>0, <1>6 DEF StoreFails, Updated
  <2>. QED
    BY <1>0, <2>1, <2>2 DEF Held, Armed, Removing, InHand
<1>7. ASSUME NEW d \in Draft, Misfire(d) PROVE Held' /\ Armed' /\ Removing'
  <2>1. /\ UNCHANGED <<task, faults, draft, req, worker>> /\ job \cup missed \subseteq job' \cup missed'
    BY <1>7 DEF Misfire, queue, ended
  <2>2. Held'
    BY <1>0, <2>1, HeldStays DEF Up, Publishes
  <2>. QED
    BY <1>0, <2>1, <2>2 DEF Armed, Removing, Asked, Up, Publishes
<1>. QED
  BY <1>1, <1>2, <1>3, <1>4, <1>5, <1>6, <1>7 DEF Failing

LEMMA StrandedNext == StrandedInv /\ [Next]_vars => StrandedInv'
<1>. SUFFICES ASSUME StrandedInv, [Next]_vars PROVE Held' /\ Armed' /\ Removing'
  BY QueueNext DEF StrandedInv
<1>1. CASE UNCHANGED vars
  BY <1>1 DEF vars, StrandedInv, Held, Armed, Removing, Asked, Up, Publishes
<1>2. CASE Next
  BY <1>2, StrandedQueue, StrandedAsking, StrandedThread DEF Next, Working
<1>. QED
  BY <1>1, <1>2

\* Unless a write of a result fails for good, nothing says processing or scheduled
\* that the thread, a job or a request does not have in hand, but drafts whose job
\* came too late to run, over crashes, restarts, late outcomes and requests that fail
\* half-way: what TaskSettles and DraftFires need to be true at every moment.
THEOREM NothingIsStranded == Spec => []NothingStranded
<1>1. Init => StrandedInv
  <2>1. ASSUME Init PROVE Held /\ Armed /\ Removing
    BY <2>1 DEF Init, NoUpdate, NoRequest, Held, Armed, Removing
  <2>. QED
    BY <2>1, QueueInit DEF StrandedInv
<1>2. StrandedInv => NothingStranded
  BY DEF StrandedInv, Held, Armed, Asked, NothingStranded
<1>. QED
  BY <1>1, <1>2, StrandedNext, PTL DEF Spec

=============================================================================
