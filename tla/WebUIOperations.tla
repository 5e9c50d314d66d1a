---------------------------- MODULE WebUIOperations ----------------------------
(***************************************************************************)
(* The WebUI's asynchronous operations: the requests that create, start    *)
(* and cancel them (webui_app/api/v1/operations.py), the pool of threads   *)
(* that runs them (webui_app/services/operation_worker.py), and their      *)
(* records (webui_store/operation_store.py), each write of which merges    *)
(* some fields into the record whatever it says by then.                   *)
(*                                                                         *)
(* A row counts as a success when it carries a URL, and a row that the     *)
(* dedup gate skips as a duplicate carries the one the store has.          *)
(*                                                                         *)
(* live, posted and dropped are history variables: the targets that have a *)
(* post, the operations that made one, and those whose future was          *)
(* cancelled before it ran.                                                *)
(***************************************************************************)
EXTENDS Integers, FiniteSets

CONSTANTS
  Op,           \* operations
  Publishing,   \* those of a kind that is single-flight: publish and publish_chain
  Target,       \* what a row publishes, on the operation's platform
  Rows,         \* the rows of an operation that publishes
  Threads,      \* threads of the pool
  MaxCrashes    \* bound on the crashes of the process

ASSUME PublishingAssumption == Publishing \subseteq Op
ASSUME RowsAssumption == Rows \in [Publishing -> SUBSET Target]
ASSUME ThreadsAssumption == Threads \in Nat \ {0}
ASSUME CrashesAssumption == MaxCrashes \in Nat

VARIABLES
  status,    \* the records
  future,    \* the futures of the worker
  request,   \* the request that creates each operation
  cancel,    \* a request that cancels it
  crashes,
  live,
  posted,
  dropped

vars == <<status, future, request, cancel, crashes, live, posted, dropped>>

Terminal == {"success", "failed", "canceled"}

Status == {"none", "pending", "running"} \cup Terminal

\* begin, publish: the steps of a thread that runs the operation.  urls, bare: its
\* publish is over, and some of its rows carry a URL, or none does.
Future == {"none", "queued", "begin", "publish", "urls", "bare", "done"}

\* refused: start() raised AlreadyRunningError, and the record is not told yet.
RequestStep == {"none", "created", "refused", "answered"}

\* live: its future was not done.  orphan: it had none, or it was done.
CancelStep == {"none", "live", "orphan", "write"}

Init ==
  /\ status = [o \in Op |-> "none"]
  /\ future = [o \in Op |-> "none"]
  /\ request = [o \in Op |-> "none"]
  /\ cancel = [o \in Op |-> "none"]
  /\ crashes = 0
  /\ live = {}
  /\ posted = {}
  /\ dropped = {}

InThread(o) == future[o] \in {"begin", "publish", "urls", "bare"}

Live(o) == InThread(o) \/ future[o] = "queued"

-----------------------------------------------------------------------------
(***************************************************************************)
(* create_operation.                                                       *)
(***************************************************************************)

Create(o) ==
  /\ status[o] = "none" /\ request[o] = "none"
  /\ status' = [status EXCEPT ![o] = "pending"]
  /\ request' = [request EXCEPT ![o] = "created"]
  /\ UNCHANGED <<future, cancel, crashes, live, posted, dropped>>

\* Variant: what is running is what the records say is running.
Busy_ByStatus == \E o \in Publishing : status[o] = "running"

\* _any_single_flight_running: a future that is not done.
Busy == \E o \in Publishing : Live(o)

\* start(), whose check and submit are one step under the worker's lock.
Start(o) ==
  LET refused == o \in Publishing /\ Busy IN
  /\ request[o] = "created"
  /\ request' = [request EXCEPT ![o] = IF refused THEN "refused" ELSE "answered"]
  /\ future' = IF refused THEN future ELSE [future EXCEPT ![o] = "queued"]
  /\ UNCHANGED <<status, cancel, crashes, live, posted, dropped>>

\* The record of an operation that was not started.
Refuse(o) ==
  /\ request[o] = "refused"
  /\ request' = [request EXCEPT ![o] = "answered"]
  /\ status' = [status EXCEPT ![o] = "failed"]
  /\ UNCHANGED <<future, cancel, crashes, live, posted, dropped>>

-----------------------------------------------------------------------------
(***************************************************************************)
(* _execute_operation.                                                     *)
(***************************************************************************)

\* A thread of the pool is free.
PickUp(o) ==
  /\ future[o] = "queued"
  /\ Cardinality({other \in Op : InThread(other)}) < Threads
  /\ future' = [future EXCEPT ![o] = "begin"]
  /\ UNCHANGED <<status, request, cancel, crashes, live, posted, dropped>>

\* The record says running, whatever it said.
Begin(o) ==
  /\ future[o] = "begin"
  /\ status' = [status EXCEPT ![o] = "running"]
  /\ future' = [future EXCEPT ![o] = "publish"]
  /\ UNCHANGED <<request, cancel, crashes, live, posted, dropped>>

\* The publish, or the chain that ends in it: the rows in new are posted, and those in
\* old are skipped as duplicates and carry the URL of an earlier post (the dedup gate
\* in enforce mode, _build_skip_row).
Publish(o, new, old) ==
  /\ future[o] = "publish" /\ o \in Publishing
  /\ new \subseteq Rows[o] /\ old \subseteq (Rows[o] \cap live) \ new
  /\ live' = live \cup new
  /\ posted' = IF new # {} THEN posted \cup {o} ELSE posted
  /\ future' = [future EXCEPT ![o] = IF new \cup old # {} THEN "urls" ELSE "bare"]
  /\ UNCHANGED <<status, request, cancel, crashes, dropped>>

\* A stage fails or raises, or the kind is not one that a thread runs; where the
\* store raises once more, nothing is recorded.
Fail(o, recorded) ==
  /\ InThread(o)
  /\ status' = IF recorded THEN [status EXCEPT ![o] = "failed"] ELSE status
  /\ future' = [future EXCEPT ![o] = "done"]
  /\ UNCHANGED <<request, cancel, crashes, live, posted, dropped>>

\* Variant: a publish that came to its end is a success.
OutcomeOf_Success(o) == "success"

\* Variant: the state of the summary is the status.
OutcomeOf_State(o) == IF future[o] = "urls" THEN "partial_success" ELSE "all_failed"

\* _publish_outcome_fields: a success is a row with a URL, and all_failed is a failure.
OutcomeOf(o) == IF future[o] = "urls" THEN "success" ELSE "failed"

Finish(o) ==
  /\ future[o] \in {"urls", "bare"}
  /\ status' = [status EXCEPT ![o] = OutcomeOf(o)]
  /\ future' = [future EXCEPT ![o] = "done"]
  /\ UNCHANGED <<request, cancel, crashes, live, posted, dropped>>

-----------------------------------------------------------------------------
(***************************************************************************)
(* cancel_operation.                                                       *)
(***************************************************************************)

\* The route's look at the record, and the worker's at the future.
AskCancel(o) ==
  /\ cancel[o] = "none" /\ status[o] \in {"pending", "running"}
  /\ cancel' = [cancel EXCEPT ![o] = IF Live(o) THEN "live" ELSE "orphan"]
  /\ UNCHANGED <<status, future, request, crashes, live, posted, dropped>>

\* future.cancel(): a future that a thread has taken goes on.
Cancelled(o) == [future EXCEPT ![o] = IF @ = "queued" THEN "done" ELSE @]

CancelFuture(o) ==
  /\ cancel[o] = "live"
  /\ cancel' = [cancel EXCEPT ![o] = "write"]
  /\ future' = Cancelled(o)
  /\ dropped' = IF future[o] = "queued" THEN dropped \cup {o} ELSE dropped
  /\ UNCHANGED <<status, request, crashes, live, posted>>

\* Variant: an operation without a live future is not there to be cancelled.
CancelOrphan_Ignored(o) ==
  /\ cancel[o] = "orphan"
  /\ cancel' = [cancel EXCEPT ![o] = "none"]
  /\ UNCHANGED <<status, future, request, crashes, live, posted, dropped>>

\* No live future: the record is looked at once more.
CancelOrphan(o) ==
  /\ cancel[o] = "orphan"
  /\ cancel' = [cancel EXCEPT ![o] = IF status[o] \in Terminal THEN "none" ELSE "write"]
  /\ UNCHANGED <<status, future, request, crashes, live, posted, dropped>>

CancelWrite(o) ==
  /\ cancel[o] = "write"
  /\ cancel' = [cancel EXCEPT ![o] = "none"]
  /\ status' = [status EXCEPT ![o] = "canceled"]
  /\ UNCHANGED <<future, request, crashes, live, posted, dropped>>

-----------------------------------------------------------------------------

\* The process dies; nothing looks at the records when it starts again.
Crash ==
  /\ crashes < MaxCrashes
  /\ crashes' = crashes + 1
  /\ future' = [o \in Op |-> "none"]
  /\ cancel' = [o \in Op |-> "none"]
  /\ request' = [o \in Op |-> IF request[o] = "none" THEN "none" ELSE "answered"]
  /\ UNCHANGED <<status, live, posted, dropped>>

\* A run from the command line or the scheduler posts a target.
PostElsewhere(t) ==
  /\ live' = live \cup {t}
  /\ UNCHANGED <<status, future, request, cancel, crashes, posted, dropped>>

Requesting(o) == Create(o) \/ Start(o) \/ Refuse(o)

\* A step of the thread that runs it.
Thread(o) ==
  \/ Begin(o)
  \/ \E new, old \in SUBSET Target : Publish(o, new, old)
  \/ \E recorded \in BOOLEAN : Fail(o, recorded)
  \/ Finish(o)

CancelStepOf(o) == CancelFuture(o) \/ CancelOrphan(o) \/ CancelWrite(o)

Done == \A o \in Op : request[o] = "answered" /\ ~Live(o) /\ status[o] \in Terminal

Next ==
  \/ \E o \in Op : Requesting(o) \/ PickUp(o) \/ Thread(o) \/ AskCancel(o) \/ CancelStepOf(o)
  \/ \E t \in Target : PostElsewhere(t)
  \/ Crash
  \/ Done /\ UNCHANGED vars

Spec == Init /\ [][Next]_vars

\* Requests and threads go on, and an operator cancels what stays as it is.  An
\* operation is created once, so weak fairness is enough.
AttendedSpec ==
  /\ Spec
  /\ \A o \in Op :
       /\ WF_vars(Start(o) \/ Refuse(o))
       /\ WF_vars(PickUp(o) \/ Thread(o))
       /\ WF_vars(AskCancel(o) \/ CancelStepOf(o))

-----------------------------------------------------------------------------
(***************************************************************************)
(* Properties.                                                             *)
(***************************************************************************)

\* Every variable has its type.
TypeOK ==
  /\ status \in [Op -> Status]
  /\ future \in [Op -> Future]
  /\ request \in [Op -> RequestStep]
  /\ cancel \in [Op -> CancelStep]
  /\ crashes \in 0..MaxCrashes
  /\ live \subseteq Target
  /\ posted \subseteq Publishing
  /\ dropped \subseteq Op

\* Two operations never publish at a time, not even when the record of the one
\* says that it is canceled while its thread goes on (OperationWorker.start).
SingleFlight ==
  \A o, other \in Publishing : Live(o) /\ Live(other) => o = other

Slot ==
  INSTANCE PublishSlot WITH
    Op <- Publishing,
    slot <- {o \in Publishing : Live(o)},
    closed <- {o \in Publishing : request[o] \in {"refused", "answered"}},
    green <- {o \in Publishing : status[o] = "success"}

\* Operations share one slot to publish: each has it at most once, posts only while it
\* has it, and turns green only as it leaves it and only if one of its targets has a
\* post, its own or an earlier one, over refusals, cancels that a thread overwrites,
\* and crashes that leave records behind (OperationWorker).
ImplementsSlot == Slot!Spec

\* A green operation has a target with a post, which it made or found, and one that a
\* cancel took out of the queue never posts (_publish_outcome_fields, future.cancel).
OutcomeIsHonest ==
  \A o \in Op :
    /\ status[o] = "success" => o \in Publishing /\ Rows[o] \cap live # {}
    /\ o \in dropped => o \notin posted /\ ~Live(o)

\* With an operator who cancels what is stuck, also after a crash, every operation
\* ends (cancel: "the operator can always recover a stuck task").
EveryOperationEnds ==
  \A o \in Op : status[o] \in {"pending", "running"} ~> status[o] \in Terminal

=============================================================================
