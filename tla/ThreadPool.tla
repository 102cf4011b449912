----------------------------- MODULE ThreadPool -----------------------------
(***************************************************************************)
(* The bounded thread pool of concurrency/src/thread_pool.c.               *)
(*                                                                         *)
(* Every thread is a program counter over the shared-memory accesses of    *)
(* the code, one atomic load, store or read-modify-write per step.  A      *)
(* thread that sleeps on a condition variable is at a "wait_..." counter;  *)
(* cond_signal moves one such thread, cond_broadcast all of them, back to  *)
(* the place where the predicate is evaluated again.                       *)
(*                                                                         *)
(* The ring is the disruptor in worker-pool mode: slot[k] is the sequence  *)
(* number claimed for task k, and a worker takes the task of sequence      *)
(* number worker_cursor + 1 once it has been published.  try_take_task     *)
(* claims and releases the entry under dispatch_mutex, so that claim and   *)
(* completion are one step here.                                           *)
(***************************************************************************)
EXTENDS Integers, Sequences, FiniteSets

CONSTANTS
  Workers,        \* the pool's own threads
  Submitters,     \* threads that call submit_task / try_submit_task; a worker
                  \* among them does so from inside a run callback
  Waiters,        \* threads that call wait_status
  Stoppers,       \* threads that call shutdown_with_policy / destroy
  Tasks,          \* task descriptors; each is submitted at most once
  NoTask,         \* no task descriptor
  QueueCapacity,  \* pool->queue_capacity
  RingCapacity    \* the disruptor's capacity: queue_capacity rounded up

ASSUME CapacityAssumption ==
  /\ QueueCapacity \in Nat \ {0}
  /\ RingCapacity \in Nat
  /\ QueueCapacity <= RingCapacity

Threads == Workers \cup Submitters \cup Waiters \cup Stoppers

ASSUME ThreadsAssumption ==
  /\ IsFiniteSet(Threads)
  /\ Workers \cap Waiters = {}    \* wait_status refuses a callback

ASSUME NoTaskAssumption == NoTask \notin Tasks

NoPolicy == "none"
Policies == {"drain", "cancel_pending"}

VARIABLES
  accepting, shutdown, shutdown_policy, cancel_pending,
  queued_depth,
  tasks_submitted, tasks_completed, tasks_cancelled,
  write_cursor, slot, published, worker_cursor,
  pc,        \* pc[t]: where thread t is
  arg,       \* arg[t]: the task thread t is submitting
  blocking,  \* blocking[t]: the submission's "blocking" argument
  task,      \* task[t]: the task worker t has taken
  reg,       \* reg[t]: the value thread t loaded last
  policy,    \* policy[t]: shutdown_with_policy's argument
  result,    \* result[k]: what the submission of k returned
  log        \* log[k]: the callbacks invoked for k, in order

flags    == <<accepting, shutdown, shutdown_policy, cancel_pending>>
counters == <<tasks_submitted, tasks_completed, tasks_cancelled>>
ring     == <<write_cursor, slot, published, worker_cursor>>
call     == <<arg, blocking>>
history  == <<result, log>>
data     == <<flags, queued_depth, counters, ring, call, task, reg, policy, history>>
vars     == <<pc, data>>

Init ==
  /\ accepting = TRUE /\ shutdown = FALSE
  /\ shutdown_policy = NoPolicy /\ cancel_pending = FALSE
  /\ queued_depth = 0
  /\ tasks_submitted = 0 /\ tasks_completed = 0 /\ tasks_cancelled = 0
  /\ write_cursor = 0 /\ worker_cursor = 0
  /\ slot = [k \in Tasks |-> 0] /\ published = {}
  /\ pc = [t \in Threads |-> IF t \in Workers THEN "take" ELSE "idle"]
  /\ arg = [t \in Threads |-> NoTask]
  /\ blocking = [t \in Threads |-> FALSE]
  /\ task = [t \in Workers |-> NoTask]
  /\ reg = [t \in Threads |-> 0]
  /\ policy = [t \in Threads |-> NoPolicy]
  /\ result = [k \in Tasks |-> "new"]
  /\ log = [k \in Tasks |-> << >>]

-----------------------------------------------------------------------------
(* Control.                                                                *)

At(t, l) == pc[t] = l
Goto(t, l) == pc' = [pc EXCEPT ![t] = l]

(* salts_threadpool_current: the thread is inside a callback of this pool. *)
InCallback(t) == t \in Workers

(* Where a call returns to: a worker is in the run callback of its task.   *)
Home(t) == IF InCallback(t) THEN "run" ELSE "idle"

Open == accepting /\ ~shutdown

Pending == tasks_submitted - tasks_completed - tasks_cancelled

(* cond_signal by t: t goes on at l, one thread at w re-evaluates at p.    *)
Signal(t, l, w, p) ==
  LET sleepers == {s \in Threads : pc[s] = w}
  IN  \/ sleepers = {} /\ Goto(t, l)
      \/ \E s \in sleepers : pc' = [pc EXCEPT ![t] = l, ![s] = p]

(* wait_mutex is held between the two loads of a waiter's predicate.       *)
WaitMutexFree == \A s \in Threads : pc[s] # "wait_settled"

\* Mutant: completion is counted but no waiter is told.
NotifyProgress_Silent(t, l) == WaitMutexFree /\ Goto(t, l)

(* notify_progress: broadcasts all_done when nothing is pending.           *)
NotifyProgress(t, l) ==
  /\ WaitMutexFree
  /\ pc' = [s \in Threads |->
              IF s = t THEN l
              ELSE IF pc[s] = "wait_done" /\ Pending <= 0 THEN "wait"
              ELSE pc[s]]

-----------------------------------------------------------------------------
(* submit_internal, called by an external thread or inside a callback.     *)

Submit(t, k, b) ==
  /\ pc[t] = Home(t) /\ t \in Submitters
  /\ result[k] = "new"
  /\ Goto(t, "check")
  /\ arg' = [arg EXCEPT ![t] = k] /\ blocking' = [blocking EXCEPT ![t] = b]
  /\ result' = [result EXCEPT ![k] = "called"]
  /\ UNCHANGED <<flags, queued_depth, counters, ring, task, reg, policy, log>>

Return(t, status) ==
  /\ result' = [result EXCEPT ![arg[t]] = status]
  /\ arg' = [arg EXCEPT ![t] = NoTask]
  /\ blocking' = [blocking EXCEPT ![t] = FALSE]

(* The admission check, and the same check at the head of the reservation  *)
(* loop: the flags only ever close, so the two are one.                    *)
Check(t) ==
  /\ At(t, "check")
  /\ Goto(t, IF Open THEN "reserve" ELSE "reject")
  /\ UNCHANGED data

\* Mutant: the limit is off by one.
Reserve_OffByOne(t) ==
  /\ At(t, "reserve")
  /\ IF queued_depth <= QueueCapacity
       THEN Goto(t, "claim") /\ queued_depth' = queued_depth + 1
       ELSE Goto(t, "reject") /\ UNCHANGED queued_depth
  /\ UNCHANGED <<flags, counters, ring, call, task, reg, policy, history>>

(* try_reserve_queue_slot: the compare-and-swap loop on queued_depth.      *)
Reserve(t) ==
  /\ At(t, "reserve")
  /\ IF queued_depth < QueueCapacity
       THEN Goto(t, "claim") /\ queued_depth' = queued_depth + 1
       ELSE /\ Goto(t, IF blocking[t] /\ ~InCallback(t) THEN "park_space" ELSE "reject")
            /\ UNCHANGED queued_depth
  /\ UNCHANGED <<flags, counters, ring, call, task, reg, policy, history>>

\* Mutant: sleeps without evaluating the predicate under park_mutex.
ParkSpace_NoRecheck(t) ==
  /\ At(t, "park_space") /\ Goto(t, "wait_space")
  /\ UNCHANGED data

ParkSpace(t) ==
  /\ At(t, "park_space")
  /\ Goto(t, IF queued_depth >= QueueCapacity /\ Open THEN "wait_space" ELSE "check")
  /\ UNCHANGED data

\* Mutant: the cursor is read as the last sequence number minus one.
Claim_OffByOne(t) ==
  /\ At(t, "claim")
  /\ reg' = [reg EXCEPT ![t] = write_cursor - 1]
  /\ Goto(t, "cas")
  /\ UNCHANGED <<flags, queued_depth, counters, ring, call, task, policy, history>>

(* disruptor_publisher_try_claim: the load of the write cursor and the     *)
(* capacity test, then the single compare-and-swap.                        *)
Claim(t) ==
  /\ At(t, "claim")
  /\ reg' = [reg EXCEPT ![t] = write_cursor]
  /\ Goto(t, IF write_cursor + 1 - worker_cursor <= RingCapacity THEN "cas" ELSE "unclaimed")
  /\ UNCHANGED <<flags, queued_depth, counters, ring, call, task, policy, history>>

CasWriteCursor(t) ==
  /\ At(t, "cas")
  /\ IF write_cursor = reg[t]
       THEN /\ Goto(t, "write")
            /\ write_cursor' = write_cursor + 1
            /\ slot' = [slot EXCEPT ![arg[t]] = write_cursor + 1]
       ELSE Goto(t, "unclaimed") /\ UNCHANGED <<write_cursor, slot>>
  /\ reg' = [reg EXCEPT ![t] = 0]
  /\ UNCHANGED <<flags, queued_depth, counters, published, worker_cursor, call, task, policy,
                 history>>

Unclaimed(t) ==
  /\ At(t, "unclaimed")
  /\ Goto(t, IF ~blocking[t] \/ InCallback(t) \/ ~Open THEN "unreserve" ELSE "claim")
  /\ UNCHANGED data

(* release_queue_slot: the decrement, then the signal.                     *)
ReleaseQueueSlot(t, from, to) ==
  /\ At(t, from)
  /\ Goto(t, to)
  /\ queued_depth' = queued_depth - 1
  /\ UNCHANGED <<flags, counters, ring, call, task, reg, policy, history>>

SignalQueueSpace(t, from, to) ==
  /\ At(t, from)
  /\ Signal(t, to, "wait_space", "park_space")
  /\ UNCHANGED data

(* Every refusal counts in tasks_rejected and derives its status from the  *)
(* flags at that moment.                                                   *)
Reject(t) ==
  /\ At(t, "reject")
  /\ Goto(t, Home(t))
  /\ Return(t, IF ~Open THEN "ESHUTDOWN"
               ELSE IF blocking[t] /\ InCallback(t) THEN "EBUSY" ELSE "ENOBUFS")
  /\ UNCHANGED <<flags, queued_depth, counters, ring, task, reg, policy, log>>

Write(t) ==
  /\ At(t, "write")
  /\ Goto(t, "publish")
  /\ tasks_submitted' = tasks_submitted + 1
  /\ UNCHANGED <<flags, queued_depth, tasks_completed, tasks_cancelled, ring, call, task, reg,
                 policy, history>>

Publish(t) ==
  /\ At(t, "publish")
  /\ Goto(t, "signal_task")
  /\ published' = published \cup {arg[t]}
  /\ UNCHANGED <<flags, queued_depth, counters, write_cursor, slot, worker_cursor, call, task,
                 reg, policy, history>>

SignalTaskAvailable(t) ==
  /\ At(t, "signal_task")
  /\ Signal(t, Home(t), "wait_task", "park_task")
  /\ Return(t, "OK")
  /\ UNCHANGED <<flags, queued_depth, counters, ring, task, reg, policy, log>>

-----------------------------------------------------------------------------
(* worker_entry.                                                           *)

\* Mutant: an entry can be taken again after its completion.
Takeable_Again == {k \in Tasks : k \in published /\ slot[k] \in worker_cursor..(worker_cursor + 1)}

(* try_take_task: the next published entry, or TAKE_NONE.                  *)
Takeable == {k \in Tasks : k \in published /\ slot[k] = worker_cursor + 1}

TakeTask(t) ==
  /\ At(t, "take")
  /\ \E k \in Takeable :
       /\ task' = [task EXCEPT ![t] = k]
       /\ worker_cursor' = worker_cursor + 1
       /\ Goto(t, "taken")
  /\ UNCHANGED <<flags, queued_depth, counters, write_cursor, slot, published, call, reg, policy,
                 history>>

TakeNone(t) ==
  /\ At(t, "take") /\ Takeable = {}
  /\ Goto(t, "none")
  /\ UNCHANGED data

(* The exit condition: shutdown and tasks_submitted are loaded first,      *)
(* completed and cancelled after, queued_depth last.                       *)
LoadShutdown(t) ==
  /\ At(t, "none")
  /\ Goto(t, IF shutdown THEN "exit_submitted" ELSE "park_task")
  /\ UNCHANGED data

ExitSubmitted(t) ==
  /\ At(t, "exit_submitted")
  /\ Goto(t, "exit_settled")
  /\ reg' = [reg EXCEPT ![t] = tasks_submitted]
  /\ UNCHANGED <<flags, queued_depth, counters, ring, call, task, policy, history>>

ExitSettled(t) ==
  /\ At(t, "exit_settled")
  /\ Goto(t, IF reg[t] - tasks_completed - tasks_cancelled <= 0
               THEN "exit_depth" ELSE "park_task")
  /\ reg' = [reg EXCEPT ![t] = 0]
  /\ UNCHANGED <<flags, queued_depth, counters, ring, call, task, policy, history>>

ExitDepth(t) ==
  /\ At(t, "exit_depth")
  /\ Goto(t, IF queued_depth <= 0 THEN "exit" ELSE "park_task")
  /\ UNCHANGED data

Exit(t) ==
  /\ At(t, "exit")
  /\ NotifyProgress(t, "exited")
  /\ UNCHANGED data

\* Mutant: queued_depth is not looked at again before sleeping.
ParkTask_NoRecheck(t) ==
  /\ At(t, "park_task")
  /\ Goto(t, IF shutdown THEN "take" ELSE "wait_task")
  /\ UNCHANGED data

(* A worker that found nothing yields while queued_depth is positive and   *)
(* sleeps on task_available otherwise.                                     *)
ParkTask(t) ==
  /\ At(t, "park_task")
  /\ Goto(t, IF queued_depth <= 0 /\ ~shutdown THEN "wait_task" ELSE "take")
  /\ UNCHANGED data

\* Mutant: any shutdown cancels what is queued.
LoadCancelPending_AnyPolicy(t) ==
  /\ At(t, "taken")
  /\ Goto(t, IF shutdown THEN "cancel" ELSE "start")
  /\ UNCHANGED data

LoadCancelPending(t) ==
  /\ At(t, "taken")
  /\ Goto(t, IF cancel_pending THEN "cancel" ELSE "start")
  /\ UNCHANGED data

Callback(t, calls) == log' = [log EXCEPT ![task[t]] = @ \o calls]

\* Mutant: a cancelled task keeps its queue slot.
CancelDescriptor_Leak(t) ==
  /\ At(t, "cancel")
  /\ Goto(t, "cancel_count")
  /\ Callback(t, <<"cancel", "finalize">>)
  /\ UNCHANGED <<flags, queued_depth, counters, ring, call, task, reg, policy, result>>

CancelDescriptor(t) ==
  /\ At(t, "cancel")
  /\ Goto(t, "cancel_release")
  /\ Callback(t, <<"cancel", "finalize">>)
  /\ UNCHANGED <<flags, queued_depth, counters, ring, call, task, reg, policy, result>>

CancelTask(t) ==
  /\ At(t, "cancel_count")
  /\ Goto(t, "notify")
  /\ tasks_cancelled' = tasks_cancelled + 1
  /\ task' = [task EXCEPT ![t] = NoTask]
  /\ UNCHANGED <<flags, queued_depth, tasks_submitted, tasks_completed, ring, call, reg, policy,
                 history>>

(* run_descriptor: between Run and Finalize the callback may call back     *)
(* into the pool.                                                          *)
Run(t) ==
  /\ At(t, "call_run")
  /\ Goto(t, "run")
  /\ Callback(t, <<"run">>)
  /\ UNCHANGED <<flags, queued_depth, counters, ring, call, task, reg, policy, result>>

Finalize(t) ==
  /\ At(t, "run") /\ InCallback(t)
  /\ Goto(t, "finish_count")
  /\ Callback(t, <<"finalize">>)
  /\ UNCHANGED <<flags, queued_depth, counters, ring, call, task, reg, policy, result>>

FinishTask(t) ==
  /\ At(t, "finish_count")
  /\ Goto(t, "notify")
  /\ tasks_completed' = tasks_completed + 1
  /\ task' = [task EXCEPT ![t] = NoTask]
  /\ UNCHANGED <<flags, queued_depth, tasks_submitted, tasks_cancelled, ring, call, reg, policy,
                 history>>

Notify(t) ==
  /\ At(t, "notify")
  /\ NotifyProgress(t, "take")
  /\ UNCHANGED data

-----------------------------------------------------------------------------
(* wait_status, from outside the pool's callbacks.                         *)

Settled(k) == log[k] \in {<<"run", "finalize">>, <<"cancel", "finalize">>}

WaitStatus(t) ==
  /\ At(t, "idle") /\ t \in Waiters
  /\ Goto(t, "wait")
  /\ UNCHANGED data

WaitSubmitted(t) ==
  /\ At(t, "wait") /\ WaitMutexFree
  /\ Goto(t, "wait_settled")
  /\ reg' = [reg EXCEPT ![t] = tasks_submitted]
  /\ UNCHANGED <<flags, queued_depth, counters, ring, call, task, policy, history>>

\* Mutant: the wait ends one task early.
WaitSettled_Early(t) ==
  /\ At(t, "wait_settled")
  /\ Goto(t, IF reg[t] - tasks_completed - tasks_cancelled > 1 THEN "wait_done" ELSE "waited")
  /\ UNCHANGED data

WaitSettled(t) ==
  /\ At(t, "wait_settled")
  /\ Goto(t, IF reg[t] - tasks_completed - tasks_cancelled > 0 THEN "wait_done" ELSE "waited")
  /\ UNCHANGED data

WaitReturn(t) ==
  /\ At(t, "waited")
  /\ Goto(t, "idle")
  /\ reg' = [reg EXCEPT ![t] = 0]
  /\ UNCHANGED <<flags, queued_depth, counters, ring, call, task, policy, history>>

-----------------------------------------------------------------------------
(* shutdown_with_policy, from outside or inside a callback.                *)

Shutdown(t, p) ==
  /\ pc[t] = Home(t) /\ t \in Stoppers
  /\ IF shutdown_policy \in {NoPolicy, p}
       THEN /\ Goto(t, "sd_accepting")
            /\ shutdown_policy' = p
            /\ policy' = [policy EXCEPT ![t] = p]
       ELSE UNCHANGED <<pc, shutdown_policy, policy>>    \* SALTS_EBUSY
  /\ UNCHANGED <<accepting, shutdown, cancel_pending, queued_depth, counters, ring, call, task,
                 reg, history>>

ShutdownAccepting(t) ==
  /\ At(t, "sd_accepting")
  /\ Goto(t, IF policy[t] = "cancel_pending" THEN "sd_cancel" ELSE "sd_shutdown")
  /\ accepting' = FALSE
  /\ UNCHANGED <<shutdown, shutdown_policy, cancel_pending, queued_depth, counters, ring, call,
                 task, reg, policy, history>>

ShutdownCancel(t) ==
  /\ At(t, "sd_cancel")
  /\ Goto(t, "sd_shutdown")
  /\ cancel_pending' = TRUE
  /\ UNCHANGED <<accepting, shutdown, shutdown_policy, queued_depth, counters, ring, call, task,
                 reg, policy, history>>

ShutdownFlag(t) ==
  /\ At(t, "sd_shutdown")
  /\ Goto(t, "sd_broadcast")
  /\ shutdown' = TRUE
  /\ UNCHANGED <<accepting, shutdown_policy, cancel_pending, queued_depth, counters, ring, call,
                 task, reg, policy, history>>

\* Mutant: only the submitters are woken.
ShutdownBroadcast_SpaceOnly(t) ==
  /\ At(t, "sd_broadcast")
  /\ pc' = [s \in Threads |-> CASE s = t -> "sd_notify"
                                [] pc[s] = "wait_space" -> "park_space"
                                [] OTHER -> pc[s]]
  /\ UNCHANGED data

ShutdownBroadcast(t) ==
  /\ At(t, "sd_broadcast")
  /\ pc' = [s \in Threads |-> CASE s = t -> "sd_notify"
                                [] pc[s] = "wait_task" -> "park_task"
                                [] pc[s] = "wait_space" -> "park_space"
                                [] OTHER -> pc[s]]
  /\ UNCHANGED data

ShutdownNotify(t) ==
  /\ At(t, "sd_notify")
  /\ NotifyProgress(t, Home(t))
  /\ policy' = [policy EXCEPT ![t] = NoPolicy]
  /\ UNCHANGED <<flags, queued_depth, counters, ring, call, task, reg, history>>

(* destroy joins every worker once its own shutdown call has returned.     *)
Join(t) ==
  /\ At(t, "idle") /\ t \in Stoppers /\ shutdown
  /\ \A w \in Workers : pc[w] = "exited"
  /\ Goto(t, "joined")
  /\ UNCHANGED data

(* salts_cond_wait may return without a signal.                            *)
SpuriousWakeup(t) ==
  /\ \/ At(t, "wait_space") /\ Goto(t, "park_space")
     \/ At(t, "wait_task") /\ Goto(t, "park_task")
     \/ At(t, "wait_done") /\ WaitMutexFree /\ Goto(t, "wait")
  /\ UNCHANGED data

-----------------------------------------------------------------------------
SubmitStep(t) ==
  \/ Check(t) \/ Reserve(t) \/ ParkSpace(t) \/ Claim(t) \/ CasWriteCursor(t) \/ Unclaimed(t)
  \/ ReleaseQueueSlot(t, "unreserve", "unreserve_signal")
  \/ SignalQueueSpace(t, "unreserve_signal", "reject")
  \/ Reject(t) \/ Write(t) \/ Publish(t) \/ SignalTaskAvailable(t)

WorkerStep(t) ==
  \/ TakeTask(t) \/ TakeNone(t) \/ LoadShutdown(t)
  \/ ExitSubmitted(t) \/ ExitSettled(t) \/ ExitDepth(t) \/ Exit(t) \/ ParkTask(t)
  \/ LoadCancelPending(t) \/ CancelDescriptor(t)
  \/ ReleaseQueueSlot(t, "cancel_release", "cancel_signal")
  \/ SignalQueueSpace(t, "cancel_signal", "cancel_count")
  \/ CancelTask(t)
  \/ ReleaseQueueSlot(t, "start", "start_signal")
  \/ SignalQueueSpace(t, "start_signal", "call_run")
  \/ Run(t) \/ Finalize(t) \/ FinishTask(t) \/ Notify(t)

WaitStep(t) == WaitSubmitted(t) \/ WaitSettled(t) \/ WaitReturn(t)

ShutdownStep(t) ==
  \/ ShutdownAccepting(t) \/ ShutdownCancel(t) \/ ShutdownFlag(t)
  \/ ShutdownBroadcast(t) \/ ShutdownNotify(t) \/ Join(t)

(* The calls a thread may make; nothing obliges it to.                     *)
Calls(t) ==
  \/ \E k \in Tasks, b \in BOOLEAN : Submit(t, k, b)
  \/ WaitStatus(t)
  \/ \E p \in Policies : Shutdown(t, p)

Step(t) == SubmitStep(t) \/ WorkerStep(t) \/ WaitStep(t) \/ ShutdownStep(t)

Next == \E t \in Threads : Calls(t) \/ Step(t) \/ SpuriousWakeup(t)

Spec == Init /\ [][Next]_vars

(* A thread that can go on does; no call is ever obliged to be made.       *)
Fairness == \A t \in Threads : WF_vars(Step(t))

(* A thread that keeps asking for wait_mutex gets it, whatever the waiters *)
(* do; without waiters the mutex is never contended and this says nothing. *)
TakesWaitMutex(t) == WaitSubmitted(t) \/ Notify(t) \/ Exit(t) \/ ShutdownNotify(t)

WaitMutexFairness ==
  \A t \in Workers \cup Waiters \cup Stoppers : SF_vars(TakesWaitMutex(t))

-----------------------------------------------------------------------------
Labels ==
  {"idle", "check", "reserve", "park_space", "wait_space", "claim", "cas", "unclaimed",
   "unreserve", "unreserve_signal", "reject", "write", "publish", "signal_task",
   "take", "none", "exit_submitted", "exit_settled", "exit_depth", "exit", "exited",
   "park_task", "wait_task", "taken", "cancel", "cancel_release", "cancel_signal",
   "cancel_count", "start", "start_signal", "call_run", "run", "finish_count", "notify",
   "wait", "wait_settled", "wait_done", "waited",
   "sd_accepting", "sd_cancel", "sd_shutdown", "sd_broadcast", "sd_notify", "joined"}

Refusals == {"ESHUTDOWN", "EBUSY", "ENOBUFS"}

Logs == {<< >>, <<"run">>, <<"run", "finalize">>, <<"cancel", "finalize">>}

(* The types of the pool's fields and of the threads' locals.              *)
TypeOK ==
  /\ accepting \in BOOLEAN /\ shutdown \in BOOLEAN /\ cancel_pending \in BOOLEAN
  /\ shutdown_policy \in Policies \cup {NoPolicy}
  /\ queued_depth \in Int
  /\ tasks_submitted \in Nat /\ tasks_completed \in Nat /\ tasks_cancelled \in Nat
  /\ write_cursor \in Nat /\ worker_cursor \in Nat
  /\ slot \in [Tasks -> Nat] /\ published \subseteq Tasks
  /\ pc \in [Threads -> Labels]
  /\ arg \in [Threads -> Tasks \cup {NoTask}]
  /\ blocking \in [Threads -> BOOLEAN]
  /\ task \in [Workers -> Tasks \cup {NoTask}]
  /\ reg \in [Threads -> Nat]
  /\ policy \in [Threads -> Policies \cup {NoPolicy}]
  /\ result \in [Tasks -> {"new", "called", "OK"} \cup Refusals]
  /\ log \in [Tasks -> Seq({"run", "cancel", "finalize"})]

(* Threads that have reserved a queue slot and not yet claimed an entry,   *)
(* and workers that have taken an entry and still hold its slot.           *)
ReservedLabels == {"claim", "cas", "unclaimed", "unreserve"}
HoldingLabels == {"taken", "cancel", "cancel_release", "start"}
Reserved == {t \in Threads : pc[t] \in ReservedLabels}
Holding == {t \in Threads : pc[t] \in HoldingLabels}

(* queued_depth is exactly the reservations, the entries in the ring and   *)
(* the entries whose worker has not yet run release_queue_slot: no path    *)
(* through submit_internal and worker_entry leaks or double-frees a slot.  *)
DepthAccounts ==
  queued_depth = Cardinality(Reserved) + (write_cursor - worker_cursor) + Cardinality(Holding)

(* queue_capacity bounds the queued work, and a thread about to claim      *)
(* always finds the ring with a free entry: disruptor_publisher_try_claim  *)
(* can only fail by losing its compare-and-swap.                           *)
QueueBounded ==
  /\ queued_depth \in 0..QueueCapacity
  /\ \A t \in Threads :
       pc[t] \in {"claim", "cas", "unclaimed"} => write_cursor - worker_cursor < RingCapacity

(* A submission invokes at most one of run and cancel, once, then finalize *)
(* once; a rejected submission invokes no callback; under the drain policy *)
(* nothing is cancelled.                                                   *)
CallbackProtocol ==
  \A k \in Tasks :
    /\ log[k] \in Logs
    /\ log[k] # << >> => result[k] \in {"called", "OK"}
    /\ Settled(k) /\ log[k][1] = "cancel" => shutdown_policy = "cancel_pending"

(* When wait_status returns and nothing was submitted since it loaded      *)
(* tasks_submitted, every accepted task has been through its callbacks.    *)
WaitSeesSettled ==
  \A t \in Waiters : pc[t] = "waited" /\ reg[t] = tasks_submitted =>
    \A k \in Tasks : result[k] = "OK" => Settled(k)

(* No wakeup is lost.  When every worker waits for task_available and an   *)
(* entry is published, the submitter that will signal it is still under    *)
(* way.  A submitter sleeps on queue_space beside a free slot only while a *)
(* signal for that slot is under way or another submitter is about to take *)
(* it: release_queue_slot signals once per slot.                           *)
NoWakeupLost ==
  /\ (\A w \in Workers : pc[w] = "wait_task") /\ Takeable # {} =>
       \/ \E t \in Submitters : pc[t] = "signal_task"
       \/ \E t \in Stoppers : pc[t] = "sd_broadcast"
  /\ (\E t \in Threads : pc[t] = "wait_space") /\ queued_depth < QueueCapacity =>
       \E t \in Threads :
         pc[t] \in {"unreserve_signal", "cancel_signal", "start_signal", "sd_broadcast",
                    "park_space", "check", "reserve"}

(* The ring as the disruptor promises it, taken and completed in one step  *)
(* under dispatch_mutex.                                                   *)
Queue == INSTANCE WorkQueue WITH
  Capacity <- RingCapacity, claimed <- write_cursor, published <- {slot[k] : k \in published},
  taken <- worker_cursor, done <- 1..worker_cursor

(* The pool stays within what the ring promises: no entry is reused before *)
(* its task was taken, and tasks are taken once each in claim order.       *)
ImplementsQueue == Queue!Spec

-----------------------------------------------------------------------------
(* Liveness.                                                               *)

(* Every submission comes to an end: it is refused, or its task is run or  *)
(* cancelled and finalized. A submitter that sleeps on queue_space or      *)
(* keeps losing the claim is not forgotten, nor is an accepted task.       *)
SubmissionSettles ==
  \A k \in Tasks : result[k] = "called" ~> result[k] \in Refusals \/ Settled(k)

(* wait_status returns, and after shutdown every worker thread leaves      *)
(* worker_entry.                                                           *)
ThreadsReturn ==
  /\ \A t \in Waiters : pc[t] = "wait" ~> pc[t] = "waited"
  /\ shutdown ~> \A w \in Workers : pc[w] = "exited"

-----------------------------------------------------------------------------
(* What thread_pool.h says, stated without the qualifications above.       *)

(* "A successful submission invokes exactly one of run or cancel": no      *)
(* accepted task is left behind when the last worker has exited.           *)
NoneLeftBehind ==
  (\A w \in Workers : pc[w] = "exited") => \A k \in Tasks : result[k] = "OK" => Settled(k)
=============================================================================
