-------------------------- MODULE WorkerScheduler ---------------------------
(***************************************************************************)
(* cflow/src/scheduler_worker.c: tasks wait in a timer queue for their     *)
(* deadline; a timer thread moves them to the pool executor                *)
(* (cflow/src/executor.c), whose workers run them.  Any thread, tasks      *)
(* included, posts and cancels; one that is no worker of the pool waits    *)
(* for the scheduler to be idle and one shuts it down and destroys it.     *)
(*                                                                         *)
(* One step per section under the scheduler's mutex.  Of the thread pool,  *)
(* which module ThreadPool looks at, a submission is the check of its      *)
(* admission and the publication, a wait the load of submitted and of      *)
(* completed.                                                              *)
(***************************************************************************)
EXTENDS Integers, Sequences, FiniteSets

CONSTANTS
  TimerCapacity, ReadyCapacity,
  Workers,     \* how many workers the pool has
  Delays,      \* the delays posted with
  MaxTasks,    \* bound on accepted tasks
  MaxTime      \* bound on the clock

ASSUME SchedulerAssumption ==
  /\ {TimerCapacity, ReadyCapacity, Workers} \subseteq Nat \ {0}
  /\ Delays \subseteq Nat /\ MaxTasks \in Nat /\ MaxTime \in Nat

VARIABLES
  now, stopping, timers, dispatching, accepted, settled_before_executor,
  tpc, hand, alarm,                 \* the timer thread, the task in its hands, when its wait ends
  accepting, ready, running, submitted, completed, exited,   \* the pool
  cancelling,                       \* tasks whose cancel has removed them, callbacks not yet called
  callbacks,                        \* task -> how its callbacks were called
  wpc, asked, loaded,               \* wait_idle: its step, accepted when called, submitted as loaded
  spc, taken                        \* shutdown and destroy; the timer shutdown is settling

timing == <<stopping, timers, dispatching, accepted, settled_before_executor>>
timer_thread == <<tpc, hand, alarm>>
pool == <<accepting, ready, running, submitted, completed, exited>>
waiter == <<wpc, asked, loaded>>
stopper == <<spc, taken>>
vars == <<now, timing, timer_thread, pool, cancelling, callbacks, waiter, stopper>>

Tasks == 1..MaxTasks
Nobody == 0
Never == MaxTime + 1

Init ==
  /\ now = 0 /\ stopping = FALSE /\ timers = << >> /\ dispatching = 0
  /\ accepted = 0 /\ settled_before_executor = 0
  /\ tpc = "check" /\ hand = Nobody /\ alarm = Never
  /\ accepting = TRUE /\ ready = << >> /\ running = {} /\ submitted = 0 /\ completed = 0 /\ exited = FALSE
  /\ cancelling = {} /\ callbacks = [t \in Tasks |-> << >>]
  /\ wpc = "idle" /\ asked = 0 /\ loaded = 0
  /\ spc = "idle" /\ taken = Nobody

Called(t, how) == callbacks' = [callbacks EXCEPT ![t] = Append(@, how)]

(* cond_broadcast(changed): the timer thread and the waiter look again.    *)
WakeTimer == tpc' = (IF tpc = "asleep" THEN "check" ELSE tpc) /\ alarm' = Never
WakeWaiter == wpc' = IF wpc = "asleep" THEN "check" ELSE wpc

Tick == now < MaxTime /\ now' = now + 1
        /\ UNCHANGED <<timing, timer_thread, pool, cancelling, callbacks, waiter, stopper>>

-----------------------------------------------------------------------------
(* The timer queue: an array in the order of the ids.                      *)

Without(i) == SubSeq(timers, 1, i - 1) \o SubSeq(timers, i + 1, Len(timers))

EarliestIndex ==
  CHOOSE i \in DOMAIN timers :
    \A j \in DOMAIN timers : \/ timers[i].deadline < timers[j].deadline
                             \/ timers[i].deadline = timers[j].deadline /\ i <= j

(* Mutant: nobody is told of the new timer.                                *)
TryPost_Silent(delay) ==
  /\ spc # "gone" /\ ~ stopping /\ Len(timers) < TimerCapacity
  /\ accepted < MaxTasks /\ now + delay <= MaxTime
  /\ accepted' = accepted + 1
  /\ timers' = Append(timers, [id |-> accepted + 1, deadline |-> now + delay])
  /\ UNCHANGED <<now, stopping, dispatching, settled_before_executor, timer_thread, pool, cancelling,
                 callbacks, waiter, stopper>>

TryPost(delay) ==
  /\ spc # "gone" /\ ~ stopping /\ Len(timers) < TimerCapacity
  /\ accepted < MaxTasks /\ now + delay <= MaxTime
  /\ accepted' = accepted + 1
  /\ timers' = Append(timers, [id |-> accepted + 1, deadline |-> now + delay])
  /\ WakeTimer /\ WakeWaiter
  /\ UNCHANGED <<now, stopping, dispatching, settled_before_executor, hand, pool, cancelling, callbacks,
                 asked, loaded, stopper>>

(* Mutant: the task found is not removed.                                  *)
Cancel_Kept(i) ==
  /\ ~ stopping
  /\ settled_before_executor' = settled_before_executor + 1
  /\ cancelling' = cancelling \cup {timers[i].id}
  /\ WakeTimer /\ WakeWaiter
  /\ UNCHANGED <<now, stopping, timers, dispatching, accepted, hand, pool, callbacks, asked, loaded, stopper>>

Cancel(i) ==
  /\ ~ stopping
  /\ timers' = Without(i)
  /\ settled_before_executor' = settled_before_executor + 1
  /\ cancelling' = cancelling \cup {timers[i].id}
  /\ WakeTimer /\ WakeWaiter
  /\ UNCHANGED <<now, stopping, dispatching, accepted, hand, pool, callbacks, asked, loaded, stopper>>

CancelSettles(t) ==
  /\ cancelling' = cancelling \ {t} /\ Called(t, "cancel")
  /\ UNCHANGED <<now, timing, timer_thread, pool, waiter, stopper>>

-----------------------------------------------------------------------------
(* worker_timer_main                                                       *)

Due == timers # << >> /\ timers[EarliestIndex].deadline <= now

TimerExit ==
  /\ tpc = "check" /\ stopping
  /\ tpc' = "exited" /\ WakeWaiter
  /\ UNCHANGED <<now, timing, hand, alarm, pool, cancelling, callbacks, asked, loaded, stopper>>

(* The wait is timed when there is a timer.                                *)
TimerSleep ==
  /\ tpc = "check" /\ ~ stopping /\ ~ Due
  /\ tpc' = "asleep" /\ alarm' = IF timers = << >> THEN Never ELSE timers[EarliestIndex].deadline
  /\ UNCHANGED <<now, timing, hand, pool, cancelling, callbacks, waiter, stopper>>

(* A timed wait is over, or a wait ends for nothing.                       *)
TimerWakes ==
  /\ tpc = "asleep"
  /\ tpc' = "check" /\ alarm' = Never
  /\ UNCHANGED <<now, timing, hand, pool, cancelling, callbacks, waiter, stopper>>

TakeReady ==
  /\ tpc = "check" /\ ~ stopping /\ Due
  /\ hand' = timers[EarliestIndex].id /\ timers' = Without(EarliestIndex)
  /\ dispatching' = dispatching + 1
  /\ tpc' = "post" /\ WakeWaiter
  /\ UNCHANGED <<now, alarm, stopping, accepted, settled_before_executor, pool, cancelling, callbacks, asked,
                 loaded, stopper>>

(* Outside the mutex: submit_task sees whether the pool accepts tasks,     *)
(* waits for room ...                                                      *)
Admit ==
  /\ tpc = "post"
  /\ tpc' = IF accepting THEN "publish" ELSE "settle"
  /\ UNCHANGED <<now, timing, hand, alarm, pool, cancelling, callbacks, waiter, stopper>>

AwaitRoom ==
  /\ tpc = "publish" /\ Len(ready) >= ReadyCapacity /\ ~ accepting
  /\ tpc' = "settle"
  /\ UNCHANGED <<now, timing, hand, alarm, pool, cancelling, callbacks, waiter, stopper>>

(* ... and publishes; refused, the task is cancelled here.                 *)
Publish ==
  /\ tpc = "publish" /\ Len(ready) < ReadyCapacity
  /\ ready' = Append(ready, hand) /\ submitted' = submitted + 1
  /\ tpc' = "posted" /\ hand' = Nobody
  /\ UNCHANGED <<now, alarm, timing, accepting, running, completed, exited, cancelling, callbacks, waiter, stopper>>

Settle ==
  /\ tpc = "settle"
  /\ Called(hand, "cancel")
  /\ tpc' = "refused" /\ hand' = Nobody
  /\ UNCHANGED <<now, alarm, timing, pool, cancelling, waiter, stopper>>

(* Mutant: a task is counted as settled though the executor has it.        *)
Dispatched_Always ==
  /\ tpc \in {"posted", "refused"}
  /\ dispatching' = dispatching - 1
  /\ settled_before_executor' = settled_before_executor + 1
  /\ tpc' = "check" /\ WakeWaiter
  /\ UNCHANGED <<now, stopping, timers, accepted, hand, alarm, pool, cancelling, callbacks, asked, loaded, stopper>>

Dispatched ==
  /\ tpc \in {"posted", "refused"}
  /\ dispatching' = dispatching - 1
  /\ settled_before_executor' = settled_before_executor + (IF tpc = "refused" THEN 1 ELSE 0)
  /\ tpc' = "check" /\ WakeWaiter
  /\ UNCHANGED <<now, stopping, timers, accepted, hand, alarm, pool, cancelling, callbacks, asked, loaded, stopper>>

-----------------------------------------------------------------------------
(* The workers of the pool.                                                *)

Run ==
  /\ ready # << >> /\ Cardinality(running) < Workers /\ ~ exited
  /\ ready' = Tail(ready) /\ running' = running \cup {Head(ready)}
  /\ Called(Head(ready), "run")
  /\ UNCHANGED <<now, timing, timer_thread, accepting, submitted, completed, exited, cancelling, waiter,
                 stopper>>

Finish(t) ==
  /\ running' = running \ {t} /\ completed' = completed + 1
  /\ UNCHANGED <<now, timing, timer_thread, accepting, ready, submitted, exited, cancelling, callbacks,
                 waiter, stopper>>

(* After shutdown the workers leave when they find nothing pending.        *)
WorkersExit ==
  /\ ~ accepting /\ ready = << >> /\ running = {} /\ ~ exited
  /\ exited' = TRUE
  /\ UNCHANGED <<now, timing, timer_thread, accepting, ready, running, submitted, completed, cancelling,
                 callbacks, waiter, stopper>>

-----------------------------------------------------------------------------
(* worker_wait_idle                                                        *)

(* Mutant: the task in the timer thread's hands is not looked at.          *)
DelayedIdle_Timers == timers = << >>

DelayedIdle == timers = << >> /\ dispatching = 0

WaitCall ==
  /\ wpc = "idle" /\ spc # "gone"
  /\ wpc' = "check" /\ asked' = accepted
  /\ UNCHANGED <<now, timing, timer_thread, pool, cancelling, callbacks, loaded, stopper>>

WaitCheck ==
  /\ wpc = "check"
  /\ wpc' = IF stopping THEN "false" ELSE IF DelayedIdle THEN "wait" ELSE "asleep"
  /\ UNCHANGED <<now, timing, timer_thread, pool, cancelling, callbacks, asked, loaded, stopper>>

WaitWakes ==
  /\ wpc = "asleep"
  /\ wpc' = "check"
  /\ UNCHANGED <<now, timing, timer_thread, pool, cancelling, callbacks, asked, loaded, stopper>>

(* The executor's pending count, for its wait_idle and for its pending.    *)
LoadSubmitted ==
  /\ wpc \in {"wait", "pending"}
  /\ loaded' = submitted
  /\ wpc' = IF wpc = "wait" THEN "waiting" ELSE "compare"
  /\ UNCHANGED <<now, timing, timer_thread, pool, cancelling, callbacks, asked, stopper>>

(* The wait goes on while something is pending.                            *)
WaitExecutor ==
  /\ wpc = "waiting"
  /\ wpc' = IF loaded > completed THEN "wait" ELSE "recheck"
  /\ UNCHANGED <<now, timing, timer_thread, pool, cancelling, callbacks, asked, loaded, stopper>>

Recheck ==
  /\ wpc = "recheck"
  /\ wpc' = IF ~ stopping /\ DelayedIdle THEN "pending" ELSE "check"
  /\ UNCHANGED <<now, timing, timer_thread, pool, cancelling, callbacks, asked, loaded, stopper>>

WaitReturns ==
  /\ wpc = "compare"
  /\ wpc' = IF loaded > completed THEN "check" ELSE "true"
  /\ UNCHANGED <<now, timing, timer_thread, pool, cancelling, callbacks, asked, loaded, stopper>>

-----------------------------------------------------------------------------
(* worker_shutdown: the timers are taken and cancelled one by one ...      *)

(* Mutant: the timer thread is not woken.                                  *)
Shutdown_Silent ==
  /\ spc = "idle"
  /\ stopping' = TRUE
  /\ spc' = "drain"
  /\ UNCHANGED <<now, timers, dispatching, accepted, settled_before_executor, timer_thread, pool,
                 cancelling, callbacks, waiter, taken>>

Shutdown ==
  /\ spc = "idle"
  /\ stopping' = TRUE /\ WakeTimer /\ WakeWaiter
  /\ spc' = "drain"
  /\ UNCHANGED <<now, timers, dispatching, accepted, settled_before_executor, hand, pool, cancelling,
                 callbacks, asked, loaded, taken>>

TakeAny ==
  /\ spc = "drain" /\ timers # << >>
  /\ taken' = timers[Len(timers)].id /\ timers' = SubSeq(timers, 1, Len(timers) - 1)
  /\ settled_before_executor' = settled_before_executor + 1
  /\ spc' = "settle"
  /\ UNCHANGED <<now, stopping, dispatching, accepted, timer_thread, pool, cancelling, callbacks, waiter>>

SettleTaken ==
  /\ spc = "settle"
  /\ Called(taken, "cancel")
  /\ taken' = Nobody /\ spc' = "drain"
  /\ UNCHANGED <<now, timing, timer_thread, pool, cancelling, waiter>>

(* ... then the executor is shut down, and the timer thread joined.        *)
CloseExecutor ==
  /\ spc = "drain" /\ timers = << >>
  /\ accepting' = FALSE
  /\ spc' = "join"
  /\ UNCHANGED <<now, timing, timer_thread, ready, running, submitted, completed, exited, cancelling,
                 callbacks, waiter, taken>>

Join ==
  /\ spc = "join" /\ tpc = "exited"
  /\ spc' = "returned"
  /\ UNCHANGED <<now, timing, timer_thread, pool, cancelling, callbacks, waiter, taken>>

(* destroy, when no other call is under way: the pool's workers are joined. *)
Destroy ==
  /\ spc = "returned" /\ exited
  /\ cancelling = {} /\ wpc \in {"idle", "true", "false"}
  /\ spc' = "gone"
  /\ UNCHANGED <<now, timing, timer_thread, pool, cancelling, callbacks, waiter, taken>>

-----------------------------------------------------------------------------
TimerThread ==
  TimerExit \/ TimerSleep \/ TakeReady \/ Admit \/ AwaitRoom \/ Publish \/ Settle \/ Dispatched

Pool == Run \/ (\E t \in running : Finish(t)) \/ WorkersExit

Wait == WaitCheck \/ LoadSubmitted \/ WaitExecutor \/ Recheck \/ WaitReturns

Stop == TakeAny \/ SettleTaken \/ CloseExecutor \/ Join \/ Destroy

Next ==
  \/ Tick \/ (\E delay \in Delays : TryPost(delay)) \/ (\E i \in DOMAIN timers : Cancel(i))
  \/ \E t \in cancelling : CancelSettles(t)
  \/ TimerThread \/ TimerWakes \/ Pool
  \/ WaitCall \/ Wait \/ WaitWakes
  \/ Shutdown \/ Stop

Spec == Init /\ [][Next]_vars

(* Every thread runs on, tasks return, the clock advances, and a timed     *)
(* wait ends when its time has passed; an untimed one needs a broadcast.   *)
Fairness ==
  /\ WF_vars(Tick) /\ WF_vars(TimerThread) /\ WF_vars(alarm <= now /\ TimerWakes) /\ WF_vars(Wait) /\ WF_vars(Stop)
  /\ WF_vars(Pool) /\ WF_vars(\E t \in cancelling : CancelSettles(t))

LiveSpec == Spec /\ Fairness

-----------------------------------------------------------------------------
(* The types of the scheduler's fields, and the two capacities.            *)
TypeOK ==
  /\ now \in 0..MaxTime /\ {stopping, accepting, exited} \subseteq BOOLEAN
  /\ dispatching \in 0..1 /\ {accepted, submitted, completed, settled_before_executor} \subseteq 0..MaxTasks
  /\ alarm \in 0..Never /\ hand \in 0..MaxTasks /\ taken \in 0..MaxTasks /\ running \subseteq Tasks /\ cancelling \subseteq Tasks
  /\ Len(timers) <= TimerCapacity /\ Len(ready) <= ReadyCapacity

(* Where a task can be that has not been called back.                      *)
Places(t) ==
  {x \in {"timers", "hand", "ready", "cancelling", "taken"} :
     CASE x = "timers"     -> \E i \in DOMAIN timers : timers[i].id = t
       [] x = "hand"       -> hand = t
       [] x = "ready"      -> \E i \in DOMAIN ready : ready[i] = t
       [] x = "cancelling" -> t \in cancelling
       [] x = "taken"      -> taken = t}

(* A task accepted is called back once, by run or by cancel, and until     *)
(* then is in one place: "a true cancel result means the pending task was  *)
(* removed and fn will not execute".                                       *)
CalledOnce ==
  /\ TypeOK
  /\ \A t \in 1..accepted : Cardinality(Places(t)) + Len(callbacks[t]) = 1

(* What worker_logical_pending_locked subtracts from accepted.             *)
Settled == settled_before_executor + completed

(* pending() counts every task not yet called back, running ones included, *)
(* and never fewer: its three sources (timers, executor, tasks settled     *)
(* before they got there) cover every path; the clamp at 0 is not needed.  *)
PendingCovers ==
  /\ Settled <= accepted
  /\ accepted - Settled >=
       Cardinality({t \in 1..accepted : t \in running \/ Places(t) \cap {"timers", "hand", "ready"} # {}})

(* wait_idle returns true only when the tasks accepted before the call     *)
(* have been run or removed, if none was accepted since; and pending()     *)
(* never promises less than is left to do.                                 *)
IdleMeansIdle ==
  /\ PendingCovers
  /\ wpc = "true" /\ accepted = asked =>
       \A t \in 1..asked : t \notin running /\ Places(t) \subseteq {"cancelling"}

(* ThreadPool's finding, which worker_shutdown can meet: the timer thread  *)
(* publishes a task after the last worker has left.                        *)
LeftBehind == exited /\ ready # << >>

(* A task accepted is called back, though shutdown may come at any moment, *)
(* unless it is left behind.  shutdown returns, also when the timer thread *)
(* is asleep or waits for room in the pool.  So does wait_idle, unless a   *)
(* task is left behind: it waits for that one for ever.                    *)
CallsReturn ==
  /\ \A t \in Tasks : accepted >= t ~> callbacks[t] # << >> \/ LeftBehind
  /\ spc = "drain" ~> spc \in {"returned", "gone"}
  /\ wpc = "check" ~> wpc \in {"true", "false"} \/ LeftBehind
=============================================================================
