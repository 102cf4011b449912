---------------------------- MODULE CoroExecutor ----------------------------
(***************************************************************************)
(* coroutine/src/salts_coro_executor.c with the scheduler (salts_coro.c)   *)
(* and the frame pool (salts_coro_pool.c) of each shard.  A shard is one   *)
(* worker thread that runs its coroutines in turn, a bounded queue of      *)
(* tasks, and await slots that any thread may complete: a completion       *)
(* leaves a wake in the shard's ring, a timeout makes the coroutine ready  *)
(* by itself.                                                              *)
(*                                                                         *)
(* One step per section under a shard's mutex and per store of accepting   *)
(* and shutdown.  The two rings are disruptors used under the mutex by one *)
(* producer and one consumer, hence sequences.  A call that is refused     *)
(* changes nothing but statistics and is no step.                          *)
(***************************************************************************)
EXTENDS Integers, Sequences, FiniteSets

CONSTANTS
  Shards,       \* 1..worker_count
  MaxCo,        \* coroutine_pool.max_capacity: frames and await slots of a shard
  QueueCap,     \* queue_capacity_per_worker
  Submitters,   \* external threads that submit
  Statuses,     \* what completions report
  MaxTasks,     \* bound on accepted tasks
  MaxGen,       \* bound on the generation of a slot
  MaxOps,       \* bound on what a task does before it returns
  None

ASSUME CoroAssumption ==
  /\ MaxCo \in Nat \ {0} /\ QueueCap \in Nat \ {0}
  /\ MaxTasks \in Nat /\ MaxGen \in Nat /\ MaxOps \in Nat

VARIABLES
  accepting, shutdown, submitted, completed, cancelled,
  reported, failed,          \* startup_count, startup_failed
  lock,                      \* who is between the admission check and the publication
  queue, wakes,              \* the task ring and the wake ring of a shard
  slots, free_slots,         \* await_slots and the stack of free ones
  free_frames, job,          \* the pool's free list; the task a frame runs
  waiting_for_io, ready,     \* the scheduler: parked frames, the ready list
  wpc, progressed, batch,    \* the worker: its step; a flag; to_process of a tick
  cur,                       \* the frame that runs
  awaiting,                  \* the handle a suspended frame awaits
  state, ops,                \* a task: how far it is; what it still may do
  spc, target,               \* submitters: their step and shard
  stop,                      \* threads in stop_internal: how far they are
  owner, qpc, loaded         \* the owner; in wait: its step, submitted as loaded

counters == <<submitted, completed, cancelled>>
startup == <<reported, failed>>
awaits == <<slots, free_slots, wakes>>
frames == <<free_frames, job, waiting_for_io, ready, awaiting>>
worker == <<wpc, progressed, batch, cur>>
tasks == <<state, ops>>
waits == <<qpc, loaded>>
control == <<accepting, shutdown, stop, owner, startup>>
submits == <<lock, queue, spc, target>>
vars == <<control, counters, submits, awaits, frames, worker, tasks, waits>>

Owner == 0
Stoppers == Shards \cup {Owner}
Slots == 1..MaxCo
Tasks == 1..MaxTasks
Handles == Shards \X Slots \X (1..MaxGen)
Last == Cardinality(Shards) + 3    \* the last step of stop_internal

FreeSlot(gen) == [co |-> 0, gen |-> gen, status |-> None, active |-> FALSE,
                  waiting |-> FALSE, ready |-> FALSE, timed |-> FALSE, due |-> FALSE]

Init ==
  /\ accepting = TRUE /\ shutdown = FALSE
  /\ submitted = 0 /\ completed = 0 /\ cancelled = 0
  /\ reported = 0 /\ failed = FALSE
  /\ lock = [s \in Shards |-> None]
  /\ queue = [s \in Shards |-> << >>] /\ wakes = [s \in Shards |-> << >>]
  /\ slots = [s \in Shards |-> [i \in Slots |-> FreeSlot(0)]]
  /\ free_slots = [s \in Shards |-> [i \in Slots |-> i]]
  /\ free_frames = [s \in Shards |-> [c \in Slots |-> c]]
  /\ job = [s \in Shards |-> [c \in Slots |-> 0]]
  /\ waiting_for_io = [s \in Shards |-> {}] /\ ready = [s \in Shards |-> << >>]
  /\ wpc = [s \in Shards |-> "start"] /\ progressed = [s \in Shards |-> FALSE]
  /\ batch = [s \in Shards |-> 0] /\ cur = [s \in Shards |-> 0]
  /\ awaiting = [s \in Shards |-> [c \in Slots |-> None]]
  /\ state = [t \in Tasks |-> "none"] /\ ops = [t \in Tasks |-> MaxOps]
  /\ spc = [u \in Submitters |-> "idle"] /\ target = [u \in Submitters |-> None]
  /\ stop = [x \in Stoppers |-> 0]
  /\ owner = "create"
  /\ qpc = "idle" /\ loaded = 0

-----------------------------------------------------------------------------
(* Waiting for everything to settle.                                       *)

Settled == completed + cancelled
Pending == IF submitted >= Settled THEN submitted - Settled ELSE 0

(* notify_progress, once the waiter is not between its loads.  The loads   *)
(* here may also see a task too few and wake the waiter for nothing, which *)
(* WaitSpurious allows anyway.                                             *)
Notify ==
  /\ qpc # "loaded"
  /\ qpc' = IF qpc = "asleep" /\ Pending = 0 THEN "enter" ELSE qpc
  /\ UNCHANGED loaded

(* wait, which the owner calls before shutdown, after it, or both:         *)
(* submitted is loaded first ...                                           *)
WaitCall ==
  /\ owner = "open" /\ qpc = "idle" /\ stop[Owner] \in {0, Last + 1}
  /\ qpc' = "enter"
  /\ UNCHANGED <<control, counters, submits, awaits, frames, worker, tasks, loaded>>

WaitLoad ==
  /\ qpc = "enter"
  /\ qpc' = "loaded" /\ loaded' = submitted
  /\ UNCHANGED <<control, counters, submits, awaits, frames, worker, tasks>>

(* ... then completed and cancelled; the mutex is held until it sleeps.    *)
WaitCheck ==
  /\ qpc = "loaded"
  /\ qpc' = IF loaded > Settled THEN "asleep" ELSE "returned"
  /\ UNCHANGED <<control, counters, submits, awaits, frames, worker, tasks, loaded>>

WaitSpurious ==
  /\ qpc = "asleep"
  /\ qpc' = "enter"
  /\ UNCHANGED <<control, counters, submits, awaits, frames, worker, tasks, loaded>>

-----------------------------------------------------------------------------
(* Submission.                                                             *)

SignalWork(s) == wpc' = [wpc EXCEPT ![s] = IF @ = "asleep" THEN "timeouts" ELSE @]
WakeSubmitters(s) ==
  spc' = [u \in Submitters |-> IF spc[u] = "asleep" /\ target[u] = s THEN "awake" ELSE spc[u]]

Full(s) == Len(queue[s]) >= QueueCap
InBounds == submitted + Cardinality({u \in Submitters : spc[u] \notin {"idle", "refused"}}) < MaxTasks

(* Claim, fill and commit the entry: the next task joins the queue.        *)
Publish(s) ==
  /\ submitted' = submitted + 1
  /\ queue' = [queue EXCEPT ![s] = Append(@, submitted + 1)]
  /\ state' = [state EXCEPT ![submitted + 1] = "queued"]

(* Mutant: the mutex is released between the admission check and the        *)
(* publication.                                                            *)
SubmitUnlocked(u, s) ==
  /\ owner = "open"
  /\ lock[s] = None
  /\ \/ spc[u] = "idle" /\ InBounds
     \/ spc[u] = "awake" /\ target[u] = s
  /\ spc' = [spc EXCEPT ![u] = IF ~accepting THEN "refused" ELSE IF Full(s) THEN "asleep" ELSE "claimed"]
  /\ target' = [target EXCEPT ![u] = IF accepting THEN s ELSE None]
  /\ UNCHANGED <<control, counters, lock, queue, awaits, frames, worker, tasks, waits>>

(* submit_internal up to its wait for space; a try that finds the queue    *)
(* full is refused.  A thread past the check holds the mutex.              *)
SubmitEnter(u, s) ==
  /\ owner = "open"
  /\ lock[s] = None
  /\ \/ spc[u] = "idle" /\ InBounds
     \/ spc[u] = "awake" /\ target[u] = s
  /\ spc' = [spc EXCEPT ![u] = IF ~accepting THEN "refused" ELSE IF Full(s) THEN "asleep" ELSE "claimed"]
  /\ target' = [target EXCEPT ![u] = IF accepting THEN s ELSE None]
  /\ lock' = [lock EXCEPT ![s] = IF accepting /\ ~Full(s) THEN u ELSE None]
  /\ UNCHANGED <<control, counters, queue, awaits, frames, worker, tasks, waits>>

SubmitPublish(u) ==
  LET s == target[u] IN
  /\ spc[u] = "claimed"
  /\ Publish(s) /\ SignalWork(s)
  /\ lock' = [lock EXCEPT ![s] = None]
  /\ spc' = [spc EXCEPT ![u] = "idle"] /\ target' = [target EXCEPT ![u] = None]
  /\ UNCHANGED <<control, completed, cancelled, awaits, frames, progressed, batch, cur, ops,
                 waits>>

SubmitSpurious(u) ==
  /\ spc[u] = "asleep"
  /\ spc' = [spc EXCEPT ![u] = "awake"]
  /\ UNCHANGED <<control, counters, lock, queue, target, awaits, frames, worker, tasks, waits>>

-----------------------------------------------------------------------------
(* Startup, shutdown, destruction.                                         *)

StopStore(x) ==
  /\ stop[x] \in {1, 2}
  /\ accepting' = FALSE
  /\ shutdown' = (stop[x] = 2 \/ shutdown)
  /\ stop' = [stop EXCEPT ![x] = @ + 1]
  /\ UNCHANGED <<owner, startup, counters, submits, awaits, frames, worker, tasks, waits>>

(* Mutant: wake_shards broadcasts queue_space only.                        *)
StopWakeSpace(x) ==
  LET s == stop[x] - 2 IN
  /\ s \in Shards /\ lock[s] = None
  /\ WakeSubmitters(s)
  /\ stop' = [stop EXCEPT ![x] = @ + 1]
  /\ UNCHANGED <<accepting, shutdown, owner, startup, counters, lock, queue, target, awaits, frames,
                 worker, tasks, waits>>

(* wake_shards, one shard after the other.                                 *)
StopWake(x) ==
  LET s == stop[x] - 2 IN
  /\ s \in Shards /\ lock[s] = None
  /\ SignalWork(s) /\ WakeSubmitters(s)
  /\ stop' = [stop EXCEPT ![x] = @ + 1]
  /\ UNCHANGED <<accepting, shutdown, owner, startup, counters, lock, queue, target, awaits, frames,
                 progressed, batch, cur, tasks, waits>>

StopNotify(x) ==
  /\ stop[x] = Last
  /\ Notify
  /\ stop' = [stop EXCEPT ![x] = @ + 1]
  /\ wpc' = IF x \in Shards THEN [wpc EXCEPT ![x] = "exited"] ELSE wpc
  /\ UNCHANGED <<accepting, shutdown, owner, startup, counters, submits, awaits, frames,
                 progressed, batch, cur, tasks>>

(* A worker reports that its scheduler, pool and consumers are in place,   *)
(* or that they are not, and then stops the others.                        *)
Startup(s, ok) ==
  /\ wpc[s] = "start"
  /\ reported' = reported + 1 /\ failed' = (failed \/ ~ok)
  /\ wpc' = [wpc EXCEPT ![s] = IF ok THEN "timeouts" ELSE "stopping"]
  /\ stop' = [stop EXCEPT ![s] = IF ok THEN 0 ELSE 1]
  /\ UNCHANGED <<accepting, shutdown, owner, counters, submits, awaits, frames, progressed, batch, cur, tasks, waits>>

CreateReturn ==
  /\ owner = "create" /\ reported = Cardinality(Shards)
  /\ owner' = IF failed THEN "join" ELSE "open"
  /\ UNCHANGED <<accepting, shutdown, stop, startup, counters, submits, awaits, frames, worker, tasks,
                 waits>>

Shutdown ==
  /\ owner = "open" /\ stop[Owner] = 0 /\ qpc \in {"idle", "returned"}
  /\ stop' = [stop EXCEPT ![Owner] = 1]
  /\ qpc' = "idle" /\ loaded' = 0
  /\ UNCHANGED <<accepting, shutdown, owner, startup, counters, submits, awaits, frames, worker, tasks>>

(* destroy, once submitters are gone.  Its own stop and wait find          *)
(* everything stopped and settled.                                         *)
Destroy ==
  /\ owner = "open" /\ stop[Owner] = Last + 1 /\ qpc = "returned"
  /\ \A u \in Submitters : spc[u] \in {"idle", "refused"}
  /\ owner' = "join"
  /\ UNCHANGED <<accepting, shutdown, stop, startup, counters, submits, awaits, frames, worker, tasks,
                 waits>>

Join ==
  /\ owner = "join" /\ \A s \in Shards : wpc[s] = "exited"
  /\ owner' = "gone"
  /\ UNCHANGED <<accepting, shutdown, stop, startup, counters, submits, awaits, frames, worker, tasks,
                 waits>>

-----------------------------------------------------------------------------
(* Await slots.                                                            *)

SlotOf(h) == slots[h[1]][h[2]]
Named(h) == SlotOf(h).active /\ SlotOf(h).gen = h[3]      \* find_await_locked

(* 32 bits wide, and 0 is skipped when it wraps; MaxGen stays below that.   *)
NextGeneration(gen) == gen + 1

(* release_await_locked                                                    *)
Release(s, i) ==
  /\ slots' = [slots EXCEPT ![s][i] = FreeSlot(@.gen)]
  /\ free_slots' = [free_slots EXCEPT ![s] = <<i>> \o @]

(* set_waiting_for_io(c, 0) for the frames of a sequence, none of which    *)
(* runs: each joins the ready list unless it is there.                     *)
MakeReady(s, cs) ==
  /\ waiting_for_io' = [waiting_for_io EXCEPT ![s] = @ \ {cs[k] : k \in DOMAIN cs}]
  /\ ready' = [ready EXCEPT ![s] =
       @ \o SelectSeq(cs, LAMBDA c : ~ \E k \in DOMAIN ready[s] : ready[s][k] = c)]

(* Mutants: a second completion is not refused; the worker is not signalled. *)
CompleteAgain(h, status) ==
  LET s == h[1] IN
  /\ owner # "gone" /\ lock[s] = None
  /\ Named(h)
  /\ slots' = [slots EXCEPT ![s][h[2]].ready = TRUE, ![s][h[2]].status = status]
  /\ IF SlotOf(h).waiting THEN wakes' = [wakes EXCEPT ![s] = Append(@, h)] /\ SignalWork(s)
                          ELSE UNCHANGED <<wakes, wpc>>
  /\ UNCHANGED <<control, counters, submits, free_slots, frames, progressed, batch, cur, tasks, waits>>
CompleteSilent(h, status) ==
  LET s == h[1] IN
  /\ owner # "gone" /\ lock[s] = None
  /\ Named(h) /\ ~ SlotOf(h).ready
  /\ slots' = [slots EXCEPT ![s][h[2]].ready = TRUE, ![s][h[2]].status = status]
  /\ wakes' = IF SlotOf(h).waiting THEN [wakes EXCEPT ![s] = Append(@, h)] ELSE wakes
  /\ UNCHANGED <<control, counters, submits, free_slots, frames, worker, tasks, waits>>

(* await_complete, from any thread, with any handle ever given out.        *)
Complete(h, status) ==
  LET s == h[1] IN
  /\ owner # "gone" /\ lock[s] = None
  /\ Named(h) /\ ~ SlotOf(h).ready
  /\ slots' = [slots EXCEPT ![s][h[2]].ready = TRUE, ![s][h[2]].status = status]
  /\ IF SlotOf(h).waiting THEN wakes' = [wakes EXCEPT ![s] = Append(@, h)] /\ SignalWork(s)
                          ELSE UNCHANGED <<wakes, wpc>>
  /\ UNCHANGED <<control, counters, submits, free_slots, frames, progressed, batch, cur, tasks,
                 waits>>

(* The clock passes the deadline of a timed wait.                          *)
DeadlinePasses(s, i) ==
  /\ slots[s][i].active /\ slots[s][i].waiting /\ slots[s][i].timed /\ ~ slots[s][i].due
  /\ slots' = [slots EXCEPT ![s][i].due = TRUE]
  /\ UNCHANGED <<control, counters, submits, free_slots, wakes, frames, worker, tasks, waits>>

-----------------------------------------------------------------------------
(* The worker of a shard: timeouts, wakes, new tasks, a tick, then the     *)
(* check whether to exit or sleep.                                         *)

Active(s) == Cardinality({c \in Slots : job[s][c] # 0})

(* Mutant: a timeout does not look whether the await is completed.         *)
ExpiredReady(s) ==
  LET Late(i) == LET x == slots[s][i] IN x.active /\ x.waiting /\ x.timed /\ x.due
  IN SelectSeq([i \in Slots |-> i], Late)

Expired(s) ==
  LET Late(i) == LET x == slots[s][i]
                 IN x.active /\ x.waiting /\ x.timed /\ ~ x.ready /\ x.due
  IN SelectSeq([i \in Slots |-> i], Late)

DispatchTimeouts(s) ==
  LET late == Expired(s)
      Late(i) == \E k \in DOMAIN late : late[k] = i
  IN
  /\ wpc[s] = "timeouts" /\ lock[s] = None
  /\ slots' = [slots EXCEPT ![s] = [i \in Slots |->
       IF Late(i) THEN [slots[s][i] EXCEPT !.ready = TRUE, !.status = "timedout"] ELSE slots[s][i]]]
  /\ MakeReady(s, [k \in DOMAIN late |-> slots[s][late[k]].co])
  /\ progressed' = [progressed EXCEPT ![s] = late # << >>]
  /\ wpc' = [wpc EXCEPT ![s] = "wakes"]
  /\ UNCHANGED <<control, counters, submits, free_slots, wakes, free_frames, job, awaiting, batch, cur, tasks, waits>>

DispatchWake(s) ==
  LET h == Head(wakes[s]) IN
  /\ wpc[s] = "wakes" /\ lock[s] = None /\ wakes[s] # << >>
  /\ wakes' = [wakes EXCEPT ![s] = Tail(@)]
  /\ IF Named(h) /\ SlotOf(h).waiting /\ SlotOf(h).ready
       THEN MakeReady(s, <<SlotOf(h).co>>)
       ELSE UNCHANGED <<waiting_for_io, ready>>
  /\ progressed' = [progressed EXCEPT ![s] = TRUE]
  /\ UNCHANGED <<control, counters, submits, slots, free_slots, free_frames, job, awaiting, wpc,
                 batch, cur, tasks, waits>>

(* The wakes are dispatched; a task can be taken.                          *)
Takes(s) == wpc[s] = "take" \/ (wpc[s] = "wakes" /\ wakes[s] = << >>)
CanTake(s) == Active(s) < MaxCo /\ queue[s] # << >>

(* take_task and start_task.  The frames are the worker's own, so nobody   *)
(* sees the task between the queue and its frame: the pool's first free    *)
(* one becomes a ready coroutine ...                                       *)
TakeTask(s) ==
  /\ Takes(s) /\ lock[s] = None /\ CanTake(s)
  /\ queue' = [queue EXCEPT ![s] = Tail(@)]
  /\ WakeSubmitters(s)
  /\ progressed' = [progressed EXCEPT ![s] = TRUE]

StartTask(s) ==
  LET c == Head(free_frames[s]) t == Head(queue[s]) IN
  /\ TakeTask(s) /\ free_frames[s] # << >>
  /\ free_frames' = [free_frames EXCEPT ![s] = Tail(@)]
  /\ job' = [job EXCEPT ![s][c] = t]
  /\ ready' = [ready EXCEPT ![s] = Append(@, c)]
  /\ waiting_for_io' = [waiting_for_io EXCEPT ![s] = @ \ {c}]
  /\ state' = [state EXCEPT ![t] = "running"]
  /\ wpc' = [wpc EXCEPT ![s] = "take"]
  /\ UNCHANGED <<control, counters, lock, target, awaits, awaiting, batch, cur, ops, waits>>

(* ... or there is no frame, or no memory for it, and the task is          *)
(* cancelled and finalized.                                                *)
CancelTask(s) ==
  /\ TakeTask(s)
  /\ state' = [state EXCEPT ![Head(queue[s])] = "cancelled"] /\ cancelled' = cancelled + 1
  /\ wpc' = [wpc EXCEPT ![s] = "notify_take"]
  /\ UNCHANGED <<control, submitted, completed, lock, target, awaits, frames, batch, cur, ops, waits>>

(* No task to take: a tick for the frames that are ready now, if any.      *)
BeginTick(s) ==
  /\ Takes(s) /\ lock[s] = None /\ ~ CanTake(s)
  /\ batch' = [batch EXCEPT ![s] = Len(ready[s])]
  /\ progressed' = [progressed EXCEPT ![s] = @ \/ ready[s] # << >>]
  /\ wpc' = [wpc EXCEPT ![s] = "tick"]
  /\ UNCHANGED <<control, counters, submits, awaits, frames, cur, tasks, waits>>

Resume(s) ==
  /\ wpc[s] = "tick" /\ batch[s] > 0 /\ ready[s] # << >>
  /\ cur' = [cur EXCEPT ![s] = Head(ready[s])]
  /\ ready' = [ready EXCEPT ![s] = Tail(@)]
  /\ batch' = [batch EXCEPT ![s] = @ - 1]
  /\ wpc' = [wpc EXCEPT ![s] = "run"]
  /\ UNCHANGED <<control, counters, submits, awaits, free_frames, job, waiting_for_io, awaiting,
                 progressed, tasks, waits>>

ShouldExit(s) == shutdown /\ queue[s] = << >> /\ wakes[s] = << >> /\ Active(s) = 0
HasWork(s) == wakes[s] # << >> \/ CanTake(s) \/ ready[s] # << >>

Check(s) ==
  /\ wpc[s] = "tick" /\ (batch[s] = 0 \/ ready[s] = << >>) /\ lock[s] = None
  /\ batch' = [batch EXCEPT ![s] = 0]
  /\ wpc' = [wpc EXCEPT ![s] = IF ShouldExit(s) THEN "exited"
                               ELSE IF progressed[s] \/ HasWork(s) THEN "timeouts" ELSE "asleep"]
  /\ UNCHANGED <<control, counters, submits, awaits, frames, progressed, cur, tasks, waits>>

(* A wait for work may end for nothing; a timed one ends when its earliest *)
(* deadline has passed.                                                    *)
WakeUp(s) ==
  /\ wpc[s] = "asleep" /\ SignalWork(s)
  /\ UNCHANGED <<control, counters, submits, awaits, frames, progressed, batch, cur, tasks, waits>>

Timeout(s) == Expired(s) # << >> /\ WakeUp(s)

NotifyProgress(s) ==
  /\ wpc[s] \in {"notify_take", "notify_tick"}
  /\ Notify
  /\ wpc' = [wpc EXCEPT ![s] = IF @ = "notify_take" THEN "take" ELSE "tick"]
  /\ UNCHANGED <<control, counters, submits, awaits, frames, progressed, batch, cur, tasks>>

-----------------------------------------------------------------------------
(* What a task does while it runs on frame cur[s].                         *)

OwnSlots(s) == {i \in Slots : slots[s][i].active /\ slots[s][i].co = cur[s]}

(* The rest of await_internal after coro_yield: the slot of the handle     *)
(* is released.  WakesExact says it is this frame's and completed.         *)
AwaitReturn(s) ==
  LET h == awaiting[s][cur[s]] IN
  /\ wpc[s] = "run" /\ h # None /\ lock[s] = None
  /\ IF Named(h) THEN Release(s, h[2]) ELSE UNCHANGED <<slots, free_slots>>
  /\ awaiting' = [awaiting EXCEPT ![s][cur[s]] = None]
  /\ UNCHANGED <<control, counters, submits, wakes, free_frames, job, waiting_for_io, ready, worker,
                 tasks, waits>>

(* The task goes on with its code.                                         *)
Running(s) == wpc[s] = "run" /\ awaiting[s][cur[s]] = None
Acts(s) ==
  /\ Running(s) /\ ops[job[s][cur[s]]] > 0
  /\ ops' = [ops EXCEPT ![job[s][cur[s]]] = @ - 1]

(* Mutant: the tick does not queue a frame that yields again.              *)
SuspendLost(s) ==
  /\ wpc' = [wpc EXCEPT ![s] = "tick"] /\ cur' = [cur EXCEPT ![s] = 0]
  /\ UNCHANGED ready

(* Control returns to the tick, which queues the frame again unless it     *)
(* waits.                                                                  *)
Suspend(s) ==
  /\ wpc' = [wpc EXCEPT ![s] = "tick"] /\ cur' = [cur EXCEPT ![s] = 0]
  /\ ready' = [ready EXCEPT ![s] = IF cur[s] \in waiting_for_io'[s] THEN @ ELSE Append(@, cur[s])]

Yield(s) ==
  /\ Acts(s)
  /\ UNCHANGED waiting_for_io
  /\ Suspend(s)
  /\ UNCHANGED <<control, counters, submits, awaits, free_frames, job, awaiting, progressed, batch,
                 state, waits>>

AwaitBegin(s) ==
  LET i == Head(free_slots[s])
      gen == NextGeneration(slots[s][i].gen)
  IN
  /\ Acts(s) /\ lock[s] = None /\ OwnSlots(s) = {} /\ free_slots[s] # << >>
  /\ gen <= MaxGen
  /\ free_slots' = [free_slots EXCEPT ![s] = Tail(@)]
  /\ slots' = [slots EXCEPT ![s][i] = [FreeSlot(gen) EXCEPT !.co = cur[s], !.active = TRUE]]
  /\ UNCHANGED <<control, counters, submits, wakes, frames, worker, state, waits>>

(* await, await_for: the completion is there ...                           *)
AwaitReady(s) ==
  \E i \in OwnSlots(s) :
    /\ Acts(s) /\ lock[s] = None /\ slots[s][i].ready
    /\ Release(s, i)
    /\ UNCHANGED <<control, counters, submits, wakes, frames, worker, state, waits>>

(* ... or the frame parks.                                                 *)
AwaitPark(s, timed) ==
  \E i \in OwnSlots(s) :
    /\ Acts(s) /\ lock[s] = None /\ ~ slots[s][i].ready
    /\ slots' = [slots EXCEPT ![s][i].waiting = TRUE, ![s][i].timed = timed]
    /\ waiting_for_io' = [waiting_for_io EXCEPT ![s] = @ \cup {cur[s]}]
    /\ awaiting' = [awaiting EXCEPT ![s][cur[s]] = <<s, i, slots[s][i].gen>>]
    /\ Suspend(s)
    /\ UNCHANGED <<control, counters, submits, free_slots, wakes, free_frames, job, progressed, batch, state, waits>>

AwaitAbort(s) ==
  \E i \in OwnSlots(s) :
    /\ Acts(s) /\ lock[s] = None /\ ~ slots[s][i].ready
    /\ Release(s, i)
    /\ UNCHANGED <<control, counters, submits, wakes, frames, worker, state, waits>>

(* A callback submits; on a full queue it is refused.  Its own task is     *)
(* unsettled, so nobody can tell the admission check from the publication. *)
SubmitInside(s, to) ==
  /\ Acts(s) /\ lock[to] = None /\ accepting /\ ~ Full(to) /\ InBounds
  /\ Publish(to) /\ SignalWork(to)
  /\ UNCHANGED <<control, completed, cancelled, lock, spc, target, awaits, frames, progressed, batch, cur, waits>>

(* Mutant: finish_coro does not take back the slot a task left open.       *)
FinishKeepsSlot(s) ==
  /\ Running(s) /\ lock[s] = None
  /\ state' = [state EXCEPT ![job[s][cur[s]]] = "completed"] /\ completed' = completed + 1
  /\ job' = [job EXCEPT ![s][cur[s]] = 0]
  /\ free_frames' = [free_frames EXCEPT ![s] = <<cur[s]>> \o @]
  /\ cur' = [cur EXCEPT ![s] = 0] /\ wpc' = [wpc EXCEPT ![s] = "notify_tick"]
  /\ UNCHANGED <<control, submitted, cancelled, submits, awaits, waiting_for_io, ready, awaiting,
                 progressed, batch, ops, waits>>

(* The task returns and is finalized; finish_coro takes back a slot the    *)
(* task has left open and the frame.                                       *)
Finish(s) ==
  /\ Running(s) /\ lock[s] = None
  /\ IF OwnSlots(s) # {} THEN \E i \in OwnSlots(s) : Release(s, i) ELSE UNCHANGED <<slots, free_slots>>
  /\ state' = [state EXCEPT ![job[s][cur[s]]] = "completed"] /\ completed' = completed + 1
  /\ job' = [job EXCEPT ![s][cur[s]] = 0]
  /\ free_frames' = [free_frames EXCEPT ![s] = <<cur[s]>> \o @]
  /\ cur' = [cur EXCEPT ![s] = 0] /\ wpc' = [wpc EXCEPT ![s] = "notify_tick"]
  /\ UNCHANGED <<control, submitted, cancelled, submits, wakes, waiting_for_io, ready, awaiting,
                 progressed, batch, ops, waits>>

-----------------------------------------------------------------------------
Work(s) ==
  \/ \E ok \in BOOLEAN : Startup(s, ok)
  \/ DispatchTimeouts(s) \/ DispatchWake(s)
  \/ StartTask(s) \/ CancelTask(s) \/ NotifyProgress(s)
  \/ BeginTick(s) \/ Resume(s) \/ Check(s)
  \/ Yield(s) \/ AwaitBegin(s) \/ AwaitReady(s) \/ (\E timed \in BOOLEAN : AwaitPark(s, timed))
  \/ AwaitReturn(s) \/ AwaitAbort(s) \/ (\E to \in Shards : SubmitInside(s, to)) \/ Finish(s)

Stop(x) == StopStore(x) \/ StopWake(x) \/ StopNotify(x)

Next ==
  \/ \E s \in Shards : Work(s) \/ WakeUp(s) \/ (\E i \in Slots : DeadlinePasses(s, i))
  \/ \E h \in Handles, status \in Statuses : Complete(h, status)
  \/ \E u \in Submitters : SubmitPublish(u) \/ SubmitSpurious(u) \/ (\E s \in Shards : SubmitEnter(u, s))
  \/ \E x \in Stoppers : Stop(x)
  \/ CreateReturn \/ Shutdown \/ Destroy \/ Join
  \/ WaitCall \/ WaitLoad \/ WaitCheck \/ WaitSpurious

Spec == Init /\ [][Next]_vars

(* Every thread runs on and gets the mutexes it asks for, clocks go on,    *)
(* tasks return, and whoever was given a handle completes it: "a missing   *)
(* completion prevents drain by contract".                                 *)
ShardThread(s) == Work(s) \/ Stop(s) \/ Timeout(s)
OwnerThread == Stop(Owner) \/ CreateReturn \/ Destroy \/ Join \/ WaitLoad \/ WaitCheck \/
               (WaitCall /\ shutdown)
SubmitThread(u) == SubmitPublish(u) \/ (spc[u] = "awake" /\ \E s \in Shards : SubmitEnter(u, s))
Completions == \E h \in Handles, status \in Statuses : Complete(h, status)
Clocks == \E s \in Shards, i \in Slots : DeadlinePasses(s, i)

Fairness ==
  /\ \A s \in Shards : WF_vars(ShardThread(s)) /\ SF_vars(NotifyProgress(s))
  /\ \A u \in Submitters : WF_vars(SubmitThread(u))
  /\ WF_vars(OwnerThread) /\ WF_vars(Completions) /\ WF_vars(Clocks)

LiveSpec == Spec /\ Fairness

-----------------------------------------------------------------------------
Elements(seq) == {seq[k] : k \in DOMAIN seq}
NoRepeats(seq) == Len(seq) = Cardinality(Elements(seq))

(* The types of the executor's fields, and the bound of the task queue.    *)
TypeOK ==
  /\ accepting \in BOOLEAN /\ shutdown \in BOOLEAN
  /\ submitted \in 0..MaxTasks /\ completed \in 0..MaxTasks /\ cancelled \in 0..MaxTasks
  /\ \A s \in Shards :
       /\ queue[s] \in Seq(Tasks) /\ Len(queue[s]) <= QueueCap
       /\ wakes[s] \in Seq(Handles)
       /\ slots[s] \in [Slots -> [co : 0..MaxCo, gen : 0..MaxGen, status : Statuses \cup {None, "timedout"},
                                  active : BOOLEAN, waiting : BOOLEAN, ready : BOOLEAN,
                                  timed : BOOLEAN, due : BOOLEAN]]
       /\ wpc[s] \in {"start", "stopping", "timeouts", "wakes", "take", "notify_take", "tick",
                      "run", "notify_tick", "asleep", "exited"}
  /\ state \in [Tasks -> {"none", "queued", "running", "completed", "cancelled"}]

(* Frames and await slots are never lost, shared or left behind: a frame   *)
(* with a task is ready, running or parked, and only one of them; a slot   *)
(* is free or belongs to one such frame.  (Frames and slots are reused: a  *)
(* slot that outlived its task would be found by the next task on the      *)
(* frame.)                                                                 *)
FramesAccounted ==
  /\ TypeOK
  /\ \A s \in Shards :
       LET busy == {c \in Slots : job[s][c] # 0}
           open == {i \in Slots : slots[s][i].active}
           running == {cur[s]} \ {0}
       IN
       /\ NoRepeats(ready[s]) /\ NoRepeats(free_slots[s]) /\ NoRepeats(free_frames[s])
       /\ Elements(ready[s]) \cap (running \cup waiting_for_io[s]) = {}
       /\ running \cap waiting_for_io[s] = {}
       /\ Elements(ready[s]) \cup running \cup waiting_for_io[s] = busy
       /\ Elements(free_frames[s]) = Slots \ busy
       /\ Elements(free_slots[s]) = Slots \ open
       /\ \A i \in open : slots[s][i].co \in busy
       /\ \A i, j \in open : i # j => slots[s][i].co # slots[s][j].co

(* Nobody sleeps through a signal: a worker asleep has nothing to do, and  *)
(* a submitter asleep no room, unless a stopper has yet to wake them; a    *)
(* waiter asleep has something to wait for or is about to be notified.     *)
SleepersWoken ==
  /\ \A s \in Shards : wpc[s] = "asleep" =>
       ~ HasWork(s) /\ (ShouldExit(s) => \E x \in Stoppers : stop[x] \in 3..(s + 2))
  /\ \A u \in Submitters : spc[u] = "asleep" =>
       Full(target[u]) /\ (~ accepting => \E x \in Stoppers : stop[x] \in 2..(target[u] + 2))
  /\ qpc = "asleep" =>
       Pending > 0 \/ (\E s \in Shards : wpc[s] \in {"notify_take", "notify_tick"})

(* The wake ring holds one wake for each parked frame whose await has been *)
(* completed, and nothing else: no wake is lost, none is stale, and the    *)
(* ring, as long as a shard has slots, never refuses a completion with     *)
(* ENOBUFS.  A frame resumed in an await finds its own slot completed, so  *)
(* no await ends with EPROTO.  And no thread sleeps through a signal.      *)
WakesExact ==
  /\ SleepersWoken
  /\ \A s \in Shards :
       /\ NoRepeats(wakes[s])
       /\ Elements(wakes[s]) =
            {h \in Handles : /\ h[1] = s /\ Named(h)
                            /\ SlotOf(h).co \in waiting_for_io[s] /\ SlotOf(h).ready}
       /\ wpc[s] = "run" /\ awaiting[s][cur[s]] # None =>
            LET h == awaiting[s][cur[s]] IN Named(h) /\ SlotOf(h).co = cur[s] /\ SlotOf(h).ready

(* "A completion and timeout race has exactly one winner": the status of a *)
(* completed await never changes, whoever comes later and with whatever    *)
(* handle.                                                                 *)
FirstCompletionWins ==
  [][\A h \in Handles : Named(h) /\ SlotOf(h).ready /\ Named(h)'
       => SlotOf(h)'.ready /\ SlotOf(h)'.status = SlotOf(h).status]_vars

(* "Use shutdown first when a stable drain boundary is required": once a   *)
(* wait that followed shutdown has returned, every accepted task has been  *)
(* run or cancelled; a worker that has left leaves nothing behind.  In     *)
(* both cases no submission is still under way: admission is checked and   *)
(* the task published under the mutex under which the worker decides.      *)
Drained ==
  /\ shutdown /\ qpc = "returned" => \A t \in 1..submitted : state[t] \in {"completed", "cancelled"}
  /\ \A s \in Shards : wpc[s] = "exited" \/ (shutdown /\ qpc = "returned") =>
       queue[s] = << >> /\ wakes[s] = << >> /\ Active(s) = 0 /\ lock[s] = None

(* An accepted task is run to its end or cancelled, however its frame      *)
(* yields, parks, is completed or times out on the way; and a shutdown, or *)
(* a shard that cannot start, ends with the workers joined, blocked        *)
(* submitters refused and the owner returned.                              *)
RunsToEnd ==
  /\ \A t \in Tasks : state[t] = "queued" ~> state[t] \in {"completed", "cancelled"}
  /\ (stop[Owner] > 0 \/ failed) ~> owner = "gone"
=============================================================================
