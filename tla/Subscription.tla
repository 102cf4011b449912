---------------------------- MODULE Subscription ----------------------------
(***************************************************************************)
(* The life of a run, cflow/src/subscription.c: demand, the pump task that *)
(* at most one scheduler thread executes, waits of the source, the one     *)
(* terminal signal to the subscriber, cancellation, and close from other   *)
(* threads and from inside the subscriber's callbacks.                     *)
(*                                                                         *)
(* The graph is the identity, so a value of the source is a value for the  *)
(* subscriber.  The scheduler is concurrent and accepts or refuses a task  *)
(* (external), the source yields, waits and ends as it likes (external).   *)
(* The owner serializes its calls with close, and the source is quiet once *)
(* a close has begun; rejected is what schedule_pump told its caller.      *)
(* One step per section under a mutex.  todo[t] lists the steps thread t   *)
(* has still to make; a step is a label and an argument.                   *)
(***************************************************************************)
EXTENDS Integers, Sequences, FiniteSets, FiniteSetsExt

CONSTANTS
  Workers,      \* scheduler threads
  Clients,      \* threads that request and cancel
  Closers,      \* threads that close
  Drivers,      \* threads of the source that wake the run
  Quantum,      \* CMETA_RUN_QUANTUM
  MaxDemand,    \* bound on what is requested in all
  MaxValues,    \* bound on the values of the source
  MaxWaits,     \* bound on the waits of the source
  MaxRefusals   \* bound on the tasks the scheduler refuses

ASSUME RunAssumption ==
  /\ Quantum \in Nat \ {0}
  /\ MaxDemand \in Nat /\ MaxValues \in Nat /\ MaxWaits \in Nat /\ MaxRefusals \in Nat

VARIABLES
  run,          \* run_impl
  source,       \* the publisher
  tasks,        \* generations of the pump tasks in the scheduler's queue
  app,          \* what was requested, and what the subscriber was told
  todo

run_vars == <<run, source, tasks, app, todo>>

Threads == Workers \cup Clients \cup Closers \cup Drivers

At(t, label) == todo[t] # <<>> /\ Head(todo[t])[1] = label
Arg(t) == Head(todo[t])[2]
Do(label) == <<label, 0>>
Quiet(t) == todo[t] = <<>>
Then(t, steps) == todo' = [todo EXCEPT ![t] = steps \o (IF @ = <<>> THEN @ ELSE Tail(@))]

(* As Then, and wakes the closers that sleep on task_cv.                   *)
ThenBroadcast(t, steps) ==
  todo' = [u \in Threads |->
    IF u = t THEN steps \o Tail(todo[u])
    ELSE IF At(u, "asleep") THEN <<<<"drain", Arg(u)>>>> \o Tail(todo[u])
    ELSE todo[u]]

----------------------------------------------------------------------------
(* schedule_pump; the argument is fail_on_rejection.                       *)


(* The run is over, or a pump or a wake will look at it.                   *)
Pumping == run.terminated \/ run.pump_running \/ run.waiting

(* Mutant: the posting thread holds no reference of its own.               *)
Claimed_OneRef(must_fail) ==
  [run EXCEPT !.task_scheduled = TRUE, !.task_id = 0, !.generation = @ + 1,
     !.must_fail = must_fail, !.rejected = FALSE,
     !.task_posting = @ + 1, !.task_refs = @ + 1]

(* One reference is the task's and one the posting thread's.               *)
Claimed(must_fail) ==
  [run EXCEPT !.task_scheduled = TRUE, !.task_id = 0, !.generation = @ + 1,
     !.must_fail = must_fail, !.rejected = FALSE,
     !.task_posting = @ + 1, !.task_refs = @ + 2]

SchedulePump(t) ==
  /\ At(t, "schedule")
  /\ \/ Pumping /\ UNCHANGED run /\ Then(t, <<>>)
     \/ /\ ~Pumping /\ run.task_scheduled
        /\ run' = [run EXCEPT !.must_fail = @ \/ Arg(t)]
        /\ Then(t, <<>>)
     \/ /\ ~Pumping /\ ~run.task_scheduled
        /\ run' = Claimed(Arg(t))
        /\ Then(t, <<<<"post", run'.generation>>>>)
  /\ UNCHANGED <<source, tasks, app>>

Post(t) ==
  /\ At(t, "post")
  /\ \/ /\ tasks' = tasks \cup {Arg(t)}
        /\ Then(t, <<<<"posted", Arg(t)>>, Do("release")>>)
        /\ UNCHANGED app
     \/ /\ app.refusals < MaxRefusals
        /\ app' = [app EXCEPT !.refusals = @ + 1]
        /\ Then(t, <<<<"refused", Arg(t)>>, Do("release"), Do("release")>>)
        /\ UNCHANGED tasks
  /\ UNCHANGED <<run, source>>

Current(g) == run.task_scheduled /\ run.generation = g

Posted(t) ==
  /\ At(t, "posted")
  /\ run' = [run EXCEPT !.task_posting = @ - 1,
                        !.task_id = IF Current(Arg(t)) THEN Arg(t) ELSE @]
  /\ ThenBroadcast(t, <<>>)
  /\ UNCHANGED <<source, tasks, app>>

Refused(t) ==
  LET notify == /\ Current(Arg(t)) /\ run.must_fail /\ ~run.cancel_requested
                /\ ~run.close_requested /\ ~run.terminated
      cleared == IF Current(Arg(t))
                   THEN [run EXCEPT !.task_scheduled = FALSE, !.task_id = 0,
                                    !.must_fail = FALSE]
                   ELSE run
  IN /\ At(t, "refused")
     /\ run' = [cleared EXCEPT !.task_posting = @ - 1, !.terminated = @ \/ notify,
                           !.rejected = TRUE]
     /\ ThenBroadcast(t, IF notify THEN <<Do("sink_error")>> ELSE <<>>)
     /\ UNCHANGED <<source, tasks, app>>

(* Mutant: the last one out does not broadcast task_cv.                    *)
Release_Silent(t) ==
  LET last == run.task_refs = 1
      destroy == last /\ run.close_requested /\ ~run.external_closer /\ ~run.destroying
  IN /\ At(t, "release")
     /\ run' = [run EXCEPT !.task_refs = @ - 1, !.destroying = @ \/ destroy]
     /\ Then(t, IF destroy THEN <<Do("destroy")>> ELSE <<>>)
     /\ UNCHANGED <<source, tasks, app>>

(* run_release_task_ref; the last one out destroys a run closed from       *)
(* within, unless a closer is waiting to do it.                            *)
Release(t) ==
  LET last == run.task_refs = 1
      destroy == last /\ run.close_requested /\ ~run.external_closer /\ ~run.destroying
  IN /\ At(t, "release")
     /\ run' = [run EXCEPT !.task_refs = @ - 1, !.destroying = @ \/ destroy]
     /\ LET steps == IF destroy THEN <<Do("destroy")>> ELSE <<>>
        IN IF last THEN ThenBroadcast(t, steps) ELSE Then(t, steps)
     /\ UNCHANGED <<source, tasks, app>>

Destroy(t) ==
  /\ At(t, "destroy")
  /\ run' = [run EXCEPT !.impl = FALSE]
  /\ source' = [source EXCEPT !.armed = FALSE, !.bound = FALSE]
  /\ Then(t, <<>>)
  /\ UNCHANGED <<tasks, app>>

----------------------------------------------------------------------------
(* The pump.                                                               *)

Dispatch(t) ==
  /\ Quiet(t)
  /\ \E g \in tasks :
       /\ tasks' = tasks \ {g}
       /\ \/ Then(t, <<Do("pump")>>)
          \/ Then(t, <<Do("task_cancel")>>)     \* the scheduler is shut down
  /\ UNCHANGED <<run, source, app>>

PumpBegin(t) ==
  /\ At(t, "pump")
  /\ run' = [run EXCEPT !.task_scheduled = FALSE, !.task_id = 0, !.must_fail = FALSE,
                        !.pump_running = TRUE]
  /\ Then(t, <<<<"unit", 0>>, Do("pump_end"), Do("again"), Do("release")>>)
  /\ UNCHANGED <<source, tasks, app>>

(* The loop's checks and take_cancel_request.                              *)
Unit(t) ==
  /\ At(t, "unit")
  /\ IF Arg(t) = Quantum \/ run.waiting \/ run.terminated
       THEN run' = run /\ Then(t, <<>>)
     ELSE IF run.cancel_requested
       THEN /\ run' = [run EXCEPT !.cancel_requested = FALSE, !.cancelled = TRUE,
                                  !.terminated = TRUE]
            /\ Then(t, <<>>)
       ELSE run' = run /\ Then(t, <<<<"advance", Arg(t)>>>>)
  /\ UNCHANGED <<source, tasks, app>>

(* process_unit and process_source_step: what the source's resume returns. *)
NextUnit(t) == <<<<"unit", Arg(t) + 1>>>>

Advance(t) ==
  /\ At(t, "advance")
  /\ \/ /\ run.source_done
        /\ Then(t, <<Do("finish")>>) /\ UNCHANGED <<run, source>>
     \/ /\ ~run.source_done /\ run.demand = 0 /\ source.end = "OPEN"
        /\ Then(t, <<>>) /\ UNCHANGED <<run, source>>
     \/ /\ ~run.source_done /\ source.end = "ERROR"
        /\ Then(t, <<Do("fail")>>) /\ UNCHANGED <<run, source>>
     \/ /\ ~run.source_done /\ source.end = "DONE"
        /\ run' = [run EXCEPT !.source_done = TRUE]
        /\ Then(t, NextUnit(t)) /\ UNCHANGED source
     \/ /\ ~run.source_done /\ run.demand > 0 /\ source.end = "OPEN" /\ source.values > 0
        /\ \E last \in BOOLEAN :
             /\ source' = [source EXCEPT !.values = @ - 1,
                                         !.end = IF last THEN "DONE" ELSE @]
             /\ run' = [run EXCEPT !.source_done = last]
        /\ Then(t, <<<<"value", Arg(t)>>>>)
     \/ /\ ~run.source_done /\ run.demand > 0 /\ source.end = "OPEN" /\ source.waits > 0
        /\ source' = [source EXCEPT !.waits = @ - 1]
        /\ Then(t, <<Do("set_waiting"), Do("arm")>> \o NextUnit(t)) /\ UNCHANGED run
  /\ UNCHANGED <<tasks, app>>

(* The owner closes when no other thread is inside a call on the run, and  *)
(* calls no more once it closes.                                           *)
Closing == \/ run.close_requested \/ run.external_closer
           \/ \E t \in Threads : \E i \in 1..Len(todo[t]) :
                todo[t][i][1] = "close_inside"
MayClose(t) == \A c \in (Clients \cup Drivers) \ {t} : Quiet(c)

(* The subscriber may close or request from its callback, or refuse.       *)
Value(t) ==
  /\ At(t, "value")
  /\ run' = [run EXCEPT !.demand = @ - 1]
  /\ app' = [app EXCEPT !.signals = Append(@, "value")]
  /\ \/ Then(t, NextUnit(t))
     \/ app.requested < MaxDemand /\ Then(t, <<Do("request")>> \o NextUnit(t))
     \/ MayClose(t) /\ Then(t, <<Do("close_inside")>> \o NextUnit(t))
     \/ Then(t, <<Do("fail")>>)
  /\ UNCHANGED <<source, tasks>>

SetWaiting(t) ==
  /\ At(t, "set_waiting")
  /\ run' = [run EXCEPT !.waiting = TRUE]
  /\ Then(t, <<>>)
  /\ UNCHANGED <<source, tasks, app>>

(* The source keeps the waker, or calls it at once, or refuses it.         *)
Arm(t) ==
  /\ At(t, "arm")
  /\ \/ /\ source.end = "OPEN"
        /\ source' = [source EXCEPT !.armed = TRUE]
        /\ Then(t, <<>>) /\ UNCHANGED run
     \/ Then(t, <<Do("wake")>>) /\ UNCHANGED <<run, source>>
     \/ /\ run' = [run EXCEPT !.waiting = FALSE] /\ UNCHANGED source
        /\ todo' = [todo EXCEPT ![t] = <<Do("fail")>> \o Tail(Tail(@))]
  /\ UNCHANGED <<tasks, app>>

Fail(t) ==
  /\ At(t, "fail")
  /\ run' = [run EXCEPT !.terminated = TRUE]
  /\ Then(t, IF run.terminated THEN <<>> ELSE <<Do("sink_error")>>)
  /\ UNCHANGED <<source, tasks, app>>

Finish(t) ==
  /\ At(t, "finish")
  /\ run' = [run EXCEPT !.terminated = TRUE]
  /\ Then(t, IF run.terminated THEN <<>> ELSE <<Do("sink_done")>>)
  /\ UNCHANGED <<source, tasks, app>>

Signal(t) ==
  /\ At(t, "sink_error") \/ At(t, "sink_done")
  /\ LET signal == IF At(t, "sink_done") THEN "done" ELSE "error"
     IN app' = [app EXCEPT !.signals = Append(@, signal)]
  /\ \/ Then(t, <<>>)
     \/ MayClose(t) /\ Then(t, <<Do("close_inside")>>)
  /\ UNCHANGED <<run, source, tasks>>

PumpEnd(t) ==
  /\ At(t, "pump_end")
  /\ run' = [run EXCEPT !.pump_running = FALSE]
  /\ todo' = [todo EXCEPT ![t] = IF run.terminated \/ run.waiting
                                   THEN Tail(Tail(@)) ELSE Tail(@)]
  /\ UNCHANGED <<source, tasks, app>>


(* The demand is read after pump_running is cleared.                       *)
Again(t) ==
  /\ At(t, "again")
  /\ Then(t, IF run.source_done \/ run.demand > 0 THEN <<<<"schedule", TRUE>>>> ELSE <<>>)
  /\ UNCHANGED <<run, source, tasks, app>>

TaskCancel(t) ==
  /\ At(t, "task_cancel")
  /\ run' = [run EXCEPT !.task_scheduled = FALSE, !.task_id = 0, !.must_fail = FALSE,
       !.cancel_requested = @ /\ run.terminated,
       !.cancelled = @ \/ ~run.terminated, !.terminated = TRUE]
  /\ Then(t, <<Do("release")>>)
  /\ UNCHANGED <<source, tasks, app>>

----------------------------------------------------------------------------
(* The source ends, or wakes the run.  An end wakes it once, though the    *)
(* run may be known to the source twice, as a waiter and as the one to     *)
(* tell of the end.                                                        *)

SourceEnds(t) ==
  /\ Quiet(t) /\ run.impl /\ ~Closing /\ source.end = "OPEN"
  /\ \E e \in {"DONE", "ERROR"} :
       source' = [source EXCEPT !.end = e, !.armed = FALSE, !.bound = FALSE]
  /\ Then(t, IF source.armed \/ source.bound THEN <<Do("wake")>> ELSE <<>>)
  /\ UNCHANGED <<run, tasks, app>>

SourceWakes(t) ==
  /\ Quiet(t) /\ ~Closing /\ source.armed
  /\ source' = [source EXCEPT !.armed = FALSE]
  /\ Then(t, <<Do("wake")>>)
  /\ UNCHANGED <<run, tasks, app>>

Wake(t) ==
  /\ At(t, "wake")
  /\ run' = IF run.impl THEN [run EXCEPT !.waiting = FALSE] ELSE run
  /\ Then(t, IF run.impl THEN <<<<"schedule", TRUE>>>> ELSE <<>>)
  /\ UNCHANGED <<source, tasks, app>>

----------------------------------------------------------------------------
(* Calls of the owner.  A request beyond MaxDemand is not made.            *)

SubscriptionRequest(t) ==
  /\ \/ At(t, "request")
     \/ Quiet(t) /\ t \in Clients /\ run.impl /\ ~Closing /\ app.requested < MaxDemand
  /\ IF run.terminated \/ app.requested = MaxDemand
       THEN UNCHANGED <<run, app>> /\ Then(t, <<>>)
       ELSE /\ run' = [run EXCEPT !.demand = @ + 1]
            /\ app' = [app EXCEPT !.requested = @ + 1]
            /\ Then(t, <<<<"schedule", FALSE>>>>)
  /\ UNCHANGED <<source, tasks>>

SubscriptionCancel(t) ==
  /\ \/ At(t, "cancel")
     \/ Quiet(t) /\ t \in Clients /\ run.impl /\ ~Closing /\ ~run.cancel_requested
  /\ run' = [run EXCEPT !.cancel_requested = TRUE, !.waiting = FALSE]
  /\ Then(t, (IF run.waiting THEN <<Do("disarm")>> ELSE <<>>)
             \o <<<<"schedule", FALSE>>>>)
  /\ UNCHANGED <<source, tasks, app>>

Disarm(t) ==
  /\ At(t, "disarm") \/ At(t, "unbind")
  /\ source' = IF At(t, "disarm") THEN [source EXCEPT !.armed = FALSE]
                                   ELSE [source EXCEPT !.bound = FALSE]
  /\ Then(t, <<>>)
  /\ UNCHANGED <<run, tasks, app>>

(* A closer waits on run_lifecycle_cv while another one, or the pump, is   *)
(* about to destroy the run.                                               *)
ClaimClose(t) ==
  /\ Quiet(t) /\ t \in Closers /\ MayClose(t)
  /\ run.impl /\ ~run.external_closer /\ ~run.destroying
  /\ run' = [run EXCEPT !.external_closer = TRUE]
  /\ Then(t, <<Do("request_close"), <<"drain", 0>>>>)
  /\ UNCHANGED <<source, tasks, app>>

RequestClose(t) ==
  /\ At(t, "request_close") \/ At(t, "close_inside")
  /\ run' = [run EXCEPT !.close_requested = TRUE]
  /\ Then(t, IF run.close_requested THEN <<>> ELSE <<Do("cancel"), Do("unbind")>>)
  /\ UNCHANGED <<source, tasks, app>>

Cancellable(g) == run.task_scheduled /\ run.task_id # 0 /\ run.generation # g

Drain(t) ==
  /\ At(t, "drain")
  /\ Then(t, IF run.task_refs = 0 THEN <<Do("close_destroy")>>
             ELSE IF run.task_posting = 0 /\ Cancellable(Arg(t))
               THEN <<<<"cancel_task", run.generation>>>>
             ELSE <<<<"asleep", Arg(t)>>>>)
  /\ UNCHANGED <<run, source, tasks, app>>

CancelTask(t) ==
  /\ At(t, "cancel_task")
  /\ tasks' = tasks \ {Arg(t)}
  /\ Then(t, (IF Arg(t) \in tasks THEN <<Do("task_cancel")>> ELSE <<>>)
             \o <<<<"drain", Arg(t)>>>>)
  /\ UNCHANGED <<run, source, app>>

CloseDestroy(t) ==
  /\ At(t, "close_destroy")
  /\ run' = [run EXCEPT !.destroying = TRUE]
  /\ Then(t, <<Do("destroy")>>)
  /\ UNCHANGED <<source, tasks, app>>

----------------------------------------------------------------------------
RunInit ==
  /\ run = [impl |-> TRUE, demand |-> 0, task_refs |-> 0, task_scheduled |-> FALSE,
       task_posting |-> 0, task_id |-> 0, generation |-> 0, must_fail |-> FALSE,
       rejected |-> FALSE, pump_running |-> FALSE, waiting |-> FALSE,
       source_done |-> FALSE, cancel_requested |-> FALSE, cancelled |-> FALSE,
       terminated |-> FALSE, close_requested |-> FALSE, external_closer |-> FALSE, destroying |-> FALSE]
  /\ source = [end |-> "OPEN", values |-> MaxValues, waits |-> MaxWaits,
       armed |-> FALSE, bound |-> TRUE]
  /\ tasks = {}
  /\ app = [requested |-> 0, refusals |-> 0, signals |-> <<>>]
  /\ todo = [t \in Threads |-> <<>>]

(* The steps of a thread inside a call or a task.                          *)
RunStep(t) ==
  \/ SchedulePump(t) \/ Post(t) \/ Posted(t) \/ Refused(t) \/ Release(t) \/ Destroy(t)
  \/ PumpBegin(t) \/ Unit(t) \/ Advance(t) \/ Value(t)
  \/ SetWaiting(t) \/ Arm(t) \/ Fail(t) \/ Finish(t) \/ Signal(t)
  \/ PumpEnd(t) \/ Again(t) \/ TaskCancel(t)
  \/ Wake(t) \/ SubscriptionRequest(t) \/ SubscriptionCancel(t) \/ Disarm(t)
  \/ ClaimClose(t) \/ RequestClose(t) \/ Drain(t) \/ CancelTask(t) \/ CloseDestroy(t)

RunNext ==
  \/ \E t \in Threads : RunStep(t)
  \/ \E t \in Workers : Dispatch(t)
  \/ \E t \in Drivers : SourceEnds(t) \/ SourceWakes(t)

RunSpec == RunInit /\ [][RunNext]_run_vars

----------------------------------------------------------------------------
(* How many of the steps ahead of all threads have such a label.           *)
Ahead(labels) ==
  MapThenSumSet(LAMBDA t : Cardinality({i \in DOMAIN todo[t] : todo[t][i][1] \in labels}),
                Threads)

(* Every reference is held by someone: a queued task, a pump or a          *)
(* cancellation that has still to release it, or a call of schedule_pump,  *)
(* which holds two until the scheduler has answered.  So close finds no    *)
(* reference exactly when nobody will touch the run again, and a destroyed *)
(* run is only met by a wake, which finds it gone.                         *)
RefsAccounted ==
  /\ run.task_refs = Cardinality(tasks) + Ahead({"release", "pump", "task_cancel"})
                                        + 2 * Ahead({"post"})
  /\ run.task_posting = Ahead({"post", "posted", "refused"})
  /\ ~run.impl => /\ run.task_refs = 0
                  /\ \A t \in Threads : Quiet(t) \/ At(t, "wake")


(* No thread can move but in a new call.                                   *)
AtRest == tasks = {} /\ \A t \in Threads : Quiet(t) \/ At(t, "asleep")

=============================================================================
