-------------------------------- MODULE Actor --------------------------------
(***************************************************************************)
(* cflow/src/actor.c: the lifecycle of an actor over a machine or a        *)
(* statechart instance and the run of its subscription.  The owner starts, *)
(* stops and destroys it, callbacks may stop it, producers send, other     *)
(* threads wait for its end.                                               *)
(*                                                                         *)
(* The instance and the run are what MachineInstance and Subscription say  *)
(* of them, with adjacent sections of one call made one step.  The owner   *)
(* serializes start, stop and destroy, and nobody waits during destroy     *)
(* (actor.h).  steps[p] lists what thread p has still to do before its     *)
(* call returns.                                                           *)
(***************************************************************************)
EXTENDS Integers, Sequences

CONSTANTS
  Producers,     \* threads that send through a reference
  Waiters,       \* threads that call wait
  MaxSends,      \* bound on accepted events
  MaxRejections, \* bound on the tasks the scheduler and the executor refuse
  StopsEarly     \* whether a statechart's action may stop an actor that is not yet started

ASSUME ActorAssumption ==
  MaxSends \in Nat /\ MaxRejections \in Nat /\ StopsEarly \in BOOLEAN

VARIABLES
  actor,         \* cflow_actor_impl
  gate,          \* the thread that holds impl->gate over several steps
  instance,      \* the machine or the statechart
  stream,        \* the run
  client,        \* what the application was told, and what it sent
  steps

actor_vars == <<actor, gate, instance, stream, client, steps>>

ActorOwner == "owner"  \* the thread with the actor's handle
Pump == "pump"      \* the scheduler's thread that pumps the run
Engine == "engine"  \* the serial executor's thread
Free == "free"

Actors == {ActorOwner, Pump, Engine} \cup Producers \cup Waiters

Resting(p) == steps[p] = <<>>
Doing(p, label) == steps[p] # <<>> /\ Head(steps[p]) = label
Begins(p, list) == Resting(p) /\ steps' = [steps EXCEPT ![p] = list]
Goes(p, list) == steps' = [steps EXCEPT ![p] = list \o Tail(@)]

(* As Goes, and wakes those that sleep on impl->changed.                   *)
GoesBroadcast(p, list) ==
  steps' = [q \in Actors |->
    IF q = p THEN list \o Tail(steps[q])
    ELSE IF Doing(q, "sleeping") THEN Tail(steps[q]) ELSE steps[q]]

Open == gate = Free

----------------------------------------------------------------------------
(* The instance.                                                           *)

Ended == instance.end # "NONE"

(* What close and cancel do at once, or leave to the transition that runs. *)
Halting(how) ==
  IF Ended THEN instance
  ELSE IF instance.busy
    THEN [instance EXCEPT !.queue = 0,
            !.halting = IF @ = "NO" \/ (instance.kind = "MACHINE" /\ how = "CANCEL")
                           THEN how ELSE @]
    ELSE [instance EXCEPT !.end = "DONE", !.queue = 0]

Waking == IF instance'.end # instance.end THEN <<"wake">> ELSE <<>>

CloseInstance(p) ==
  /\ Doing(p, "close")
  /\ instance' = Halting("CLOSE")
  /\ Goes(p, Waking)
  /\ UNCHANGED <<actor, gate, stream, client>>

CancelInstance(p) ==
  /\ Doing(p, "cancel")
  /\ instance' = Halting("CANCEL")
  /\ Goes(p, Waking)
  /\ UNCHANGED <<actor, gate, stream, client>>

(* A statechart also runs by itself, for its timers and its first steps.   *)
RunTransition ==
  /\ Resting(Engine) /\ ~instance.busy /\ ~Ended /\ ~instance.value
  /\ instance.queue > 0 \/ instance.kind = "STATECHART"
  /\ actor.live
  /\ instance' = [instance EXCEPT !.busy = TRUE, !.queue = IF @ > 0 THEN @ - 1 ELSE 0]
  /\ UNCHANGED <<actor, gate, stream, client, steps>>

Outcomes ==
  CASE instance.halting = "CANCEL" -> {"DONE"}
    [] instance.halting = "CLOSE" ->
         IF instance.kind = "MACHINE" THEN {"DONE", "ERROR"} ELSE {"DONE"}
    [] OTHER -> {"NONE", "DONE", "ERROR"}

FinishTransition ==
  /\ Resting(Engine) /\ instance.busy
  /\ \E end \in Outcomes, value \in BOOLEAN :
       /\ value => instance.kind = "MACHINE" /\ end # "ERROR" /\ instance.halting # "CANCEL"
       /\ instance' = [instance EXCEPT !.busy = FALSE, !.end = end, !.value = value,
                         !.queue = IF end = "NONE" THEN @ ELSE 0]
       /\ steps' = [steps EXCEPT ![Engine] =
                      IF end # "NONE" \/ value THEN <<"wake">> ELSE <<>>]
  /\ UNCHANGED <<actor, gate, stream, client>>

----------------------------------------------------------------------------
(* The run.                                                                *)

Covered(s) == s.terminated \/ s.pumping \/ s.waiting

(* schedule_pump, up to the post.                                          *)
Scheduling(s, must_fail) ==
  IF Covered(s) THEN s
  ELSE IF s.scheduled THEN [s EXCEPT !.must_fail = @ \/ must_fail]
  ELSE [s EXCEPT !.scheduled = TRUE, !.must_fail = must_fail]

Posting(s) == IF Covered(s) \/ s.scheduled THEN <<>> ELSE <<"post", "posted">>

WakeRun(p) ==
  LET s == [stream EXCEPT !.waiting = FALSE]
  IN /\ Doing(p, "wake")
     /\ IF stream.open THEN stream' = Scheduling(s, TRUE) /\ Goes(p, Posting(s))
                       ELSE stream' = stream /\ Goes(p, <<>>)
     /\ UNCHANGED <<actor, gate, instance, client>>

PostPump(p) ==
  /\ Doing(p, "post")
  /\ stream' = [stream EXCEPT !.queued = TRUE]
  /\ Goes(p, <<>>)
  /\ UNCHANGED <<actor, gate, instance, client>>

(* The scheduler refuses.  The run fails if a wake counts on the task, and *)
(* start is told.                                                          *)
PostRefused(p) ==
  LET notify == /\ stream.must_fail /\ ~stream.terminated
                /\ ~stream.cancel_requested
  IN /\ Doing(p, "post") /\ client.rejections < MaxRejections
     /\ client' = [client EXCEPT !.rejections = @ + 1]
     /\ stream' = [stream EXCEPT !.scheduled = FALSE, !.must_fail = FALSE,
                                 !.terminated = @ \/ notify]
     /\ steps' = [steps EXCEPT ![p] =
          (IF notify THEN <<"sink_error">> ELSE <<>>) \o
          (IF Len(@) = 3 /\ @[3] = "requested" THEN <<"posted", "refused">> ELSE Tail(@))]
     /\ UNCHANGED <<actor, gate, instance>>

(* The poster lets go of the run.                                          *)
Posted(p) ==
  /\ Doing(p, "posted")
  /\ Goes(p, <<>>)
  /\ UNCHANGED <<actor, gate, instance, stream, client>>

BeginPump ==
  /\ stream.queued
  /\ stream' = [stream EXCEPT !.queued = FALSE, !.scheduled = FALSE, !.must_fail = FALSE,
                              !.pumping = TRUE]
  /\ Begins(Pump, <<"unit", "end">>)
  /\ UNCHANGED <<actor, gate, instance, client>>

(* Mutant: the run counts as ended only after the subscriber was told.     *)
Signal_Late(label) == stream' = stream /\ Goes(Pump, <<label>>)

(* The run is ended, then the subscriber is told.                          *)
Signal(label) ==
  /\ stream' = [stream EXCEPT !.terminated = TRUE]
  /\ Goes(Pump, <<label>>)

(* The source's answer, with or without demand.                            *)
Poll ==
  \/ instance.end = "ERROR" /\ Signal("sink_error") /\ UNCHANGED <<instance, client>>
  \/ /\ instance.end = "DONE" /\ ~instance.value
     /\ stream' = [stream EXCEPT !.source_done = TRUE]
     /\ Goes(Pump, <<"unit">>)
     /\ UNCHANGED <<instance, client>>

TakeStep ==
  \/ /\ instance.value
     /\ instance' = [instance EXCEPT !.value = FALSE]
     /\ stream' = [stream EXCEPT !.source_done = instance.end = "DONE"]
     /\ Goes(Pump, <<"on_value", "unit">>)
     /\ UNCHANGED client
  \/ /\ ~instance.value /\ ~Ended
     /\ stream' = [stream EXCEPT !.waiting = TRUE]
     /\ Goes(Pump, <<"arm", "unit">>)
     /\ UNCHANGED <<instance, client>>
  \/ /\ ~instance.value /\ ~Ended /\ ~instance.busy /\ instance.kind = "MACHINE"
     /\ client.rejections < MaxRejections
     /\ client' = [client EXCEPT !.rejections = @ + 1]
     /\ instance' = [instance EXCEPT !.end = "ERROR", !.queue = 0]
     /\ Signal("sink_error")

(* One turn of the loop of pump_task.  Before there is demand only a       *)
(* source that has ended wakes the run.                                    *)
PumpUnit ==
  /\ Doing(Pump, "unit")
  /\ \/ /\ stream.waiting \/ stream.terminated
        /\ Goes(Pump, <<>>) /\ UNCHANGED <<stream, instance, client>>
     \/ /\ ~stream.waiting /\ ~stream.terminated
        /\ \/ stream.cancel_requested /\ Signal("cancel") /\ UNCHANGED <<instance, client>>
           \/ /\ ~stream.cancel_requested
              /\ \/ stream.source_done /\ Signal("sink_done") /\ UNCHANGED <<instance, client>>
                 \/ /\ ~stream.source_done
                    /\ Poll \/ (stream.demand /\ TakeStep)
  /\ UNCHANGED <<actor, gate>>

ArmWait ==
  /\ Doing(Pump, "arm")
  /\ Goes(Pump, IF instance.value \/ Ended THEN <<"wake">> ELSE <<>>)
  /\ UNCHANGED <<actor, gate, instance, stream, client>>

(* The subscriber's on_value takes the value or refuses it.                *)
OnValue ==
  /\ Doing(Pump, "on_value")
  /\ \/ Goes(Pump, <<>>) /\ UNCHANGED stream
     \/ Signal("sink_error")
  /\ UNCHANGED <<actor, gate, instance, client>>

EndPump ==
  /\ Doing(Pump, "end")
  /\ stream' = [stream EXCEPT !.pumping = FALSE]
  /\ Goes(Pump, IF stream.terminated \/ stream.waiting THEN <<>> ELSE <<"reschedule">>)
  /\ UNCHANGED <<actor, gate, instance, client>>

(* The pump left the loop because of a wait that is over by now.           *)
Reschedule ==
  /\ Doing(Pump, "reschedule")
  /\ stream' = Scheduling(stream, TRUE)
  /\ Goes(Pump, Posting(stream))
  /\ UNCHANGED <<actor, gate, instance, client>>

CloseRun ==
  LET s == [stream EXCEPT !.cancel_requested = TRUE, !.waiting = FALSE]
  IN /\ Doing(ActorOwner, "close_run")
     /\ IF stream.open THEN stream' = Scheduling(s, FALSE) /\ Goes(ActorOwner, Posting(s) \o <<"drain">>)
                       ELSE stream' = stream /\ Goes(ActorOwner, <<>>)
     /\ UNCHANGED <<actor, gate, instance, client>>

(* pump_task_cancel: the scheduler gives the task back.                    *)
CancelPump ==
  /\ Doing(ActorOwner, "drain") /\ stream.queued
  /\ stream' = [stream EXCEPT !.queued = FALSE, !.scheduled = FALSE, !.must_fail = FALSE,
                              !.terminated = TRUE]
  /\ Goes(ActorOwner, IF stream.terminated THEN <<"drain">> ELSE <<"cancel", "drain">>)
  /\ UNCHANGED <<actor, gate, instance, client>>

(* Mutant: close does not wait for a pump that runs.                       *)
DestroyRun_Early ==
  /\ Doing(ActorOwner, "drain") /\ ~stream.queued
  /\ stream' = [stream EXCEPT !.open = FALSE]
  /\ Goes(ActorOwner, <<"cancel">>)
  /\ UNCHANGED <<actor, gate, instance, client>>

(* Nobody holds a reference: the run is destroyed, and the source with it. *)
DestroyRun ==
  /\ Doing(ActorOwner, "drain") /\ ~stream.queued /\ Resting(Pump)
  /\ \A p \in Actors : \A i \in DOMAIN steps[p] : steps[p][i] # "posted"
  /\ stream' = [stream EXCEPT !.open = FALSE]
  /\ Goes(ActorOwner, <<"cancel">>)
  /\ UNCHANGED <<actor, gate, instance, client>>

----------------------------------------------------------------------------
(* Failure and the end of the run, told by the run to the actor.           *)

Over == actor.state \in {"STOPPED", "FAILED"}

Failing == [actor EXCEPT !.state = "FAILED", !.settled = FALSE]

(* Mutant: waiters need not wait for the cancellation.                     *)
MarkFailed_Settled(p) ==
  LET told == IF Doing(p, "sink_error") THEN <<"on_error">> ELSE <<>>
  IN /\ Doing(p, "mark_failed") \/ Doing(p, "sink_error")
     /\ Open
     /\ IF Over THEN actor' = actor /\ Goes(p, told)
                ELSE /\ actor' = [actor EXCEPT !.state = "FAILED", !.settled = TRUE]
                     /\ GoesBroadcast(p, <<"cancel", "settle">> \o told)
     /\ UNCHANGED <<gate, instance, stream, client>>

(* actor_mark_failed; sink_error calls it and then on_error.               *)
MarkFailed(p) ==
  LET told == IF Doing(p, "sink_error") THEN <<"on_error">> ELSE <<>>
  IN /\ Doing(p, "mark_failed") \/ Doing(p, "sink_error")
     /\ Open
     /\ IF Over THEN actor' = actor /\ Goes(p, told)
                ELSE /\ actor' = Failing
                     /\ GoesBroadcast(p, <<"cancel", "settle">> \o told)
     /\ UNCHANGED <<gate, instance, stream, client>>

(* Mutant: the waiters are not woken again.                                *)
SettleFailure_Silent(p) ==
  /\ Doing(p, "settle") /\ Open
  /\ actor' = [actor EXCEPT !.settled = TRUE]
  /\ Goes(p, <<>>)
  /\ UNCHANGED <<gate, instance, stream, client>>

SettleFailure(p) ==
  /\ Doing(p, "settle") /\ Open
  /\ actor' = [actor EXCEPT !.settled = TRUE]
  /\ GoesBroadcast(p, <<>>)
  /\ UNCHANGED <<gate, instance, stream, client>>

(* The end of a machine that was not asked to stop is a failure.           *)
SinkDone ==
  LET success == \/ actor.state = "STOPPING"
                 \/ actor.state = "RUNNING" /\ instance.kind = "STATECHART"
  IN /\ Doing(Pump, "sink_done") /\ Open
     /\ \/ /\ success
           /\ actor' = [actor EXCEPT !.state = "STOPPED"]
           /\ GoesBroadcast(Pump, <<"on_done">>)
        \/ /\ ~success /\ actor.state = "RUNNING"
           /\ actor' = Failing
           /\ GoesBroadcast(Pump, <<"cancel", "settle", "on_error">>)
        \/ /\ ~success /\ actor.state # "RUNNING"
           /\ actor' = actor
           /\ Goes(Pump, <<>>)
     /\ UNCHANGED <<gate, instance, stream, client>>

Tell(p) ==
  /\ Doing(p, "on_error") \/ Doing(p, "on_done")
  /\ client' = [client EXCEPT !.told = Append(@, Head(steps[p]))]
  /\ Goes(p, <<>>)
  /\ UNCHANGED <<actor, gate, instance, stream>>

----------------------------------------------------------------------------
(* Calls of the owner, and what callbacks may call.                        *)

StartActor ==
  /\ actor.live /\ Open /\ actor.state = "START"
  /\ Begins(ActorOwner, <<"attach">>)
  /\ UNCHANGED <<actor, gate, instance, stream, client>>

(* The source is attached and the run opened, without the gate; a source   *)
(* that has ended wakes the run at once.  Or there is no memory for it.    *)
OpenRun ==
  /\ Doing(ActorOwner, "attach")
  /\ \/ /\ stream' = [stream EXCEPT !.open = TRUE]
        /\ Goes(ActorOwner, (IF Ended THEN <<"wake">> ELSE <<>>) \o <<"request">>)
     \/ stream' = stream /\ Goes(ActorOwner, <<"cancel", "mark_failed">>)
  /\ UNCHANGED <<actor, gate, instance, client>>

GiveUp == <<"mark_failed", "close_run", "settle">>

(* The gate is held over the request, and so over the post.                *)
RequestDemand ==
  LET s == [stream EXCEPT !.demand = TRUE]
  IN /\ Doing(ActorOwner, "request") /\ Open
     /\ \/ /\ stream.terminated
           /\ actor' = Failing
           /\ GoesBroadcast(ActorOwner, GiveUp)
           /\ UNCHANGED <<gate, stream>>
        \/ /\ ~stream.terminated
           /\ actor' = [actor EXCEPT !.state = "RUNNING"]
           /\ stream' = Scheduling(s, FALSE)
           /\ gate' = IF Posting(s) = <<>> THEN Free ELSE ActorOwner
           /\ Goes(ActorOwner, IF Posting(s) = <<>> THEN <<>> ELSE Posting(s) \o <<"requested">>)
     /\ UNCHANGED <<instance, client>>

Requested ==
  /\ gate' = Free
  /\ \/ Doing(ActorOwner, "requested") /\ actor' = actor /\ Goes(ActorOwner, <<>>)
     \/ Doing(ActorOwner, "refused") /\ actor' = Failing /\ GoesBroadcast(ActorOwner, GiveUp)
  /\ UNCHANGED <<instance, stream, client>>

InCallback(p) ==
  \/ p = Pump /\ Doing(p, "on_value")
  \/ p = Engine /\ Resting(p) /\ instance.busy /\ (actor.state = "START" => StopsEarly)

RequestStop(p) ==
  /\ Open /\ actor.live /\ actor.state \in {"START", "RUNNING"}
  /\ (p = ActorOwner /\ Resting(p)) \/ InCallback(p)
  /\ IF actor.state = "START"
       THEN /\ actor' = [actor EXCEPT !.state = "STOPPED"]
            /\ steps' = [q \in Actors |->
                 IF q = p THEN <<"close">> \o steps[q]
                 ELSE IF Doing(q, "sleeping") THEN Tail(steps[q]) ELSE steps[q]]
       ELSE /\ actor' = [actor EXCEPT !.state = "STOPPING"]
            /\ steps' = [steps EXCEPT ![p] = <<"close">> \o @]
  /\ UNCHANGED <<gate, instance, stream, client>>

DestroyActor ==
  /\ actor.live /\ Open /\ ~actor.stale
  /\ \A w \in Waiters : Resting(w)
  /\ actor' = [actor EXCEPT !.stale = TRUE,
       !.state = CASE @ = "START" -> "STOPPED" [] @ = "RUNNING" -> "STOPPING" [] OTHER -> @]
  /\ Begins(ActorOwner, <<"close", "close_run", "destroy", "finish">>)
  /\ UNCHANGED <<gate, instance, stream, client>>

(* The instance's destroy waits for its task.                              *)
DestroyInstance ==
  /\ Doing(ActorOwner, "destroy") /\ Resting(Engine) /\ ~instance.busy
  /\ Goes(ActorOwner, <<>>)
  /\ UNCHANGED <<actor, gate, instance, stream, client>>


FinishDestroy ==
  /\ Doing(ActorOwner, "finish") /\ Open
  /\ actor' = [actor EXCEPT !.live = FALSE, !.state = IF @ = "FAILED" THEN @ ELSE "STOPPED"]
  /\ GoesBroadcast(ActorOwner, <<>>)
  /\ UNCHANGED <<gate, instance, stream, client>>

----------------------------------------------------------------------------
(* Waiters and producers.                                                  *)

WaitActor(w) ==
  /\ actor.live /\ ~actor.stale /\ client.waited[w] = "NONE"
  /\ Begins(w, <<"check">>)
  /\ UNCHANGED <<actor, gate, instance, stream, client>>

CheckState(w) ==
  /\ Doing(w, "check") /\ Open
  /\ IF actor.state = "STOPPED" \/ (actor.state = "FAILED" /\ actor.settled)
       THEN client' = [client EXCEPT !.waited[w] = actor.state] /\ Goes(w, <<>>)
       ELSE client' = client /\ Goes(w, <<"sleeping", "check">>)
  /\ UNCHANGED <<actor, gate, instance, stream>>

(* An event of a running actor reaches the mailbox under the gate.  If the *)
(* executor refuses the instance's task, the sender reports that failure.  *)
Send(p) ==
  /\ Open /\ ~actor.stale /\ actor.state = "RUNNING"
  /\ ~Ended /\ instance.halting = "NO" /\ client.sends < MaxSends
  /\ \/ /\ instance' = [instance EXCEPT !.queue = @ + 1]
        /\ client' = [client EXCEPT !.sends = @ + 1]
        /\ Resting(p)
        /\ UNCHANGED <<gate, steps>>
     \/ /\ ~instance.busy /\ ~instance.value /\ client.rejections < MaxRejections
        /\ instance' = [instance EXCEPT !.end = "ERROR", !.queue = 0]
        /\ client' = [client EXCEPT !.sends = @ + 1, !.rejections = @ + 1]
        /\ gate' = p
        /\ Begins(p, <<"wake", "sent">>)
  /\ UNCHANGED <<actor, stream>>

Sent(p) ==
  /\ Doing(p, "sent")
  /\ gate' = Free
  /\ Goes(p, <<>>)
  /\ UNCHANGED <<actor, instance, stream, client>>

----------------------------------------------------------------------------
NewInstance(kind) ==
  [kind |-> kind, end |-> "NONE", busy |-> FALSE, halting |-> "NO", queue |-> 0, value |-> FALSE]

NewRun ==
  [open |-> FALSE, demand |-> FALSE, source_done |-> FALSE, waiting |-> FALSE,
   terminated |-> FALSE, cancel_requested |-> FALSE, scheduled |-> FALSE,
   must_fail |-> FALSE, queued |-> FALSE, pumping |-> FALSE]

NewClient ==
  [told |-> <<>>, sends |-> 0, rejections |-> 0, waited |-> [w \in Waiters |-> "NONE"]]

ActorInit ==
  /\ actor = [state |-> "START", settled |-> FALSE, stale |-> FALSE, live |-> TRUE]
  /\ gate = Free
  /\ \E kind \in {"MACHINE", "STATECHART"} : instance = NewInstance(kind)
  /\ stream = NewRun
  /\ client = NewClient
  /\ steps = [p \in Actors |-> <<>>]

RunSteps(p) == WakeRun(p) \/ PostPump(p) \/ PostRefused(p) \/ Posted(p)

Steps(p) ==
  \/ RunSteps(p) \/ CloseInstance(p) \/ CancelInstance(p)
  \/ MarkFailed(p) \/ SettleFailure(p) \/ Tell(p)

OwnerStep ==
  \/ Steps(ActorOwner) \/ CloseRun \/ CancelPump \/ DestroyRun \/ OpenRun \/ RequestDemand
  \/ Requested \/ DestroyInstance \/ FinishDestroy

PumpStep ==
  \/ Steps(Pump) \/ BeginPump \/ PumpUnit \/ ArmWait \/ OnValue \/ EndPump \/ Reschedule
  \/ SinkDone

(* A producer has the gate as long as it reports a failure: it never gets  *)
(* as far as MarkFailed, which waits for the gate.                         *)
ActorNext ==
  \/ StartActor \/ DestroyActor \/ OwnerStep \/ PumpStep
  \/ RunTransition \/ FinishTransition \/ Steps(Engine)
  \/ \E p \in {ActorOwner, Pump, Engine} : RequestStop(p)
  \/ \E w \in Waiters : WaitActor(w) \/ CheckState(w)
  \/ \E p \in Producers : Send(p) \/ Sent(p) \/ RunSteps(p)

(* A thread inside a call runs on, transitions end, and an event that was  *)
(* accepted is executed.                                                   *)
ActorFairness ==
  /\ WF_actor_vars(OwnerStep) /\ WF_actor_vars(PumpStep)
  /\ WF_actor_vars(FinishTransition \/ Steps(Engine))
  /\ \A w \in Waiters : WF_actor_vars(CheckState(w))
  /\ \A p \in Producers : WF_actor_vars(Sent(p) \/ RunSteps(p))

ActorSpec == ActorInit /\ [][ActorNext]_actor_vars /\ ActorFairness

----------------------------------------------------------------------------
(* The owner and the application hear the same, once: at most one of       *)
(* on_done and on_error is called, on_done for an actor that is STOPPED    *)
(* and on_error for one that FAILED, and neither after destroy returned,   *)
(* when every thread has left the actor.  "FAILED stays externally visible *)
(* while waiters remain behind settlement" (actor.c): when wait returns    *)
(* FAILED, the instance has ended or been told to.                         *)
EndAgreed ==
  /\ client.told \in {<<>>, <<"on_done">>, <<"on_error">>}
  /\ client.told = <<"on_done">> => actor.state = "STOPPED"
  /\ client.told = <<"on_error">> => actor.state = "FAILED"
  /\ ~actor.live => \A p \in Actors : Resting(p)
  /\ (\E w \in Waiters : client.waited[w] = "FAILED") => Ended \/ instance.halting # "NO"

(* A thread that waits for the gate it holds.                              *)
GateLost == ~Open /\ Doing(gate, "sink_error")

Waits(w) == Doing(w, "check") \/ Doing(w, "sleeping")

=============================================================================
