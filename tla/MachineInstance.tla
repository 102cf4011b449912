-------------------------- MODULE MachineInstance --------------------------
(***************************************************************************)
(* cflow/src/machine_instance.c with its mailbox (event.c): events are     *)
(* sent by any thread, executed one at a time by a task on a serial        *)
(* executor, and their values taken by one subscriber, while other threads *)
(* close or cancel the instance.                                           *)
(*                                                                         *)
(* Events are alike, so the mailbox is its count.  One step per section    *)
(* under the instance's or the mailbox's mutex.  todo[t] lists the steps   *)
(* thread t has still to make before its call returns: a call made inside  *)
(* another puts its steps in front.                                        *)
(***************************************************************************)
EXTENDS Integers, Sequences

CONSTANTS
  Senders,     \* threads that call try_send
  Closers,     \* threads that call close
  Cancellers,  \* threads that call cancel
  Capacity,    \* mailbox_capacity
  Quantum,     \* CFLOW_MACHINE_INSTANCE_QUANTUM
  MaxEvents    \* bound on accepted events

ASSUME MachineAssumption ==
  Capacity \in Nat \ {0} /\ Quantum \in Nat \ {0} /\ MaxEvents \in Nat

VARIABLES
  inst,        \* cflow_machine_instance_impl
  mailbox,     \* cflow_mailbox_impl
  sub,         \* the subscriber: waiting, values taken, how the stream ended
  plan,        \* what the transition being executed will do
  posted,      \* tasks of the instance in the serial executor
  todo

machine_vars == <<inst, mailbox, sub, plan, posted, todo>>

Threads == {"executor", "subscriber"} \cup Senders \cup Closers \cup Cancellers

Kinds == {"ACTIVE", "DONE", "ERROR"}
Observations == {"NONE", "VALUE", "EVENT"}

At(t, label) == todo[t] # <<>> /\ Head(todo[t]) = label
Then(t, steps) == todo' = [todo EXCEPT ![t] = steps \o Tail(@)]
Call(t, steps) == todo[t] = <<>> /\ todo' = [todo EXCEPT ![t] = steps]

----------------------------------------------------------------------------
(* Pieces shared by the calls.                                             *)

(* The wakers taken under the mutex, invoked after it.                     *)
Wakers == IF inst.downstream_waiter \/ inst.terminal_waiter THEN <<"wake">> ELSE <<>>

Taken(i) == [i EXCEPT !.downstream_waiter = FALSE, !.terminal_waiter = FALSE]

Executing == inst.worker_phase = "EXECUTING"

(* Mutant: a value prepared for the subscriber is overwritten.             *)
publish_control_terminal_Overwrites(i) ==
  [i EXCEPT !.lifecycle = "TERMINAL", !.done = TRUE, !.ready = "DONE"]

publish_control_terminal(i) ==
  [i EXCEPT !.lifecycle = "TERMINAL", !.done = TRUE,
            !.ready = CASE @ = "VALUE" -> "VALUE_AND_DONE"
                        [] @ = "NONE" -> "DONE"
                        [] OTHER -> @]

(* An event discarded because cancellation came before its commit.         *)
discard(i) ==
  Taken([i EXCEPT !.in_flight = @ - 1, !.cancelled_in_flight = @ + 1,
                  !.worker_phase = "IDLE", !.lifecycle = "TERMINAL",
                  !.done = TRUE, !.ready = "DONE"])

Halted == inst.done \/ inst.error \/ inst.ready # "NONE"

(* The mailbox takes an event, and whoever armed it is called.             *)
Admits == ~mailbox.cancelled /\ mailbox.count < Capacity
Put == mailbox' = [mailbox EXCEPT !.count = @ + 1, !.accepted = @ + 1, !.waiter = FALSE]
BoxWaker == IF mailbox.waiter THEN <<"mailbox_wake">> ELSE <<>>

----------------------------------------------------------------------------
(* Calls of other threads.                                                 *)

TrySend(t) ==
  /\ Admits /\ mailbox.accepted < MaxEvents
  /\ Put
  /\ Call(t, BoxWaker)
  /\ UNCHANGED <<inst, sub, plan, posted>>

Disarm == IF inst.mailbox_armed THEN <<"disarm">> ELSE <<>>

InstanceClose(t) ==
  LET closing == [inst EXCEPT !.closed = TRUE, !.mailbox_armed = FALSE,
                    !.lifecycle = IF @ = "OPEN" THEN "CLOSE_REQUESTED" ELSE @]
      terminal == inst.done \/ inst.error \/ ~Executing
  IN /\ inst' = IF ~terminal THEN closing
                ELSE Taken(IF inst.error THEN closing
                                         ELSE publish_control_terminal(closing))
     /\ Call(t, Disarm \o <<"cancel_mailbox">> \o IF terminal THEN Wakers ELSE <<>>)
     /\ UNCHANGED <<mailbox, sub, plan, posted>>

InstanceCancel(t) ==
  LET cancelling == [inst EXCEPT !.mailbox_armed = FALSE, !.closed = TRUE,
                       !.cancelled = TRUE, !.lifecycle = "CANCEL_REQUESTED"]
  IN /\ ~inst.done /\ inst.lifecycle # "TERMINAL"
     /\ inst' = IF Executing THEN cancelling
                ELSE Taken(publish_control_terminal(cancelling))
     /\ Call(t, Disarm \o <<"cancel_mailbox">> \o IF Executing THEN <<>> ELSE Wakers)
     /\ UNCHANGED <<mailbox, sub, plan, posted>>

----------------------------------------------------------------------------
(* Steps of calls.                                                         *)

DisarmMailbox(t) ==
  /\ At(t, "disarm")
  /\ mailbox' = [mailbox EXCEPT !.waiter = FALSE]
  /\ Then(t, <<>>)
  /\ UNCHANGED <<inst, sub, plan, posted>>

(* Mutant: the events thrown away are not counted.                         *)
CancelMailbox_Uncounted(t) ==
  /\ At(t, "cancel_mailbox")
  /\ mailbox' = [mailbox EXCEPT !.cancelled = TRUE, !.count = 0, !.waiter = FALSE]
  /\ Then(t, BoxWaker)
  /\ UNCHANGED <<inst, sub, plan, posted>>

CancelMailbox(t) ==
  /\ At(t, "cancel_mailbox")
  /\ mailbox' = IF mailbox.cancelled THEN mailbox
                ELSE [mailbox EXCEPT !.cancelled = TRUE, !.count = 0, !.waiter = FALSE,
                                     !.dropped = @ + mailbox.count]
  /\ Then(t, BoxWaker)
  /\ UNCHANGED <<inst, sub, plan, posted>>

(* wake_cb of the subscription.                                            *)
Wake(t) ==
  /\ At(t, "wake")
  /\ sub' = [sub EXCEPT !.waiting = FALSE]
  /\ Then(t, <<>>)
  /\ UNCHANGED <<inst, mailbox, plan, posted>>

MailboxWake(t) ==
  /\ At(t, "mailbox_wake")
  /\ inst' = [inst EXCEPT !.mailbox_armed = FALSE]
  /\ Then(t, <<"schedule">>)
  /\ UNCHANGED <<mailbox, sub, plan, posted>>

Schedule(t) ==
  /\ At(t, "schedule")
  /\ IF Halted THEN inst' = inst /\ Then(t, <<>>)
     ELSE IF inst.worker_phase # "IDLE"
       THEN inst' = [inst EXCEPT !.rerun = TRUE] /\ Then(t, <<>>)
       ELSE inst' = [inst EXCEPT !.worker_phase = "SCHEDULED"] /\ Then(t, <<"post">>)
  /\ UNCHANGED <<mailbox, sub, plan, posted>>

PostAccepted(t) ==
  /\ At(t, "post")
  /\ posted' = posted + 1
  /\ Then(t, <<>>)
  /\ UNCHANGED <<inst, mailbox, sub, plan>>

(* The executor is full or closed.  resume reports the failure at once.    *)
PostRejected(t) ==
  /\ At(t, "post")
  /\ inst' = [inst EXCEPT !.worker_phase = "IDLE"]
  /\ todo' = [todo EXCEPT ![t] =
       <<"fail">> \o IF t = "subscriber" /\ @[2] = "set_waiting" THEN <<"errored">>
                                                                   ELSE Tail(@)]
  /\ UNCHANGED <<mailbox, sub, plan, posted>>

(* fail_runtime; with an event in flight it settles that event too.        *)
Fail(t) ==
  LET cancel_won == inst.lifecycle = "CANCEL_REQUESTED"
      settled == IF At(t, "fail") THEN inst
                 ELSE IF cancel_won
                   THEN [inst EXCEPT !.in_flight = @ - 1, !.cancelled_in_flight = @ + 1]
                   ELSE [inst EXCEPT !.in_flight = @ - 1, !.failed = @ + 1]
  IN /\ At(t, "fail") \/ At(t, "fail_event")
     /\ inst' = Taken([settled EXCEPT
                  !.error = @ \/ ~cancel_won, !.worker_phase = "IDLE",
                  !.lifecycle = "TERMINAL", !.done = TRUE,
                  !.ready = IF cancel_won THEN "DONE" ELSE "ERROR"])
     /\ Then(t, <<"cancel_mailbox">> \o Wakers)
     /\ UNCHANGED <<mailbox, sub, plan, posted>>

----------------------------------------------------------------------------
(* The serial executor runs machine_executor_task.                         *)

X == "executor"

BeginTask ==
  /\ posted > 0
  /\ posted' = posted - 1
  /\ inst' = [inst EXCEPT !.rerun = FALSE]
  /\ plan' = [plan EXCEPT !.iteration = 0]
  /\ Call(X, <<"loop", "end">>)
  /\ UNCHANGED <<mailbox, sub>>

Loop ==
  /\ At(X, "loop")
  /\ IF plan.iteration = Quantum \/ Halted
       THEN inst' = inst /\ Then(X, <<>>)
       ELSE inst' = [inst EXCEPT !.worker_phase = "EXECUTING"] /\ Then(X, <<"receive">>)
  /\ UNCHANGED <<mailbox, sub, plan, posted>>

Receive ==
  /\ At(X, "receive")
  /\ IF mailbox.count > 0
       THEN mailbox' = [mailbox EXCEPT !.count = @ - 1] /\ Then(X, <<"claim">>)
       ELSE /\ mailbox' = mailbox
            /\ Then(X, IF mailbox.cancelled THEN <<"publish_done">> ELSE <<"empty">>)
  /\ UNCHANGED <<inst, sub, plan, posted>>

Claim ==
  /\ At(X, "claim")
  /\ inst' = [inst EXCEPT !.in_flight = @ + 1]
  /\ Then(X, <<"enter">>)
  /\ UNCHANGED <<mailbox, sub, plan, posted>>

(* settle_cancelled_in_flight, asked before a transition is selected,      *)
(* after that, and after its action has run; next is what the guards and   *)
(* the action decide in between.                                           *)
SettleOr(label, next) ==
  /\ At(X, label)
  /\ IF inst.lifecycle = "CANCEL_REQUESTED"
       THEN inst' = discard(inst) /\ plan' = plan /\ Then(X, Wakers)
       ELSE inst' = inst /\ next
  /\ UNCHANGED <<mailbox, sub, posted>>

Select ==
  SettleOr("enter", plan' = plan /\ (Then(X, <<"selected">>) \/ Then(X, <<"unmatched">>)))

RunAction ==
  SettleOr("selected",
    \/ Then(X, <<"unmatched">>) /\ plan' = plan
    \/ /\ Then(X, <<"acted">>)
       /\ \E k \in Kinds, o \in Observations :
            /\ o = "EVENT" => mailbox.accepted < MaxEvents
            /\ plan' = [plan EXCEPT !.target = k, !.observation = o])

Unmatched == SettleOr("unmatched", plan' = plan /\ Then(X, <<"fail_event">>))

Acted == SettleOr("acted", plan' = plan /\ Then(X, <<"emit">>))

(* An action's event goes to the instance's own mailbox, before the commit.*)
CheckEmit ==
  /\ At(X, "emit")
  /\ Then(X, IF plan.observation = "EVENT" /\ ~inst.closed THEN <<"send">> ELSE <<"commit">>)
  /\ UNCHANGED <<inst, mailbox, sub, plan, posted>>

EmitEvent ==
  /\ At(X, "send")
  /\ IF Admits THEN Put /\ Then(X, BoxWaker \o <<"commit">>)
               ELSE mailbox' = mailbox /\ Then(X, <<"fail_event">>)
  /\ UNCHANGED <<inst, sub, plan, posted>>

(* Mutant: the commit does not look for a cancel.                          *)
begin_commit_Blind ==
  IF inst.worker_phase # "EXECUTING" \/ inst.lifecycle = "TERMINAL" THEN "INVALID" ELSE "ALLOWED"

(* The transition takes effect unless cancellation came first; a failure   *)
(* to schedule on another thread makes the commit invalid.                 *)
begin_commit ==
  CASE inst.lifecycle = "CANCEL_REQUESTED" -> "CANCELLED"
    [] inst.worker_phase # "EXECUTING" \/ inst.lifecycle = "TERMINAL" -> "INVALID"
    [] OTHER -> "ALLOWED"

(* The outcome k of the transition and what it shows, o.  A transition     *)
(* that emits an event and enters a DONE state does not end the stream     *)
(* itself: whoever next finds the mailbox cancelled does.                  *)
Stops(k) == k = "DONE" \/ inst.lifecycle = "CLOSE_REQUESTED"

Ends(k, o) == Stops(k) /\ k # "ERROR" /\ (k = "DONE" /\ o = "EVENT" => inst.closed)

ReadyAfter(k, o) ==
  CASE o = "VALUE" /\ k = "ERROR" -> "ERROR"
    [] o = "VALUE" /\ Ends(k, o) -> "VALUE_AND_DONE"
    [] o = "VALUE" -> "VALUE"
    [] Ends(k, o) -> "DONE"
    [] OTHER -> inst.ready

Commit ==
  LET k == plan.target
      o == plan.observation
      done == inst.done \/ Ends(k, o) \/ (o = "VALUE" /\ k = "ERROR")
      downstream == o = "VALUE" \/ Ends(k, o)
      terminal == done /\ k # "ERROR"
      wakers == IF (downstream /\ inst.downstream_waiter) \/ (terminal /\ inst.terminal_waiter)
                  THEN <<"wake">> ELSE <<>>
      goes_on == ~Stops(k) /\ k = "ACTIVE" /\ o # "VALUE"
  IN /\ At(X, "commit") /\ begin_commit = "ALLOWED"
     /\ inst' = [inst EXCEPT
          !.kind = k, !.in_flight = @ - 1, !.ready = ReadyAfter(k, o), !.done = done,
          !.completed = IF k = "ERROR" THEN @ ELSE @ + 1,
          !.failed = IF k = "ERROR" THEN @ + 1 ELSE @,
          !.emitted = IF o = "VALUE" THEN @ + 1 ELSE @,
          !.worker_phase = "SCHEDULED",
          !.lifecycle = IF done \/ k = "ERROR" THEN "TERMINAL" ELSE @,
          !.downstream_waiter = @ /\ ~downstream,
          !.terminal_waiter = @ /\ ~terminal]
     /\ Then(X, CASE k = "ERROR" -> <<"fail">>
                  [] Stops(k) -> <<"cancel_mailbox">> \o wakers
                  [] OTHER -> wakers \o IF goes_on THEN <<"loop">> ELSE <<>>)
     /\ plan' = [plan EXCEPT !.iteration = IF goes_on THEN @ + 1 ELSE @]
     /\ UNCHANGED <<mailbox, sub, posted>>

CommitRefused ==
  /\ At(X, "commit")
  /\ \/ /\ begin_commit = "CANCELLED"
        /\ inst' = discard(inst)
        /\ Then(X, <<"cancel_mailbox">> \o Wakers)
     \/ begin_commit = "INVALID" /\ inst' = inst /\ Then(X, <<"fail_event">>)
  /\ UNCHANGED <<mailbox, sub, plan, posted>>

Empty ==
  /\ At(X, "empty")
  /\ inst' = [inst EXCEPT !.worker_phase = "SCHEDULED"]
  /\ Then(X, IF inst.lifecycle # "OPEN" THEN <<"publish_done">> ELSE <<"arm">>)
  /\ UNCHANGED <<mailbox, sub, plan, posted>>

PublishDone ==
  /\ At(X, "publish_done")
  /\ inst' = Taken([inst EXCEPT !.worker_phase = "IDLE", !.lifecycle = "TERMINAL",
                                !.done = TRUE, !.ready = "DONE"])
  /\ Then(X, <<"cancel_mailbox">> \o Wakers)
  /\ UNCHANGED <<mailbox, sub, plan, posted>>

ArmMailbox ==
  /\ At(X, "arm")
  /\ IF inst.done \/ inst.error
       THEN inst' = inst /\ Then(X, <<>>)
       ELSE inst' = [inst EXCEPT !.mailbox_armed = TRUE] /\ Then(X, <<"wait_mailbox">>)
  /\ UNCHANGED <<mailbox, sub, plan, posted>>

(* Mutant: an event that came since receive is not looked for.             *)
WaitMailbox_Blind ==
  /\ At(X, "wait_mailbox")
  /\ mailbox' = [mailbox EXCEPT !.waiter = TRUE]
  /\ Then(X, <<>>)
  /\ UNCHANGED <<inst, sub, plan, posted>>

WaitMailbox ==
  /\ At(X, "wait_mailbox")
  /\ IF mailbox.count > 0 \/ mailbox.cancelled
       THEN mailbox' = mailbox /\ Then(X, <<"mailbox_wake">>)
       ELSE mailbox' = [mailbox EXCEPT !.waiter = TRUE] /\ Then(X, <<>>)
  /\ UNCHANGED <<inst, sub, plan, posted>>

EndTask ==
  /\ At(X, "end")
  /\ inst' = [inst EXCEPT !.worker_phase = IF @ = "SCHEDULED" THEN "IDLE" ELSE @]
  /\ Then(X, IF (inst.rerun \/ plan.iteration = Quantum) /\ ~Halted
               THEN <<"schedule">> ELSE <<>>)
  /\ UNCHANGED <<mailbox, sub, plan, posted>>

----------------------------------------------------------------------------
(* The subscriber resumes until the stream ends.                           *)

S == "subscriber"

Resume ==
  /\ At(S, "resume")
  /\ \/ /\ inst.ready = "VALUE"
        /\ inst' = [inst EXCEPT !.ready = "NONE"]
        /\ sub' = [sub EXCEPT !.taken = @ + 1]
        /\ Then(S, <<"resume">>)
     \/ /\ inst.ready = "VALUE_AND_DONE"
        /\ sub' = [sub EXCEPT !.taken = @ + 1, !.end = "DONE"]
        /\ Then(S, <<>>) /\ inst' = inst
     \/ /\ inst.ready = "ERROR" \/ (inst.error /\ inst.ready \in {"NONE", "DONE"})
        /\ sub' = [sub EXCEPT !.end = "ERROR"]
        /\ Then(S, <<>>) /\ inst' = inst
     \/ /\ ~inst.error /\ (inst.ready = "DONE" \/ (inst.done /\ inst.ready = "NONE"))
        /\ sub' = [sub EXCEPT !.end = "DONE"]
        /\ Then(S, <<>>) /\ inst' = inst
     \/ /\ ~Halted
        /\ sub' = sub /\ inst' = inst
        /\ Then(S, <<"schedule", "set_waiting", "wait_arm", "asleep">>)
  /\ UNCHANGED <<mailbox, plan, posted>>

Errored ==
  /\ At(S, "errored")
  /\ sub' = [sub EXCEPT !.end = "ERROR"]
  /\ Then(S, <<>>)
  /\ UNCHANGED <<inst, mailbox, plan, posted>>

SetWaiting ==
  /\ At(S, "set_waiting")
  /\ sub' = [sub EXCEPT !.waiting = TRUE]
  /\ Then(S, <<>>)
  /\ UNCHANGED <<inst, mailbox, plan, posted>>

(* Mutant: a value or an end that came since resume is not looked for.     *)
WaitArm_Blind ==
  /\ At(S, "wait_arm")
  /\ inst' = [inst EXCEPT !.downstream_waiter = TRUE]
  /\ Then(S, <<>>)
  /\ UNCHANGED <<mailbox, sub, plan, posted>>

WaitArm ==
  /\ At(S, "wait_arm")
  /\ inst' = [inst EXCEPT !.downstream_waiter = ~Halted]
  /\ sub' = [sub EXCEPT !.waiting = @ /\ ~Halted]
  /\ Then(S, <<>>)
  /\ UNCHANGED <<mailbox, plan, posted>>

Woken ==
  /\ At(S, "asleep") /\ ~sub.waiting
  /\ Then(S, <<"resume">>)
  /\ UNCHANGED <<inst, mailbox, sub, plan, posted>>

----------------------------------------------------------------------------
OpenInstance ==
  [ready |-> "NONE", error |-> FALSE, done |-> FALSE, closed |-> FALSE,
   cancelled |-> FALSE, lifecycle |-> "OPEN", worker_phase |-> "IDLE",
   rerun |-> FALSE, mailbox_armed |-> FALSE, kind |-> "ACTIVE",
   downstream_waiter |-> FALSE, terminal_waiter |-> TRUE, in_flight |-> 0,
   completed |-> 0, failed |-> 0, cancelled_in_flight |-> 0, emitted |-> 0]

EmptyMailbox ==
  [count |-> 0, cancelled |-> FALSE, waiter |-> FALSE, accepted |-> 0, dropped |-> 0]

MachineInit ==
  /\ inst = OpenInstance
  /\ mailbox = EmptyMailbox
  /\ sub = [waiting |-> FALSE, taken |-> 0, end |-> "NONE"]
  /\ plan = [iteration |-> 0, target |-> "ACTIVE", observation |-> "NONE"]
  /\ posted = 0
  /\ todo = [t \in Threads |-> IF t = "subscriber" THEN <<"resume">> ELSE <<>>]

Common(t) ==
  \/ DisarmMailbox(t) \/ CancelMailbox(t) \/ Wake(t) \/ MailboxWake(t)
  \/ Schedule(t) \/ PostAccepted(t) \/ PostRejected(t) \/ Fail(t)

ExecutorStep ==
  \/ BeginTask \/ Loop \/ Receive \/ Claim \/ Select \/ RunAction \/ Unmatched \/ Acted
  \/ CheckEmit \/ EmitEvent \/ Commit \/ CommitRefused \/ Empty \/ PublishDone
  \/ ArmMailbox \/ WaitMailbox \/ EndTask

SubscriberStep == Resume \/ Errored \/ SetWaiting \/ WaitArm \/ Woken

MachineNext ==
  \/ \E t \in Senders : TrySend(t)
  \/ \E t \in Closers : InstanceClose(t)
  \/ \E t \in Cancellers : InstanceCancel(t)
  \/ \E t \in Threads : Common(t)
  \/ ExecutorStep
  \/ SubscriberStep

(* Every thread inside a call or a task runs on.                           *)
MachineFairness ==
  /\ \A t \in Threads \ {X, S} : WF_machine_vars(Common(t))
  /\ WF_machine_vars(Common(X) \/ ExecutorStep)
  /\ WF_machine_vars(Common(S) \/ SubscriberStep)

MachineSpec == MachineInit /\ [][MachineNext]_machine_vars /\ MachineFairness

----------------------------------------------------------------------------
(* No event is lost or counted twice, through close, cancel, failures and  *)
(* posts that are refused: one that the mailbox accepted is in it, was     *)
(* dropped by its cancellation, is being executed, or has been completed,  *)
(* failed or cancelled, and at most one is executed at a time.  Nor is a   *)
(* value: the subscriber takes each once, in spite of a close or a cancel  *)
(* that meets one already prepared: a commit "remains observable exactly   *)
(* once, including a prepared VALUE" (machine_instance.h).  An ERROR       *)
(* state's value is not shown.                                             *)
EventsAccounted ==
  /\ inst.ready \in {"NONE", "VALUE", "VALUE_AND_DONE", "DONE", "ERROR"}
  /\ inst.in_flight \in 0..1 /\ posted \in 0..1
  /\ mailbox.count \in 0..Capacity
  /\ mailbox.accepted = mailbox.count + mailbox.dropped + inst.in_flight
       + inst.completed + inst.failed + inst.cancelled_in_flight
       + IF At(X, "claim") THEN 1 ELSE 0
  /\ inst.kind # "ERROR" =>
       inst.emitted = sub.taken +
         IF inst.ready \in {"VALUE", "VALUE_AND_DONE"} /\ sub.end = "NONE" THEN 1 ELSE 0

(* Commit is the point that decides between a transition and cancel: after *)
(* a cancel or the end nothing takes effect, and without a cancel no event *)
(* is counted as cancelled.                                                *)
CommitsLinearized ==
  [][/\ inst.done \/ inst.cancelled =>
          inst'.completed = inst.completed /\ inst'.kind = inst.kind
     /\ inst'.cancelled_in_flight # inst.cancelled_in_flight => inst.cancelled]_machine_vars

EventsGone == mailbox.count = 0 /\ inst.in_flight = 0 /\ ~At(X, "claim")

(* No wakeup is lost between an empty mailbox and its waiter, a task about *)
(* to end and a new event, or a value and a subscriber about to sleep:     *)
(* accepted events are executed or dropped while the subscriber takes the  *)
(* values, and the subscriber of an instance that is closed or has ended   *)
(* hears of the end.                                                       *)
MachineProgresses ==
  /\ []<>EventsGone
  /\ inst.closed \/ inst.done ~> sub.end # "NONE"
=============================================================================
