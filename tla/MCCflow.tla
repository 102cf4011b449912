------------------------------ MODULE MCCflow -------------------------------
(***************************************************************************)
(* An instance of the worker scheduler and of the machine instance, for    *)
(* TLC.  A behaviour is one of one of them, chosen at the start; the other *)
(* has been shut down, so that nothing of it is left to do.                *)
(***************************************************************************)
EXTENDS WorkerScheduler, MachineInstance

VARIABLE component

SchedulerGone ==
  /\ now = MaxTime /\ stopping = TRUE /\ timers = << >> /\ dispatching = 0
  /\ accepted = 0 /\ settled_before_executor = 0
  /\ tpc = "exited" /\ hand = Nobody /\ alarm = Never
  /\ accepting = FALSE /\ ready = << >> /\ running = {} /\ submitted = 0 /\ completed = 0 /\ exited = TRUE
  /\ cancelling = {} /\ callbacks = [t \in Tasks |-> << >>]
  /\ wpc = "idle" /\ asked = 0 /\ loaded = 0
  /\ spc = "gone" /\ taken = Nobody

MachineClosed ==
  /\ inst = [OpenInstance EXCEPT !.ready = "DONE", !.done = TRUE, !.closed = TRUE,
               !.lifecycle = "TERMINAL", !.terminal_waiter = FALSE]
  /\ mailbox = [EmptyMailbox EXCEPT !.cancelled = TRUE]
  /\ sub = [waiting |-> FALSE, taken |-> 0, end |-> "DONE"]
  /\ plan = [iteration |-> 0, target |-> "ACTIVE", observation |-> "NONE"]
  /\ posted = 0
  /\ todo = [t \in Threads |-> <<>>]

CflowInit ==
  \/ component = "scheduler" /\ Init /\ MachineClosed
  \/ component = "machine" /\ SchedulerGone /\ MachineInit

CflowNext ==
  /\ UNCHANGED component
  /\ \/ component = "scheduler" /\ Next /\ UNCHANGED machine_vars
     \/ component = "machine" /\ MachineNext /\ UNCHANGED vars

CflowSpec ==
  /\ CflowInit /\ [][CflowNext]_<<component, vars, machine_vars>>
  /\ Fairness /\ MachineFairness
=============================================================================
