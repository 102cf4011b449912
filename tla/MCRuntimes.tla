----------------------------- MODULE MCRuntimes -----------------------------
(***************************************************************************)
(* An instance of the coroutine executor and of the actor, for TLC.  A     *)
(* behaviour is one of one of them, chosen at the start; the other has     *)
(* been destroyed, so that nothing of it is left to do.                    *)
(***************************************************************************)
EXTENDS CoroExecutor, Actor

VARIABLE component

ExecutorDestroyed ==
  /\ accepting = FALSE /\ shutdown = TRUE
  /\ submitted = 0 /\ completed = 0 /\ cancelled = 0
  /\ reported = Cardinality(Shards) /\ failed = FALSE
  /\ lock = [s \in Shards |-> None]
  /\ queue = [s \in Shards |-> << >>] /\ wakes = [s \in Shards |-> << >>]
  /\ slots = [s \in Shards |-> [i \in Slots |-> FreeSlot(0)]]
  /\ free_slots = [s \in Shards |-> [i \in Slots |-> i]]
  /\ free_frames = [s \in Shards |-> [c \in Slots |-> c]]
  /\ job = [s \in Shards |-> [c \in Slots |-> 0]]
  /\ waiting_for_io = [s \in Shards |-> {}] /\ ready = [s \in Shards |-> << >>]
  /\ wpc = [s \in Shards |-> "exited"] /\ progressed = [s \in Shards |-> FALSE]
  /\ batch = [s \in Shards |-> 0] /\ cur = [s \in Shards |-> 0]
  /\ awaiting = [s \in Shards |-> [c \in Slots |-> None]]
  /\ state = [t \in Tasks |-> "none"] /\ ops = [t \in Tasks |-> MaxOps]
  /\ spc = [u \in Submitters |-> "idle"] /\ target = [u \in Submitters |-> None]
  /\ stop = [x \in Stoppers |-> IF x = Owner THEN Last + 1 ELSE 0]
  /\ owner = "gone"
  /\ qpc = "returned" /\ loaded = 0

ActorDestroyed ==
  /\ actor = [state |-> "STOPPED", settled |-> FALSE, stale |-> TRUE, live |-> FALSE]
  /\ gate = Free
  /\ instance = [NewInstance("MACHINE") EXCEPT !.end = "DONE"]
  /\ stream = NewRun /\ client = NewClient
  /\ steps = [p \in Actors |-> <<>>]

RuntimesInit ==
  \/ component = "executor" /\ Init /\ ActorDestroyed
  \/ component = "actor" /\ ExecutorDestroyed /\ ActorInit

RuntimesNext ==
  /\ UNCHANGED component
  /\ \/ component = "executor" /\ Next /\ UNCHANGED actor_vars
     \/ component = "actor" /\ ActorNext /\ UNCHANGED vars

RuntimesSpec ==
  /\ RuntimesInit /\ [][RuntimesNext]_<<component, vars, actor_vars>>
  /\ Fairness /\ ActorFairness
=============================================================================
