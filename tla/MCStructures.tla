---------------------------- MODULE MCStructures ----------------------------
(***************************************************************************)
(* An instance of the components that stand on their own, for TLC: the     *)
(* deadline queue, the consumers' topology, the byte ring and the run of a *)
(* subscription.  A behaviour is one of one of them, chosen at the start.  *)
(***************************************************************************)
EXTENDS DeadlineQueue, DisruptorTopology, SpscRing, Subscription

VARIABLE structure

Init ==
  /\ structure \in {"queue", "topology", "ring", "run"}
  /\ QueueInit /\ TopologyInit /\ RingInit /\ RunInit

Next ==
  /\ UNCHANGED structure
  /\ \/ /\ structure = "queue" /\ QueueNext
        /\ UNCHANGED <<topology_vars, ring_vars, run_vars>>
     \/ /\ structure = "topology" /\ TopologyNext
        /\ UNCHANGED <<queue_vars, ring_vars, run_vars>>
     \/ /\ structure = "ring" /\ RingNext
        /\ UNCHANGED <<queue_vars, topology_vars, run_vars>>
     \/ /\ structure = "run" /\ RunNext
        /\ UNCHANGED <<queue_vars, topology_vars, ring_vars>>

Spec == Init /\ [][Next]_<<structure, queue_vars, topology_vars, ring_vars, run_vars>>

(* The slots are alike: Register hands out the lowest free one, but since  *)
(* Register and Unregister change nothing else, registering the lower ones *)
(* too and unregistering them again gives any free slot.  So TLC need see  *)
(* only one order in which the slots become stages.                        *)
StagesInTurn == \A i \in DOMAIN stages : stages[i] = i - 1

(* Two states of the queue that differ in what the last call returned      *)
(* behave alike; every step is still checked with what it returns.         *)
Fields == <<structure, queue, topology_vars, ring_vars, run_vars>>

(* The deadline queue is a set of timers: take_ready returns the earliest, *)
(* an old id never cancels the timer that reuses its slot, and no id is    *)
(* issued twice even when generations run out.  (The steps of the other    *)
(* structures leave the queue alone, and are not evaluated.)               *)
QueueImplementsTimers == Timers!Init /\ [][structure = "queue" => Timers!Next]_(Timers!vars)
=============================================================================
