----------------------------- MODULE Broadcast -----------------------------
(***************************************************************************)
(* concurrency/src/disruptor.c in broadcast mode: every registered         *)
(* consumer reads every entry, and the slowest of them gates the reuse of  *)
(* entries.                                                                *)
(*                                                                         *)
(* One step per access to shared memory.  Publication is the blocking      *)
(* commit of one entry, whose effect is to advance max_read_cursor in      *)
(* order; how the cursor advances is the subject of module Disruptor.      *)
(* Stores reach memory at once: a delayed consumer cursor only holds       *)
(* publishers back.                                                        *)
(***************************************************************************)
EXTENDS Integers, FiniteSetsExt

CONSTANTS
  Publishers,
  Consumers,     \* threads that run disruptor_consumer_run
  Early,         \* the consumers registered before anything is published
  Upstream,      \* Upstream[c]: the early consumers c depends on
  SlotCount,     \* consumer_capacity
  Capacity,      \* entries of the ring
  MaxSequence    \* bound on the sequence numbers handed out

ASSUME CapacityAssumption == Capacity \in Nat \ {0} /\ SlotCount \in Nat
ASSUME BoundAssumption == MaxSequence \in Nat
ASSUME ConsumersAssumption ==
  /\ Publishers \cap Consumers = {} /\ Early \subseteq Consumers
  /\ Upstream \in [Consumers -> SUBSET Early]
  /\ \A c \in Consumers \ Early : Upstream[c] = {}
  /\ IsFiniteSet(Early) /\ Cardinality(Early) <= SlotCount

Threads == Publishers \cup Consumers
Slots == 0..(SlotCount - 1)

(* DISRUPTOR_VACANT is UINT64_MAX: greater than every sequence number.     *)
Vacant == MaxSequence + Capacity + 1

VARIABLES
  write_cursor, max_read_cursor, slowest_consumer,
  consumer_cursors,
  buffer,        \* buffer[i]: the sequence number whose data entry i holds
  pc,
  waits,         \* waits[t]: the claim is the blocking one
  seq,           \* the sequence number claimed; the end of a consumer's batch
  next,          \* next[c]: next_sequence of consumer_run
  slot,          \* slot[c]: the consumer's slot
  target, scan, reg   \* refresh_slowest_reader's argument, index and minimum

shared == <<write_cursor, max_read_cursor, slowest_consumer, consumer_cursors, buffer>>
vars == <<shared, pc, waits, seq, next, slot, target, scan, reg>>

RingIndex(s) == s % Capacity
(* Mutant: one entry more than the ring has.                               *)
HasCapacity_OffByOne(writer, slowest) == writer - slowest \in 0..(Capacity + 1)

HasCapacity(writer, slowest) == writer - slowest \in 0..Capacity

(* The early consumers own the first slots, in some order.                 *)
Init ==
  /\ write_cursor = 0 /\ max_read_cursor = 0 /\ slowest_consumer = 0
  /\ buffer = [i \in 0..(Capacity - 1) |-> 0]
  /\ slot \in {f \in [Consumers -> Slots] :
                 /\ \A c \in Consumers \ Early : f[c] = 0
                 /\ {f[c] : c \in Early} = 0..(Cardinality(Early) - 1)}
  /\ consumer_cursors = [i \in Slots |-> IF \E c \in Early : slot[c] = i THEN 0 ELSE Vacant]
  /\ pc = [t \in Threads |-> IF t \in Early THEN "wait" ELSE "idle"]
  /\ waits = [t \in Threads |-> FALSE] /\ seq = [t \in Threads |-> 0]
  /\ next = [c \in Consumers |-> IF c \in Early THEN 1 ELSE 0]
  /\ target = [t \in Threads |-> 0] /\ scan = [t \in Threads |-> 0] /\ reg = [t \in Threads |-> 0]

At(t, l) == pc[t] = l
Goto(t, l) == pc' = [pc EXCEPT ![t] = l]

-----------------------------------------------------------------------------
(* refresh_slowest_reader: the minimum of the consumer cursors, slot by    *)
(* slot; with no consumer, the start of the lap of the target.             *)

StartRefresh(t, s) ==
  /\ Goto(t, "scan")
  /\ target' = [target EXCEPT ![t] = s]
  /\ scan' = [scan EXCEPT ![t] = 0]
  /\ reg' = [reg EXCEPT ![t] = Vacant]

(* Mutant: the first slot is skipped.                                      *)
ScanSlot_SkipFirst(t) ==
  /\ At(t, "scan") /\ scan[t] < SlotCount
  /\ scan' = [scan EXCEPT ![t] = @ + 1]
  /\ reg' = [reg EXCEPT ![t] = IF scan[t] = 0 THEN @ ELSE Min({@, consumer_cursors[scan[t]]})]
  /\ UNCHANGED <<shared, pc, waits, seq, next, slot, target>>

ScanSlot(t) ==
  /\ At(t, "scan") /\ scan[t] < SlotCount
  /\ scan' = [scan EXCEPT ![t] = @ + 1]
  /\ reg' = [reg EXCEPT ![t] = Min({@, consumer_cursors[scan[t]]})]
  /\ UNCHANGED <<shared, pc, waits, seq, next, slot, target>>

(* Mutant: the start of the lap whatever the consumers have read.          *)
LoadCached_IgnoreConsumers(t) ==
  /\ At(t, "scan") /\ scan[t] = SlotCount
  /\ LET slowest == target[t] - RingIndex(target[t])
     IN  /\ reg' = [reg EXCEPT ![t] = slowest]
         /\ Goto(t, IF slowest > slowest_consumer THEN "raise" ELSE "refreshed")
  /\ UNCHANGED <<shared, waits, seq, next, slot, target, scan>>

LoadCached(t) ==
  /\ At(t, "scan") /\ scan[t] = SlotCount
  /\ LET slowest == IF reg[t] = Vacant THEN target[t] - RingIndex(target[t]) ELSE reg[t]
     IN  /\ reg' = [reg EXCEPT ![t] = slowest]
         /\ Goto(t, IF slowest > slowest_consumer THEN "raise" ELSE "refreshed")
  /\ UNCHANGED <<shared, waits, seq, next, slot, target, scan>>

RaiseSlowest(t) ==
  /\ At(t, "raise")
  /\ Goto(t, "refreshed")
  /\ slowest_consumer' = reg[t]
  /\ UNCHANGED <<write_cursor, max_read_cursor, consumer_cursors, buffer, waits, seq, next, slot,
                 target, scan, reg>>

Forget(t) ==
  /\ target' = [target EXCEPT ![t] = 0] /\ scan' = [scan EXCEPT ![t] = 0]
  /\ reg' = [reg EXCEPT ![t] = 0]

-----------------------------------------------------------------------------
(* Publishers: the two claims of one entry, the write, the commit.         *)

TryClaim(p) ==
  /\ At(p, "idle") /\ p \in Publishers /\ write_cursor < MaxSequence
  /\ Goto(p, "capacity")
  /\ seq' = [seq EXCEPT ![p] = write_cursor + 1]
  /\ UNCHANGED <<shared, waits, next, slot, target, scan, reg>>

ClaimBlocking(p) ==
  /\ At(p, "idle") /\ p \in Publishers /\ write_cursor < MaxSequence
  /\ Goto(p, "capacity")
  /\ write_cursor' = write_cursor + 1
  /\ seq' = [seq EXCEPT ![p] = write_cursor + 1] /\ waits' = [waits EXCEPT ![p] = TRUE]
  /\ UNCHANGED <<max_read_cursor, slowest_consumer, consumer_cursors, buffer, next, slot, target,
                 scan, reg>>

Granted(p) == IF waits[p] THEN "write" ELSE "cas"

CheckCapacity(p) ==
  /\ At(p, "capacity")
  /\ IF HasCapacity(seq[p], slowest_consumer)
       THEN Goto(p, Granted(p)) /\ UNCHANGED <<target, scan, reg>>
       ELSE StartRefresh(p, seq[p])
  /\ UNCHANGED <<shared, waits, seq, next, slot>>

Refreshed(p) ==
  /\ At(p, "refreshed") /\ p \in Publishers
  /\ Forget(p)
  /\ IF HasCapacity(seq[p], reg[p]) \/ waits[p]
       THEN /\ Goto(p, IF HasCapacity(seq[p], reg[p]) THEN Granted(p) ELSE "capacity")
            /\ UNCHANGED seq
       ELSE Goto(p, "idle") /\ seq' = [seq EXCEPT ![p] = 0]
  /\ UNCHANGED <<shared, waits, next, slot>>

ClaimCas(p) ==
  /\ At(p, "cas")
  /\ IF write_cursor = seq[p] - 1
       THEN Goto(p, "write") /\ write_cursor' = seq[p] /\ UNCHANGED seq
       ELSE Goto(p, "idle") /\ seq' = [seq EXCEPT ![p] = 0] /\ UNCHANGED write_cursor
  /\ UNCHANGED <<max_read_cursor, slowest_consumer, consumer_cursors, buffer, waits, next, slot,
                 target, scan, reg>>

Write(p) ==
  /\ At(p, "write")
  /\ Goto(p, "commit")
  /\ buffer' = [buffer EXCEPT ![RingIndex(seq[p])] = seq[p]]
  /\ UNCHANGED <<write_cursor, max_read_cursor, slowest_consumer, consumer_cursors, waits, seq,
                 next, slot, target, scan, reg>>

Commit(p) ==
  /\ At(p, "commit") /\ max_read_cursor = seq[p] - 1
  /\ Goto(p, "idle")
  /\ max_read_cursor' = seq[p]
  /\ seq' = [seq EXCEPT ![p] = 0] /\ waits' = [waits EXCEPT ![p] = FALSE]
  /\ UNCHANGED <<write_cursor, slowest_consumer, consumer_cursors, buffer, next, slot, target,
                 scan, reg>>

-----------------------------------------------------------------------------
(* Consumers: consumer_run.                                                *)

(* consumer_try_register: slowest_consumer is loaded before each attempt   *)
(* to swap it into a vacant slot.                                          *)
LoadStart(c) ==
  /\ pc[c] \in {"idle", "register"} /\ c \in Consumers
  /\ Goto(c, "register_cas")
  /\ reg' = [reg EXCEPT ![c] = slowest_consumer]
  /\ UNCHANGED <<shared, waits, seq, next, slot, target, scan>>

(* Mutant: the slot is stored to without comparing.                        *)
RegisterCas_NoCompare(c) ==
  /\ At(c, "register_cas")
  /\ Goto(c, "wait")
  /\ reg' = [reg EXCEPT ![c] = 0] /\ scan' = [scan EXCEPT ![c] = 0]
  /\ consumer_cursors' = [consumer_cursors EXCEPT ![scan[c]] = reg[c]]
  /\ slot' = [slot EXCEPT ![c] = scan[c]]
  /\ next' = [next EXCEPT ![c] = reg[c] + 1]
  /\ UNCHANGED <<write_cursor, max_read_cursor, slowest_consumer, buffer, waits, seq, target>>

RegisterCas(c) ==
  /\ At(c, "register_cas")
  /\ reg' = [reg EXCEPT ![c] = 0]
  /\ IF consumer_cursors[scan[c]] = Vacant
       THEN /\ Goto(c, "wait")
            /\ consumer_cursors' = [consumer_cursors EXCEPT ![scan[c]] = reg[c]]
            /\ slot' = [slot EXCEPT ![c] = scan[c]]
            /\ next' = [next EXCEPT ![c] = reg[c] + 1]
            /\ scan' = [scan EXCEPT ![c] = 0]
       ELSE /\ Goto(c, "register")
            /\ scan' = [scan EXCEPT ![c] = (@ + 1) % SlotCount]
            /\ UNCHANGED <<consumer_cursors, slot, next>>
  /\ UNCHANGED <<write_cursor, max_read_cursor, slowest_consumer, buffer, waits, seq, target>>

(* Mutants: the dependencies do not gate; a batch ends before the last     *)
(* visible entry.                                                          *)
Available_Ungated(c) == max_read_cursor
Available_OffByOne(c) ==
  Min({max_read_cursor} \cup {consumer_cursors[slot[d]] : d \in Upstream[c]}) - 1

(* consumer_available_sequence; an unregistered dependency does not gate.  *)
Available(c) ==
  Min({max_read_cursor} \cup {consumer_cursors[slot[d]] : d \in Upstream[c]})

(* The loads are not simultaneous, so a batch may end before what is       *)
(* available when the last of them is made.                                *)
WaitFor(c) ==
  /\ pc[c] \in {"wait", "drain"}
  /\ \E end \in next[c]..Available(c) : seq' = [seq EXCEPT ![c] = end]
  /\ Goto(c, IF At(c, "wait") THEN "process" ELSE "drain_process")
  /\ UNCHANGED <<shared, waits, next, slot, target, scan, reg>>

(* Mutant: the cursor is not stored.                                       *)
ReleaseEntry_NoStore(c) ==
  /\ pc[c] \in {"process", "drain_process"}
  /\ Goto(c, IF At(c, "process") THEN "wait" ELSE "leaving")
  /\ next' = [next EXCEPT ![c] = seq[c] + 1] /\ seq' = [seq EXCEPT ![c] = 0]
  /\ UNCHANGED <<shared, waits, slot, target, scan, reg>>

ReleaseEntry(c) ==
  /\ pc[c] \in {"process", "drain_process"}
  /\ Goto(c, IF At(c, "process") THEN "wait" ELSE "leaving")
  /\ consumer_cursors' = [consumer_cursors EXCEPT ![slot[c]] = seq[c]]
  /\ next' = [next EXCEPT ![c] = seq[c] + 1] /\ seq' = [seq EXCEPT ![c] = 0]
  /\ UNCHANGED <<write_cursor, max_read_cursor, slowest_consumer, buffer, waits, slot, target,
                 scan, reg>>

(* keep_running turns false: one more batch is drained if there is one.    *)
StopRunning(c) ==
  /\ At(c, "wait")
  /\ Goto(c, "drain")
  /\ UNCHANGED <<shared, waits, seq, next, slot, target, scan, reg>>

DrainNothing(c) ==
  /\ At(c, "drain") /\ next[c] > Available(c)
  /\ Goto(c, "leaving")
  /\ UNCHANGED <<shared, waits, seq, next, slot, target, scan, reg>>

(* consumer_unregister: the slot is vacated, the write cursor loaded, the  *)
(* cached minimum refreshed.                                               *)
Unregister(c) ==
  /\ At(c, "leaving")
  /\ Goto(c, "vacated")
  /\ consumer_cursors' = [consumer_cursors EXCEPT ![slot[c]] = Vacant]
  /\ next' = [next EXCEPT ![c] = 0]
  /\ UNCHANGED <<write_cursor, max_read_cursor, slowest_consumer, buffer, waits, seq, slot,
                 target, scan, reg>>

Vacated(c) ==
  /\ At(c, "vacated")
  /\ StartRefresh(c, write_cursor + 1)
  /\ UNCHANGED <<shared, waits, seq, next, slot>>

Unregistered(c) ==
  /\ At(c, "refreshed") /\ c \in Consumers
  /\ Goto(c, "gone") /\ Forget(c)
  /\ UNCHANGED <<shared, waits, seq, next, slot>>

-----------------------------------------------------------------------------
PublisherStep(p) ==
  CheckCapacity(p) \/ Refreshed(p) \/ ClaimCas(p) \/ Write(p) \/ Commit(p)

ConsumerStep(c) ==
  \/ LoadStart(c) \/ RegisterCas(c) \/ WaitFor(c) \/ ReleaseEntry(c)
  \/ DrainNothing(c) \/ Unregister(c) \/ Vacated(c) \/ Unregistered(c)

Step(t) ==
  \/ ScanSlot(t) \/ LoadCached(t) \/ RaiseSlowest(t)
  \/ t \in Publishers /\ PublisherStep(t)
  \/ t \in Consumers /\ ConsumerStep(t)

Calls(t) ==
  \/ t \in Publishers /\ (TryClaim(t) \/ ClaimBlocking(t))
  \/ t \in Consumers /\ StopRunning(t)

Next == \E t \in Threads : Step(t) \/ Calls(t)

Spec == Init /\ [][Next]_vars

(* Every thread inside an operation goes on; nobody has to publish or to   *)
(* leave.                                                                  *)
FairSpec == Spec /\ \A t \in Threads : WF_vars(Step(t))

-----------------------------------------------------------------------------
Registered(c) == pc[c] \in {"wait", "process", "drain", "drain_process", "leaving"}

(* The types of the ring's fields and of the threads' locals.              *)
TypeOK ==
  /\ {write_cursor, max_read_cursor, slowest_consumer} \subseteq 0..Vacant
  /\ consumer_cursors \in [Slots -> 0..Vacant]
  /\ buffer \in [0..(Capacity - 1) -> 0..MaxSequence]
  /\ pc \in [Threads -> {"idle", "capacity", "scan", "raise", "refreshed", "cas", "write",
                         "commit", "register", "register_cas", "wait", "process", "drain",
                         "drain_process", "leaving", "vacated", "gone"}]
  /\ waits \in [Threads -> BOOLEAN]
  /\ {seq, target, reg} \subseteq [Threads -> 0..Vacant] /\ scan \in [Threads -> 0..SlotCount]
  /\ next \in [Consumers -> 0..Vacant] /\ slot \in [Consumers -> Slots]

(* A slot belongs to one registered consumer at a time and holds that      *)
(* consumer's cursor, however registrations and departures interleave.     *)
SlotsOwned ==
  /\ TypeOK
  /\ \A c \in Consumers : Registered(c) =>
       /\ consumer_cursors[slot[c]] = next[c] - 1
       /\ \A d \in Consumers \ {c} : Registered(d) => slot[d] # slot[c]

(* What a registered consumer has not released yet is still in its entry.  *)
Unread(c) == Registered(c) => \A s \in next[c]..max_read_cursor : buffer[RingIndex(s)] = s

(* The slowest registered consumer gates reuse: a consumer registered      *)
(* before the first entry sees every entry, whoever else comes and goes.   *)
UnreadIntact == \A c \in Early : Unread(c)

(* "slowest_consumer_gates_reuse", for every consumer whenever it          *)
(* registered.                                                             *)
SlowestGatesReuse == \A c \in Consumers : Unread(c)

(* A consumer with dependencies never gets ahead of one of them that is    *)
(* still registered, neither while it processes nor after it releases.     *)
DependenciesFirst ==
  \A c \in Consumers : Registered(c) =>
    \A d \in Upstream[c] : Registered(d) =>
      /\ consumer_cursors[slot[c]] <= consumer_cursors[slot[d]]
      /\ pc[c] \in {"process", "drain_process"} => seq[c] <= consumer_cursors[slot[d]]

(* The cached minimum never overtakes a consumer registered from the start. *)
SlowestBehind ==
  \A c \in Early : Registered(c) => slowest_consumer <= consumer_cursors[slot[c]]

(* Visible entries reach every consumer that stays, and a publisher that   *)
(* waits for capacity gets it, whoever leaves meanwhile.                   *)
WaitersServed ==
  /\ \A c \in Consumers, s \in 1..MaxSequence :
       Registered(c) /\ max_read_cursor >= s ~> next[c] > s \/ ~Registered(c)
  /\ \A p \in Publishers : waits[p] ~> ~waits[p]
=============================================================================
