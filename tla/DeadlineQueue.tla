--------------------------- MODULE DeadlineQueue ---------------------------
(***************************************************************************)
(* concurrency/src/deadline_queue.c: a bounded binary heap of timers over  *)
(* recycled slots.  An id is a slot with the generation of its use; a slot *)
(* whose generation is exhausted is retired.  A timer's token is left out: *)
(* its order identifies it.                                                *)
(***************************************************************************)
EXTENDS Integers, SequencesExt

CONSTANTS
  Capacity,
  Deadlines,      \* the deadlines scheduled and the times asked about
  MaxGeneration,  \* UINT32_MAX
  MaxOrder        \* UINT64_MAX

ASSUME QueueAssumption ==
  /\ Capacity \in Nat \ {0} /\ MaxGeneration \in Nat \ {0} /\ MaxOrder \in Nat
  /\ Deadlines \subseteq Nat

Slots == 0..(Capacity - 1)
None == -1        \* SALTS_DEADLINE_INDEX_NONE
Ids == Slots \X (1..MaxGeneration)

VARIABLES
  entries,        \* slot -> deadline, order, generation, active
  heap_index,     \* slot -> its index in the heap
  heap,           \* slots, from index 1 on; its length is the field size
  free_slots,     \* a stack whose top is its last element
  next_order,
  out             \* the last call, its argument and what it returned

queue == <<entries, heap_index, heap, free_slots, next_order>>
queue_vars == <<queue, out>>

Idle(generation) == [deadline |-> 0, order |-> 0, generation |-> generation, active |-> FALSE]

QueueInit ==
  /\ entries = [s \in Slots |-> Idle(1)]
  /\ heap_index = [s \in Slots |-> None]
  /\ heap = <<>>
  /\ free_slots = [i \in 1..Capacity |-> Capacity - i]
  /\ next_order = 0 /\ out = <<"init">>

-----------------------------------------------------------------------------
(* The heap with its back pointers.  Indices are the code's plus one.      *)

Before(e, left, right) ==
  \/ e[left].deadline < e[right].deadline
  \/ e[left].deadline = e[right].deadline /\ e[left].order < e[right].order

Parent(i) == i \div 2

Swap(q, i, j) ==
  [heap |-> [q.heap EXCEPT ![i] = q.heap[j], ![j] = q.heap[i]],
   index |-> [q.index EXCEPT ![q.heap[j]] = i, ![q.heap[i]] = j]]

RECURSIVE SiftUp(_, _, _)
SiftUp(e, q, i) ==
  IF i > 1 /\ Before(e, q.heap[i], q.heap[Parent(i)])
    THEN SiftUp(e, Swap(q, i, Parent(i)), Parent(i))
    ELSE q

(* The earliest of a node and its children; a tie is impossible.           *)
Earliest(e, h, i) ==
  CHOOSE j \in {i, 2 * i, 2 * i + 1} \cap DOMAIN h :
    \A k \in ({i, 2 * i, 2 * i + 1} \cap DOMAIN h) \ {j} : Before(e, h[j], h[k])

RECURSIVE SiftDown(_, _, _)
SiftDown(e, q, i) ==
  LET j == Earliest(e, q.heap, i)
  IN  IF j = i THEN q ELSE SiftDown(e, Swap(q, i, j), j)

(* Mutant: the slot that takes the place never moves up.                   *)
Removed_DownOnly(e, i) ==
  LET last == Last(heap)
      q == [heap |-> [Front(heap) EXCEPT ![i] = last], index |-> [heap_index EXCEPT ![last] = i]]
  IN  IF i = Len(heap)
        THEN [heap |-> Front(heap), index |-> heap_index]
        ELSE SiftDown(e, q, i)

(* The heap without index i: the last slot takes its place and moves up if *)
(* it is before its new parent, down otherwise.                            *)
Removed(e, i) ==
  LET last == Last(heap)
      q == [heap |-> [Front(heap) EXCEPT ![i] = last], index |-> [heap_index EXCEPT ![last] = i]]
  IN  IF i = Len(heap)
        THEN [heap |-> Front(heap), index |-> heap_index]
        ELSE IF i > 1 /\ Before(e, last, q.heap[Parent(i)])
               THEN SiftUp(e, q, i)
               ELSE SiftDown(e, q, i)

ReleaseSlot(s) ==
  IF entries[s].generation = MaxGeneration
    THEN entries' = [entries EXCEPT ![s] = Idle(0)] /\ UNCHANGED free_slots
    ELSE /\ entries' = [entries EXCEPT ![s] = Idle(entries[s].generation + 1)]
         /\ free_slots' = Append(free_slots, s)

RemoveTimer(i) ==
  /\ LET q == Removed(entries, i)
     IN  heap' = q.heap /\ heap_index' = [q.index EXCEPT ![heap[i]] = None]
  /\ ReleaseSlot(heap[i])
  /\ UNCHANGED next_order

-----------------------------------------------------------------------------
(* The operations.  A schedule that is refused changes nothing.            *)

Schedule(deadline) ==
  /\ free_slots # <<>> /\ next_order < MaxOrder
  /\ LET slot == Last(free_slots)
         e == [entries EXCEPT ![slot] = [@ EXCEPT !.deadline = deadline, !.order = next_order,
                                                  !.active = TRUE]]
         i == Len(heap) + 1
         q == SiftUp(e, [heap |-> Append(heap, slot), index |-> [heap_index EXCEPT ![slot] = i]], i)
     IN  /\ ~entries[slot].active /\ entries[slot].generation # 0
         /\ entries' = e /\ heap' = q.heap /\ heap_index' = q.index
         /\ out' = <<"schedule", deadline, <<slot, entries[slot].generation>>>>
  /\ free_slots' = Front(free_slots)
  /\ next_order' = next_order + 1

(* Mutant: an id cancels whatever uses its slot.                           *)
Cancel_AnyGeneration(id) ==
  IF entries[id[1]].active
    THEN /\ RemoveTimer(heap_index[id[1]])
         /\ out' = <<"cancel", id, entries[id[1]].order>>
    ELSE out' = <<"cancel", id, None>> /\ UNCHANGED queue

Cancel(id) ==
  IF entries[id[1]].active /\ entries[id[1]].generation = id[2]
    THEN /\ RemoveTimer(heap_index[id[1]])
         /\ out' = <<"cancel", id, entries[id[1]].order>>
    ELSE out' = <<"cancel", id, None>> /\ UNCHANGED queue

TakeReady(now) ==
  IF heap # <<>> /\ entries[Head(heap)].deadline <= now
    THEN RemoveTimer(1) /\ out' = <<"take_ready", now, entries[Head(heap)].order>>
    ELSE out' = <<"take_ready", now, None>> /\ UNCHANGED queue

QueueNext ==
  \/ \E d \in Deadlines : Schedule(d) \/ TakeReady(d)
  \/ \E id \in Ids : Cancel(id)

QueueSpec == QueueInit /\ [][QueueNext]_queue_vars

-----------------------------------------------------------------------------
(* The types of the queue's fields.                                        *)
QueueTypes ==
  /\ entries \in [Slots -> [deadline : Deadlines \cup {0}, order : 0..MaxOrder,
                            generation : 0..MaxGeneration, active : BOOLEAN]]
  /\ heap_index \in [Slots -> {None} \cup 1..Capacity]
  /\ {heap, free_slots} \subseteq Seq(Slots) /\ Len(heap) + Len(free_slots) <= Capacity
  /\ next_order \in 0..MaxOrder

(* Every slot is in the heap at the index it remembers, or on the free     *)
(* list once, or retired: no slot is lost or used twice, and the EPROTO    *)
(* return of schedule is unreachable.  The heap is in order, which every   *)
(* removal from its middle restores.                                       *)
SlotsAccounted ==
  /\ QueueTypes
  /\ \A i \in 2..Len(heap) : Before(entries, heap[Parent(i)], heap[i])
  /\ \A i \in DOMAIN heap : entries[heap[i]].active /\ heap_index[heap[i]] = i
  /\ \A s \in Slots :
       IF entries[s].active
         THEN heap_index[s] \in DOMAIN heap /\ heap[heap_index[s]] = s
         ELSE heap_index[s] = None
  /\ IsInjective(free_slots)
  /\ ToSet(free_slots) = {s \in Slots : ~entries[s].active /\ entries[s].generation # 0}

(* The timers and ids that stand for the slots.                            *)
Issued ==
  {id \in Ids : \/ entries[id[1]].generation = 0 \/ id[2] < entries[id[1]].generation
                \/ id[2] = entries[id[1]].generation /\ entries[id[1]].active}

Pending ==
  {[id |-> <<s, entries[s].generation>>, deadline |-> entries[s].deadline,
    order |-> entries[s].order] : s \in {u \in Slots : entries[u].active}}

Timers == INSTANCE TimerSet WITH pending <- Pending, issued <- Issued
=============================================================================
