-------------------------- MODULE ThreadPool_proofs --------------------------
(***************************************************************************)
(* Proofs about ThreadPool: the accounting of queued_depth that makes a    *)
(* claim of a ring entry fail only by contention.                          *)
(***************************************************************************)
EXTENDS ThreadPool, FiniteSetTheorems, TLAPS

(* The types this argument needs.                                          *)
DepthTypes ==
  /\ queued_depth \in Int
  /\ write_cursor \in Nat /\ worker_cursor \in Nat
  /\ slot \in [Tasks -> Nat]
  /\ pc \in [Threads -> Labels]

(* A sequence number handed out is at most the write cursor, and workers   *)
(* never run ahead of the publishers.                                      *)
CursorOrder ==
  /\ worker_cursor <= write_cursor
  /\ \A k \in Tasks : slot[k] <= write_cursor

DepthLimit == queued_depth <= QueueCapacity

(* The inductive invariant behind QueueBounded.                            *)
DepthInv == DepthTypes /\ CursorOrder /\ DepthAccounts /\ DepthLimit

-----------------------------------------------------------------------------
(* Threads is finite, so the two sets that hold queue slots are.           *)
LEMMA FiniteThreadSets ==
  /\ IsFiniteSet(Reserved) /\ Cardinality(Reserved) \in Nat
  /\ IsFiniteSet(Holding) /\ Cardinality(Holding) \in Nat
<1>1. Reserved \subseteq Threads /\ Holding \subseteq Threads
  BY Zenon DEF Reserved, Holding
<1>2. IsFiniteSet(Reserved) /\ IsFiniteSet(Holding)
  BY <1>1, ThreadsAssumption, FS_Subset, Zenon
<1> QED
  BY <1>2, FS_CardinalityType, Zenon

(* DepthInv implies what the runs check of it: the depth is within the     *)
(* configured capacity, and a thread with a reservation finds a free entry.*)
LEMMA DepthInvBounds == DepthInv => QueueBounded
<1> SUFFICES ASSUME DepthInv PROVE QueueBounded
  BY Zenon
<1> USE FiniteThreadSets, CapacityAssumption
<1>1. queued_depth \in 0..QueueCapacity
  BY DEF DepthInv, DepthTypes, CursorOrder, DepthAccounts, DepthLimit
<1>2. ASSUME NEW t \in Threads, pc[t] \in {"claim", "cas", "unclaimed"}
      PROVE  write_cursor - worker_cursor < RingCapacity
  <2>1. t \in Reserved
    BY <1>2, Zenon DEF Reserved, ReservedLabels
  <2>2. Cardinality(Reserved) # 0
    BY <2>1, FS_EmptySet, Zenon
  <2> QED
    BY <2>2 DEF DepthInv, DepthTypes, CursorOrder, DepthAccounts, DepthLimit
<1> QED
  BY <1>1, <1>2, Zenon DEF QueueBounded

(* Initially nobody holds a slot.                                          *)
LEMMA InitDepth == Init => DepthInv
<1> SUFFICES ASSUME Init PROVE DepthInv
  BY Zenon
<1>1. Reserved = {} /\ Holding = {}
  BY Zenon DEF Init, Reserved, Holding, ReservedLabels, HoldingLabels
<1>2. Cardinality(Reserved) = 0 /\ Cardinality(Holding) = 0
  BY <1>1, FS_EmptySet, Zenon
<1>3. DepthTypes
  <2>1. \A t \in Threads : (IF t \in Workers THEN "take" ELSE "idle") \in Labels
    BY DEF Labels
  <2>2. pc \in [Threads -> Labels]
    BY <2>1, Zenon DEF Init
  <2> QED
    BY <2>2 DEF Init, DepthTypes
<1> QED
  BY <1>2, <1>3, CapacityAssumption DEF Init, DepthInv, CursorOrder, DepthAccounts, DepthLimit

-----------------------------------------------------------------------------
(* A step that leaves the depth and the cursors alone, and in which no     *)
(* thread enters or leaves the two sets.                                   *)
LEMMA DepthFrame ==
  ASSUME DepthInv, pc' \in [Threads -> Labels],
         UNCHANGED <<queued_depth, write_cursor, slot, worker_cursor>>,
         \A s \in Threads : pc'[s] \in ReservedLabels <=> pc[s] \in ReservedLabels,
         \A s \in Threads : pc'[s] \in HoldingLabels <=> pc[s] \in HoldingLabels
  PROVE  DepthInv'
<1>1. Reserved' = Reserved
  BY Zenon DEF Reserved
<1>2. Holding' = Holding
  BY Zenon DEF Holding
<1> QED
  BY <1>1, <1>2, Zenon DEF DepthInv, DepthTypes, CursorOrder, DepthAccounts, DepthLimit

(* The usual step: one thread goes to l.                                   *)
LEMMA GotoFrame ==
  ASSUME DepthInv, NEW t \in Threads, NEW l \in Labels, Goto(t, l),
         UNCHANGED <<queued_depth, write_cursor, slot, worker_cursor>>,
         pc[t] \in ReservedLabels <=> l \in ReservedLabels,
         pc[t] \in HoldingLabels <=> l \in HoldingLabels
  PROVE  DepthInv'
<1>1. pc \in [Threads -> Labels]
  BY Zenon DEF DepthInv, DepthTypes
<1>2. pc' \in [Threads -> Labels] /\ pc'[t] = l /\ \A s \in Threads : s # t => pc'[s] = pc[s]
  BY <1>1, Zenon DEF Goto
<1> QED
  BY <1>2, DepthFrame, Zenon

(* cond_signal: t goes to l and at most one sleeper goes to p.             *)
LEMMA SignalFrame ==
  ASSUME DepthInv, NEW t \in Threads, NEW l \in Labels, NEW w \in Labels, NEW p \in Labels,
         Signal(t, l, w, p),
         \A x \in {pc[t], l, w, p} : x \notin ReservedLabels /\ x \notin HoldingLabels,
         UNCHANGED <<queued_depth, write_cursor, slot, worker_cursor>>
  PROVE  DepthInv'
<1>1. pc \in [Threads -> Labels]
  BY Zenon DEF DepthInv, DepthTypes
<1>2. CASE Goto(t, l)
  BY <1>1, <1>2, GotoFrame, Zenon
<1>3. CASE \E s \in Threads : pc[s] = w /\ pc' = [pc EXCEPT ![t] = l, ![s] = p]
  <2> PICK s \in Threads : pc[s] = w /\ pc' = [pc EXCEPT ![t] = l, ![s] = p]
    BY <1>3, Zenon
  <2>1. /\ pc' \in [Threads -> Labels]
        /\ \A u \in Threads : pc'[u] = IF u = s THEN p ELSE IF u = t THEN l ELSE pc[u]
    BY <1>1, Zenon
  <2> QED
    BY <1>1, <2>1, DepthFrame, Zenon
<1> QED
  BY <1>2, <1>3, Zenon DEF Signal

(* notify_progress wakes waiters, none of which holds a slot.              *)
LEMMA NotifyFrame ==
  ASSUME DepthInv, NEW t \in Threads, NEW l \in Labels, NotifyProgress(t, l),
         \A x \in {pc[t], l} : x \notin ReservedLabels /\ x \notin HoldingLabels,
         UNCHANGED <<queued_depth, write_cursor, slot, worker_cursor>>
  PROVE  DepthInv'
<1>1. pc \in [Threads -> Labels]
  BY Zenon DEF DepthInv, DepthTypes
<1>2. \A s \in Threads : \/ pc'[s] = pc[s]
                         \/ s = t /\ pc'[s] = l
                         \/ pc[s] = "wait_done" /\ pc'[s] = "wait"
  BY Zenon DEF NotifyProgress
<1>3. pc' \in [Threads -> Labels]
  <2>1. "wait" \in Labels
    BY Zenon DEF Labels
  <2> QED
    BY <1>1, <2>1, Zenon DEF NotifyProgress
<1> QED
  BY <1>1, <1>2, <1>3, DepthFrame, Zenon DEF ReservedLabels, HoldingLabels

-----------------------------------------------------------------------------
(* Going from a place outside both sets to one with a reservation adds     *)
(* that thread to Reserved.                                                *)
LEMMA EnterReserved ==
  ASSUME DepthInv, NEW t \in Threads, NEW l \in ReservedLabels, Goto(t, l),
         pc[t] \notin ReservedLabels \cup HoldingLabels, l \notin HoldingLabels, l \in Labels
  PROVE  /\ pc' \in [Threads -> Labels]
         /\ Cardinality(Reserved') = Cardinality(Reserved) + 1
         /\ Cardinality(Holding') = Cardinality(Holding)
<1>1. pc \in [Threads -> Labels]
  BY Zenon DEF DepthInv, DepthTypes
<1>2. Reserved' = Reserved \cup {t} /\ t \notin Reserved /\ Holding' = Holding
  BY <1>1, Zenon DEF Goto, Reserved, Holding
<1>3. Cardinality(Reserved \cup {t}) = Cardinality(Reserved) + 1
  BY <1>2, FiniteThreadSets, FS_AddElement, Zenon
<1> QED
  BY <1>1, <1>2, <1>3, Zenon DEF Goto

(* Going from a place with a reservation to one outside both sets takes    *)
(* that thread out of Reserved.                                            *)
LEMMA LeaveReserved ==
  ASSUME DepthInv, NEW t \in Threads, NEW l \in Labels, Goto(t, l),
         pc[t] \in ReservedLabels, pc[t] \notin HoldingLabels,
         l \notin ReservedLabels \cup HoldingLabels
  PROVE  /\ pc' \in [Threads -> Labels]
         /\ Cardinality(Reserved') = Cardinality(Reserved) - 1
         /\ Cardinality(Holding') = Cardinality(Holding)
<1>1. pc \in [Threads -> Labels]
  BY Zenon DEF DepthInv, DepthTypes
<1>2. Reserved' = Reserved \ {t} /\ t \in Reserved /\ Holding' = Holding
  BY <1>1, Zenon DEF Goto, Reserved, Holding
<1>3. Cardinality(Reserved \ {t}) = Cardinality(Reserved) - 1
  BY <1>2, FiniteThreadSets, FS_RemoveElement, Zenon
<1> QED
  BY <1>1, <1>2, <1>3, Zenon DEF Goto

(* Going to a place where a taken entry still holds its slot adds that     *)
(* worker to Holding.                                                      *)
LEMMA EnterHolding ==
  ASSUME DepthInv, NEW t \in Threads, NEW l \in HoldingLabels, Goto(t, l),
         pc[t] \notin ReservedLabels \cup HoldingLabels, l \notin ReservedLabels, l \in Labels
  PROVE  /\ pc' \in [Threads -> Labels]
         /\ Cardinality(Holding') = Cardinality(Holding) + 1
         /\ Cardinality(Reserved') = Cardinality(Reserved)
<1>1. pc \in [Threads -> Labels]
  BY Zenon DEF DepthInv, DepthTypes
<1>2. Holding' = Holding \cup {t} /\ t \notin Holding /\ Reserved' = Reserved
  BY <1>1, Zenon DEF Goto, Reserved, Holding
<1>3. Cardinality(Holding \cup {t}) = Cardinality(Holding) + 1
  BY <1>2, FiniteThreadSets, FS_AddElement, Zenon
<1> QED
  BY <1>1, <1>2, <1>3, Zenon DEF Goto

(* Going on from such a place takes the worker out of Holding.             *)
LEMMA LeaveHolding ==
  ASSUME DepthInv, NEW t \in Threads, NEW l \in Labels, Goto(t, l),
         pc[t] \in HoldingLabels, pc[t] \notin ReservedLabels,
         l \notin ReservedLabels \cup HoldingLabels
  PROVE  /\ pc' \in [Threads -> Labels]
         /\ Cardinality(Holding') = Cardinality(Holding) - 1
         /\ Cardinality(Reserved') = Cardinality(Reserved)
<1>1. pc \in [Threads -> Labels]
  BY Zenon DEF DepthInv, DepthTypes
<1>2. Holding' = Holding \ {t} /\ t \in Holding /\ Reserved' = Reserved
  BY <1>1, Zenon DEF Goto, Reserved, Holding
<1>3. Cardinality(Holding \ {t}) = Cardinality(Holding) - 1
  BY <1>2, FiniteThreadSets, FS_RemoveElement, Zenon
<1> QED
  BY <1>1, <1>2, <1>3, Zenon DEF Goto

-----------------------------------------------------------------------------
(* Every step of submit_internal preserves DepthInv.                       *)
LEMMA SubmitDepth ==
  ASSUME DepthInv, NEW t \in Threads, SubmitStep(t)
  PROVE  DepthInv'
<1> USE DEF ReservedLabels, HoldingLabels
<1>0. Home(t) \in Labels /\ Home(t) \in {"run", "idle"}
  BY Zenon DEF DepthInv, DepthTypes, Home, Labels
<1>1. CASE Check(t)
  <2>1. \E l \in {"reserve", "reject"} : Goto(t, l)
    BY <1>1, Zenon DEF Check
  <2> QED
    BY <1>0, <1>1, <2>1, GotoFrame DEF Check, At, ring, data, Labels
<1>2. CASE Reserve(t)
  <2>1. CASE queued_depth < QueueCapacity
    <3>1. Goto(t, "claim") /\ queued_depth' = queued_depth + 1 /\ UNCHANGED ring
      BY <1>2, <2>1, Zenon DEF Reserve
    <3>2. /\ pc' \in [Threads -> Labels]
          /\ Cardinality(Reserved') = Cardinality(Reserved) + 1
          /\ Cardinality(Holding') = Cardinality(Holding)
      BY <1>2, <3>1, EnterReserved, Zenon DEF Reserve, At, Labels
    <3> QED
      BY <2>1, <3>1, <3>2, FiniteThreadSets, CapacityAssumption DEF DepthInv, DepthTypes, CursorOrder, DepthAccounts, DepthLimit, ring, data
  <2>2. CASE ~(queued_depth < QueueCapacity)
    <3>1. /\ \E l \in {"park_space", "reject"} : Goto(t, l)
          /\ UNCHANGED <<queued_depth, ring>>
      BY <1>2, <2>2, Zenon DEF Reserve
    <3> QED
      BY <1>0, <1>2, <3>1, GotoFrame, Zenon DEF Reserve, At, ring, data, Labels
  <2> QED
    BY <2>1, <2>2, Zenon
<1>3. CASE ParkSpace(t)
  <2>1. \E l \in {"wait_space", "check"} : Goto(t, l)
    BY <1>3, Zenon DEF ParkSpace
  <2> QED
    BY <1>0, <1>3, <2>1, GotoFrame DEF ParkSpace, At, ring, data, Labels
<1>4. CASE Claim(t)
  <2>1. \E l \in {"cas", "unclaimed"} : Goto(t, l)
    BY <1>4, Zenon DEF Claim
  <2> QED
    BY <1>0, <1>4, <2>1, GotoFrame DEF Claim, At, ring, data, Labels
<1>5. CASE CasWriteCursor(t)
  <2>1. CASE write_cursor = reg[t]
    <3>1. /\ Goto(t, "write") /\ write_cursor' = write_cursor + 1
          /\ slot' = [slot EXCEPT ![arg[t]] = write_cursor + 1]
          /\ UNCHANGED <<queued_depth, published, worker_cursor>>
      BY <1>5, <2>1, Zenon DEF CasWriteCursor
    <3>2. /\ pc' \in [Threads -> Labels]
          /\ Cardinality(Reserved') = Cardinality(Reserved) - 1
          /\ Cardinality(Holding') = Cardinality(Holding)
      BY <1>5, <3>1, LeaveReserved DEF CasWriteCursor, At, Labels
    <3>3. \A k \in Tasks : slot'[k] = IF k = arg[t] THEN write_cursor + 1 ELSE slot[k]
      BY <3>1, Zenon DEF DepthInv, DepthTypes
    <3>4. /\ write_cursor \in Nat /\ slot \in [Tasks -> Nat]
          /\ \A k \in Tasks : slot[k] <= write_cursor
      BY Zenon DEF DepthInv, DepthTypes, CursorOrder
    <3>5. \A k \in Tasks : slot'[k] \in Nat /\ slot'[k] <= write_cursor'
      BY <3>1, <3>3, <3>4
    <3>6. slot' \in [Tasks -> Nat]
      BY <3>1, <3>4, <3>5, Zenon
    <3> QED
      BY <3>1, <3>2, <3>5, <3>6, FiniteThreadSets DEF DepthInv, DepthTypes, CursorOrder, DepthAccounts, DepthLimit
  <2>2. CASE write_cursor # reg[t]
    BY <1>0, <1>5, <2>2, GotoFrame, Zenon DEF CasWriteCursor, At, Labels
  <2> QED
    BY <2>1, <2>2, Zenon
<1>6. CASE Unclaimed(t)
  <2>1. \E l \in {"unreserve", "claim"} : Goto(t, l)
    BY <1>6, Zenon DEF Unclaimed
  <2> QED
    BY <1>0, <1>6, <2>1, GotoFrame DEF Unclaimed, At, ring, data, Labels
<1>7. CASE ReleaseQueueSlot(t, "unreserve", "unreserve_signal")
  <2>1. /\ pc' \in [Threads -> Labels]
        /\ Cardinality(Reserved') = Cardinality(Reserved) - 1
        /\ Cardinality(Holding') = Cardinality(Holding)
    BY <1>7, LeaveReserved DEF ReleaseQueueSlot, At, Labels
  <2> QED
    BY <1>7, <2>1, FiniteThreadSets, CapacityAssumption DEF ReleaseQueueSlot, ring, data, DepthInv, DepthTypes, CursorOrder, DepthAccounts, DepthLimit
<1>8. CASE SignalQueueSpace(t, "unreserve_signal", "reject")
  <2>1. pc[t] = "unreserve_signal" /\ Signal(t, "reject", "wait_space", "park_space")
    BY <1>8, Zenon DEF SignalQueueSpace, At
  <2>2. "reject" \in Labels /\ "wait_space" \in Labels /\ "park_space" \in Labels
    BY Zenon DEF Labels
  <2>3. UNCHANGED <<queued_depth, write_cursor, slot, worker_cursor>>
    BY <1>8, Zenon DEF SignalQueueSpace, ring, data
  <2> QED
    BY <2>1, <2>2, <2>3, SignalFrame, Zenon
<1>9. CASE Reject(t)
  BY <1>0, <1>9, GotoFrame, Zenon DEF Reject, At, ring, data
<1>10. CASE Write(t)
  BY <1>0, <1>10, GotoFrame DEF Write, At, ring, data, Labels
<1>11. CASE Publish(t)
  BY <1>11, GotoFrame, Zenon DEF Publish, At, Labels
<1>12. CASE SignalTaskAvailable(t)
  <2>1. pc[t] = "signal_task" /\ Signal(t, Home(t), "wait_task", "park_task")
    BY <1>12, Zenon DEF SignalTaskAvailable, At
  <2>2. "wait_task" \in Labels /\ "park_task" \in Labels
    BY Zenon DEF Labels
  <2>3. UNCHANGED <<queued_depth, write_cursor, slot, worker_cursor>>
    BY <1>12, Zenon DEF SignalTaskAvailable, ring, data
  <2> QED
    BY <1>0, <2>1, <2>2, <2>3, SignalFrame, Zenon
<1> QED
  BY <1>1, <1>2, <1>3, <1>4, <1>5, <1>6, <1>7, <1>8, <1>9, <1>10, <1>11, <1>12, Zenon DEF SubmitStep

(* Every step of worker_entry preserves DepthInv.                           *)
LEMMA WorkerDepth ==
  ASSUME DepthInv, NEW t \in Threads, WorkerStep(t)
  PROVE  DepthInv'
<1> USE DEF ReservedLabels, HoldingLabels
<1>0. Home(t) \in Labels /\ Home(t) \in {"run", "idle"}
  BY Zenon DEF DepthInv, DepthTypes, Home, Labels
<1>1. CASE TakeTask(t)
  <2> PICK k \in Takeable : worker_cursor' = worker_cursor + 1 /\ Goto(t, "taken")
    BY <1>1, Zenon DEF TakeTask
  <2>1. worker_cursor < write_cursor
    BY DEF Takeable, DepthInv, DepthTypes, CursorOrder
  <2>2. /\ pc' \in [Threads -> Labels]
        /\ Cardinality(Holding') = Cardinality(Holding) + 1
        /\ Cardinality(Reserved') = Cardinality(Reserved)
    BY <1>1, EnterHolding, Zenon DEF TakeTask, At, Labels
  <2> QED
    BY <1>1, <2>1, <2>2, FiniteThreadSets DEF TakeTask, DepthInv, DepthTypes, CursorOrder, DepthAccounts, DepthLimit
<1>2. CASE TakeNone(t)
  BY <1>0, <1>2, GotoFrame, Zenon DEF TakeNone, At, ring, data, Labels
<1>3. CASE LoadShutdown(t)
  <2>1. \E l \in {"exit_submitted", "park_task"} : Goto(t, l)
    BY <1>3, Zenon DEF LoadShutdown
  <2> QED
    BY <1>0, <1>3, <2>1, GotoFrame DEF LoadShutdown, At, ring, data, Labels
<1>4. CASE ExitSubmitted(t)
  BY <1>0, <1>4, GotoFrame, Zenon DEF ExitSubmitted, At, ring, data, Labels
<1>5. CASE ExitSettled(t)
  <2>1. \E l \in {"exit_depth", "park_task"} : Goto(t, l)
    BY <1>5, Zenon DEF ExitSettled
  <2> QED
    BY <1>0, <1>5, <2>1, GotoFrame DEF ExitSettled, At, ring, data, Labels
<1>6. CASE ExitDepth(t)
  <2>1. \E l \in {"exit", "park_task"} : Goto(t, l)
    BY <1>6, Zenon DEF ExitDepth
  <2> QED
    BY <1>0, <1>6, <2>1, GotoFrame DEF ExitDepth, At, ring, data, Labels
<1>7. CASE Exit(t)
  BY <1>7, NotifyFrame, Zenon DEF Exit, At, ring, data, Labels
<1>8. CASE ParkTask(t)
  <2>1. \E l \in {"wait_task", "take"} : Goto(t, l)
    BY <1>8, Zenon DEF ParkTask
  <2> QED
    BY <1>0, <1>8, <2>1, GotoFrame DEF ParkTask, At, ring, data, Labels
<1>9. CASE LoadCancelPending(t)
  <2>1. \E l \in {"cancel", "start"} : Goto(t, l)
    BY <1>9, Zenon DEF LoadCancelPending
  <2> QED
    BY <1>0, <1>9, <2>1, GotoFrame, Zenon DEF LoadCancelPending, At, ring, data, Labels
<1>10. CASE CancelDescriptor(t)
  BY <1>0, <1>10, GotoFrame, Zenon DEF CancelDescriptor, At, ring, data, Labels
<1>11. CASE ReleaseQueueSlot(t, "cancel_release", "cancel_signal")
  <2>1. /\ pc' \in [Threads -> Labels]
        /\ Cardinality(Holding') = Cardinality(Holding) - 1
        /\ Cardinality(Reserved') = Cardinality(Reserved)
    BY <1>11, LeaveHolding DEF ReleaseQueueSlot, At, Labels
  <2> QED
    BY <1>11, <2>1, FiniteThreadSets, CapacityAssumption DEF ReleaseQueueSlot, ring, data, DepthInv, DepthTypes, CursorOrder, DepthAccounts, DepthLimit
<1>12. CASE SignalQueueSpace(t, "cancel_signal", "cancel_count")
  <2>1. pc[t] = "cancel_signal" /\ Signal(t, "cancel_count", "wait_space", "park_space")
    BY <1>12, Zenon DEF SignalQueueSpace, At
  <2>2. "cancel_count" \in Labels /\ "wait_space" \in Labels /\ "park_space" \in Labels
    BY Zenon DEF Labels
  <2>3. UNCHANGED <<queued_depth, write_cursor, slot, worker_cursor>>
    BY <1>12, Zenon DEF SignalQueueSpace, ring, data
  <2> QED
    BY <2>1, <2>2, <2>3, SignalFrame, Zenon
<1>13. CASE ReleaseQueueSlot(t, "start", "start_signal")
  <2>1. /\ pc' \in [Threads -> Labels]
        /\ Cardinality(Holding') = Cardinality(Holding) - 1
        /\ Cardinality(Reserved') = Cardinality(Reserved)
    BY <1>13, LeaveHolding DEF ReleaseQueueSlot, At, Labels
  <2> QED
    BY <1>13, <2>1, FiniteThreadSets, CapacityAssumption DEF ReleaseQueueSlot, ring, data, DepthInv, DepthTypes, CursorOrder, DepthAccounts, DepthLimit
<1>14. CASE SignalQueueSpace(t, "start_signal", "call_run")
  <2>1. pc[t] = "start_signal" /\ Signal(t, "call_run", "wait_space", "park_space")
    BY <1>14, Zenon DEF SignalQueueSpace, At
  <2>2. "call_run" \in Labels /\ "wait_space" \in Labels /\ "park_space" \in Labels
    BY Zenon DEF Labels
  <2>3. UNCHANGED <<queued_depth, write_cursor, slot, worker_cursor>>
    BY <1>14, Zenon DEF SignalQueueSpace, ring, data
  <2> QED
    BY <2>1, <2>2, <2>3, SignalFrame, Zenon
<1>15. CASE CancelTask(t)
  BY <1>0, <1>15, GotoFrame DEF CancelTask, At, ring, data, Labels
<1>16. CASE Run(t)
  BY <1>0, <1>16, GotoFrame DEF Run, At, ring, data, Labels
<1>17. CASE Finalize(t)
  BY <1>0, <1>17, GotoFrame DEF Finalize, At, ring, data, Labels
<1>18. CASE FinishTask(t)
  BY <1>0, <1>18, GotoFrame DEF FinishTask, At, ring, data, Labels
<1>19. CASE Notify(t)
  BY <1>19, NotifyFrame, Zenon DEF Notify, At, ring, data, Labels
<1> QED
  BY <1>1, <1>2, <1>3, <1>4, <1>5, <1>6, <1>7, <1>8, <1>9, <1>10, <1>11, <1>12, <1>13, <1>14, <1>15, <1>16, <1>17, <1>18, <1>19, Zenon DEF WorkerStep

(* Calls, waits, shutdowns and spurious wakeups do not touch the queue.    *)
LEMMA OtherDepth ==
  ASSUME DepthInv, NEW t \in Threads,
         Calls(t) \/ WaitStep(t) \/ ShutdownStep(t) \/ SpuriousWakeup(t)
  PROVE  DepthInv'
<1> USE DEF ReservedLabels, HoldingLabels
<1>0. Home(t) \in Labels /\ Home(t) \in {"run", "idle"}
  BY Zenon DEF DepthInv, DepthTypes, Home, Labels
<1>1. ASSUME NEW k \in Tasks, NEW b \in BOOLEAN, Submit(t, k, b) PROVE DepthInv'
  BY <1>0, <1>1, GotoFrame DEF Submit, ring, data, Labels
<1>2. CASE WaitStatus(t)
  BY <1>0, <1>2, GotoFrame DEF WaitStatus, At, ring, data, Labels
<1>3. ASSUME NEW p \in Policies, Shutdown(t, p) PROVE DepthInv'
  <2>1. CASE Goto(t, "sd_accepting")
    BY <1>0, <1>3, <2>1, GotoFrame DEF Shutdown, ring, data, Labels
  <2>2. CASE UNCHANGED pc
    BY <1>0, <1>3, <2>2, DepthFrame, Zenon DEF Shutdown, ring, data, DepthInv, DepthTypes
  <2> QED
    BY <1>3, <2>1, <2>2, Zenon DEF Shutdown
<1>4. CASE WaitSubmitted(t)
  BY <1>0, <1>4, GotoFrame DEF WaitSubmitted, At, ring, data, Labels
<1>5. CASE WaitSettled(t)
  <2>1. \E l \in {"wait_done", "waited"} : Goto(t, l)
    BY <1>5, Zenon DEF WaitSettled
  <2> QED
    BY <1>0, <1>5, <2>1, GotoFrame, Zenon DEF WaitSettled, At, ring, data, Labels
<1>6. CASE WaitReturn(t)
  BY <1>0, <1>6, GotoFrame, Zenon DEF WaitReturn, At, ring, data, Labels
<1>7. CASE ShutdownAccepting(t)
  <2>1. \E l \in {"sd_cancel", "sd_shutdown"} : Goto(t, l)
    BY <1>7, Zenon DEF ShutdownAccepting
  <2> QED
    BY <1>0, <1>7, <2>1, GotoFrame, Zenon DEF ShutdownAccepting, At, ring, data, Labels
<1>8. CASE ShutdownCancel(t)
  BY <1>0, <1>8, GotoFrame DEF ShutdownCancel, At, ring, data, Labels
<1>9. CASE ShutdownFlag(t)
  BY <1>0, <1>9, GotoFrame DEF ShutdownFlag, At, ring, data, Labels
<1>10. CASE ShutdownBroadcast(t)
  <2>1. pc \in [Threads -> Labels] /\ {"sd_notify", "park_task", "park_space"} \subseteq Labels
    BY DEF DepthInv, DepthTypes, Labels
  <2>2. \A s \in Threads : \/ pc'[s] = pc[s]
                           \/ s = t /\ pc'[s] = "sd_notify"
                           \/ pc[s] = "wait_task" /\ pc'[s] = "park_task"
                           \/ pc[s] = "wait_space" /\ pc'[s] = "park_space"
    BY <1>10 DEF ShutdownBroadcast
  <2>3. pc' \in [Threads -> Labels]
    <3>1. \A s \in Threads : pc'[s] \in Labels
      BY <2>1, <2>2, Zenon
    <3> QED
      BY <1>10, <3>1, Zenon DEF ShutdownBroadcast
  <2> QED
    BY <1>0, <1>10, <2>2, <2>3, DepthFrame, Zenon DEF ShutdownBroadcast, At, ring, data
<1>11. CASE ShutdownNotify(t)
  BY <1>0, <1>11, NotifyFrame, Zenon DEF ShutdownNotify, At, ring, data
<1>12. CASE Join(t)
  BY <1>0, <1>12, GotoFrame DEF Join, At, ring, data, Labels
<1>13. CASE SpuriousWakeup(t)
  <2>1. \E l \in {"park_space", "park_task", "wait"} : Goto(t, l)
    BY <1>13, Zenon DEF SpuriousWakeup
  <2>2. pc[t] \in {"wait_space", "wait_task", "wait_done"}
    BY <1>13, Zenon DEF SpuriousWakeup, At
  <2> QED
    BY <1>0, <1>13, <2>1, <2>2, GotoFrame DEF SpuriousWakeup, ring, data, Labels
<1> QED
  BY <1>1, <1>2, <1>3, <1>4, <1>5, <1>6, <1>7, <1>8, <1>9, <1>10, <1>11, <1>12, <1>13, Zenon DEF Calls, WaitStep, ShutdownStep

(* DepthInv is inductive.                                                  *)
LEMMA StepDepth == DepthInv /\ [Next]_vars => DepthInv'
<1> SUFFICES ASSUME DepthInv, [Next]_vars PROVE DepthInv'
  BY Zenon
<1>1. ASSUME NEW t \in Threads, Calls(t) \/ Step(t) \/ SpuriousWakeup(t) PROVE DepthInv'
  BY <1>1, SubmitDepth, WorkerDepth, OtherDepth, Zenon DEF Step
<1>2. CASE UNCHANGED vars
  BY <1>2, DepthFrame, Zenon DEF vars, ring, data, DepthInv, DepthTypes
<1> QED
  BY <1>1, <1>2, Zenon DEF Next

(* For any number of workers, submitters, waiters and stoppers and any     *)
(* capacity: the slots reserved, in the ring and held by workers add up to *)
(* queued_depth.                                                           *)
THEOREM DepthAccounting == Spec => []DepthAccounts
<1>1. DepthInv => DepthAccounts
  BY Zenon DEF DepthInv
<1> QED
  BY <1>1, InitDepth, StepDepth, PTL DEF Spec

(* For any number of threads and any capacity: queued_depth stays within   *)
(* queue_capacity, and a thread that has reserved a slot finds the ring    *)
(* with a free entry, so its claim fails only when another claim wins.     *)
THEOREM QueueBound == Spec => []QueueBounded
  BY InitDepth, StepDepth, DepthInvBounds, PTL DEF Spec

-----------------------------------------------------------------------------
(***************************************************************************)
(* The type correctness of ThreadPool.  DepthTypes covers the program      *)
(* counters and the ring; the rest of TypeOK needs that a thread inside    *)
(* submit_internal has a task for its argument, because publish adds it to *)
(* the ring.                                                               *)
(***************************************************************************)
SubmitLabels ==
  {"check", "reserve", "park_space", "wait_space", "claim", "cas", "unclaimed", "unreserve",
   "unreserve_signal", "reject", "write", "publish", "signal_task"}

Submitting == \A t \in Threads : pc[t] \in SubmitLabels => arg[t] \in Tasks

DataTypes ==
  /\ accepting \in BOOLEAN /\ shutdown \in BOOLEAN /\ cancel_pending \in BOOLEAN
  /\ shutdown_policy \in Policies \cup {NoPolicy}
  /\ tasks_submitted \in Nat /\ tasks_completed \in Nat /\ tasks_cancelled \in Nat
  /\ published \subseteq Tasks
  /\ arg \in [Threads -> Tasks \cup {NoTask}]
  /\ blocking \in [Threads -> BOOLEAN]
  /\ task \in [Workers -> Tasks \cup {NoTask}]
  /\ reg \in [Threads -> Nat]
  /\ policy \in [Threads -> Policies \cup {NoPolicy}]
  /\ result \in [Tasks -> {"new", "called", "OK"} \cup Refusals]
  /\ log \in [Tasks -> Seq({"run", "cancel", "finalize"})]

TypeInv == DepthInv /\ DataTypes /\ Submitting

(* A step in which nobody enters submit_internal and the arguments stay.   *)
LEMMA SubmittingFrame ==
  ASSUME Submitting, UNCHANGED arg,
         \A s \in Threads : pc'[s] \in SubmitLabels => pc[s] \in SubmitLabels
  PROVE  Submitting'
BY Zenon DEF Submitting

(* The same for a step of one thread.                                      *)
LEMMA SubmittingGoto ==
  ASSUME DepthInv, Submitting, UNCHANGED arg, NEW t \in Threads, NEW l, Goto(t, l),
         l \in SubmitLabels => pc[t] \in SubmitLabels
  PROVE  Submitting'
<1>1. \A s \in Threads : pc'[s] = IF s = t THEN l ELSE pc[s]
  BY Zenon DEF DepthInv, DepthTypes, Goto
<1> QED
  BY <1>1, SubmittingFrame, Zenon

(* cond_signal moves a sleeper inside submit_internal or outside it.       *)
LEMMA SubmittingSignal ==
  ASSUME DepthInv, Submitting, UNCHANGED arg, NEW t \in Threads, NEW l, NEW w, NEW p,
         Signal(t, l, w, p),
         l \in SubmitLabels => pc[t] \in SubmitLabels,
         p \in SubmitLabels => w \in SubmitLabels
  PROVE  Submitting'
<1>1. CASE Goto(t, l)
  BY <1>1, SubmittingGoto, Zenon
<1>2. ASSUME NEW s \in Threads, pc[s] = w, pc' = [pc EXCEPT ![t] = l, ![s] = p]
      PROVE  Submitting'
  <2>1. \A u \in Threads : pc'[u] = IF u = s THEN p ELSE IF u = t THEN l ELSE pc[u]
    BY <1>2, Zenon DEF DepthInv, DepthTypes
  <2> QED
    BY <1>2, <2>1, SubmittingFrame, Zenon
<1> QED
  BY <1>1, <1>2, Zenon DEF Signal

(* notify_progress moves waiters, who are outside submit_internal.         *)
LEMMA SubmittingNotify ==
  ASSUME DepthInv, Submitting, UNCHANGED arg, NEW t \in Threads, NEW l, NotifyProgress(t, l),
         l \notin SubmitLabels
  PROVE  Submitting'
<1>1. \A s \in Threads : \/ pc'[s] = pc[s] \/ pc'[s] = l \/ pc'[s] = "wait"
  BY Zenon DEF NotifyProgress
<1> QED
  BY <1>1, SubmittingFrame, Zenon DEF SubmitLabels

(* A step of control only.                                                 *)
LEMMA DataFrame ==
  ASSUME DataTypes, UNCHANGED data
  PROVE  DataTypes' /\ UNCHANGED arg
BY Zenon DEF DataTypes, data, flags, counters, ring, call, history

(* The end of a submission.                                                *)
LEMMA ReturnTypes ==
  ASSUME DataTypes, NEW t \in Threads, NEW status \in {"OK"} \cup Refusals, Return(t, status)
  PROVE  /\ arg' \in [Threads -> Tasks \cup {NoTask}] /\ arg'[t] = NoTask
         /\ \A s \in Threads \ {t} : arg'[s] = arg[s]
         /\ blocking' \in [Threads -> BOOLEAN]
         /\ result' \in [Tasks -> {"new", "called", "OK"} \cup Refusals]
BY Zenon DEF DataTypes, Return

(* A callback extends the log of a task, if any.                           *)
LEMMA CallbackTypes ==
  ASSUME DataTypes, NEW t, NEW calls \in Seq({"run", "cancel", "finalize"}), Callback(t, calls)
  PROVE  log' \in [Tasks -> Seq({"run", "cancel", "finalize"})]
<1>1. \A k \in Tasks : log[k] \o calls \in Seq({"run", "cancel", "finalize"})
  BY DEF DataTypes
<1> QED
  BY <1>1, Zenon DEF DataTypes, Callback

(* submit_internal.                                                        *)
LEMMA SubmitTypes ==
  ASSUME TypeInv, NEW t \in Threads, SubmitStep(t)
  PROVE  DataTypes' /\ Submitting'
<1> USE DEF TypeInv
<1>1. CASE Check(t)
  <2>1. DataTypes' /\ UNCHANGED arg
    BY <1>1, DataFrame, Zenon DEF Check
  <2>2. Submitting'
    BY <1>1, <2>1, SubmittingGoto, Zenon DEF Check, At, SubmitLabels
  <2> QED
    BY <2>1, <2>2, Zenon
<1>2. CASE Reserve(t)
  <2>1. DataTypes' /\ UNCHANGED arg
    BY <1>2, Zenon DEF Reserve, DataTypes, flags, counters, ring, call, history
  <2>2. Submitting'
    BY <1>2, <2>1, SubmittingGoto, Zenon DEF Reserve, At, SubmitLabels
  <2> QED
    BY <2>1, <2>2, Zenon
<1>3. CASE ParkSpace(t)
  <2>1. DataTypes' /\ UNCHANGED arg
    BY <1>3, DataFrame, Zenon DEF ParkSpace
  <2>2. Submitting'
    BY <1>3, <2>1, SubmittingGoto, Zenon DEF ParkSpace, At, SubmitLabels
  <2> QED
    BY <2>1, <2>2, Zenon
<1>4. CASE Claim(t)
  <2>1. DataTypes' /\ UNCHANGED arg
    BY <1>4, Zenon DEF Claim, DepthInv, DepthTypes, DataTypes, flags, counters, ring, call, history
  <2>2. Submitting'
    BY <1>4, <2>1, SubmittingGoto, Zenon DEF Claim, At, SubmitLabels
  <2> QED
    BY <2>1, <2>2, Zenon
<1>5. CASE CasWriteCursor(t)
  <2>1. DataTypes' /\ UNCHANGED arg
    BY <1>5, Zenon DEF CasWriteCursor, DataTypes, flags, counters, ring, call, history
  <2>2. Submitting'
    BY <1>5, <2>1, SubmittingGoto, Zenon DEF CasWriteCursor, At, SubmitLabels
  <2> QED
    BY <2>1, <2>2, Zenon
<1>6. CASE Unclaimed(t)
  <2>1. DataTypes' /\ UNCHANGED arg
    BY <1>6, DataFrame, Zenon DEF Unclaimed
  <2>2. Submitting'
    BY <1>6, <2>1, SubmittingGoto, Zenon DEF Unclaimed, At, SubmitLabels
  <2> QED
    BY <2>1, <2>2, Zenon
<1>7. CASE ReleaseQueueSlot(t, "unreserve", "unreserve_signal")
  <2>1. DataTypes' /\ UNCHANGED arg
    BY <1>7, Zenon DEF ReleaseQueueSlot, DataTypes, flags, counters, ring, call, history
  <2>2. Submitting'
    BY <1>7, <2>1, SubmittingGoto, Zenon DEF ReleaseQueueSlot, At, SubmitLabels
  <2> QED
    BY <2>1, <2>2, Zenon
<1>8. CASE SignalQueueSpace(t, "unreserve_signal", "reject")
  <2>1. DataTypes' /\ UNCHANGED arg
    BY <1>8, DataFrame, Zenon DEF SignalQueueSpace
  <2>2. Submitting'
    BY <1>8, <2>1, SubmittingSignal, Zenon DEF SignalQueueSpace, At, SubmitLabels
  <2> QED
    BY <2>1, <2>2, Zenon
<1>9. CASE Reject(t)
  <2>1. \E status \in {"OK"} \cup Refusals : Return(t, status)
    BY <1>9, Zenon DEF Reject, Refusals
  <2>2. DataTypes' /\ (\A s \in Threads \ {t} : arg'[s] = arg[s])
    BY <1>9, <2>1, ReturnTypes, Zenon DEF Reject, DataTypes, flags, counters, ring, call, history
  <2>3. \A s \in Threads : pc'[s] = IF s = t THEN Home(t) ELSE pc[s]
    BY <1>9, Zenon DEF Reject, Goto, DepthInv, DepthTypes
  <2>4. Home(t) \notin SubmitLabels
    BY Zenon DEF Home, SubmitLabels
  <2>5. Submitting'
    BY <2>2, <2>3, <2>4, Zenon DEF Submitting
  <2> QED
    BY <2>2, <2>5, Zenon
<1>10. CASE Write(t)
  <2>1. DataTypes' /\ UNCHANGED arg
    BY <1>10 DEF Write, DataTypes, flags, counters, ring, call, history
  <2>2. Submitting'
    BY <1>10, <2>1, SubmittingGoto, Zenon DEF Write, At, SubmitLabels
  <2> QED
    BY <2>1, <2>2, Zenon
<1>11. CASE Publish(t)
  <2>1. arg[t] \in Tasks
    BY <1>11, Zenon DEF Publish, At, Submitting, SubmitLabels
  <2>2. DataTypes' /\ UNCHANGED arg
    BY <1>11, <2>1, Zenon DEF Publish, DataTypes, flags, counters, ring, call, history
  <2>3. Submitting'
    BY <1>11, <2>2, SubmittingGoto, Zenon DEF Publish, At, SubmitLabels
  <2> QED
    BY <2>2, <2>3, Zenon
<1>12. CASE SignalTaskAvailable(t)
  <2>1. Return(t, "OK")
    BY <1>12, Zenon DEF SignalTaskAvailable
  <2>2. DataTypes' /\ (\A s \in Threads \ {t} : arg'[s] = arg[s])
    BY <1>12, <2>1, ReturnTypes, Zenon DEF SignalTaskAvailable, DataTypes, flags, counters, ring, call, history
  <2>3. \A s \in Threads : pc'[s] \in SubmitLabels => s # t /\ pc[s] \in SubmitLabels
    <3>1. Home(t) \notin SubmitLabels /\ pc[t] = "signal_task"
      BY <1>12, Zenon DEF Home, SubmitLabels, SignalTaskAvailable, At
    <3>2. CASE Goto(t, Home(t))
      BY <3>1, <3>2, Zenon DEF Goto, DepthInv, DepthTypes
    <3>3. ASSUME NEW u \in Threads, pc[u] = "wait_task",
                 pc' = [pc EXCEPT ![t] = Home(t), ![u] = "park_task"]
          PROVE  \A s \in Threads : pc'[s] \in SubmitLabels => s # t /\ pc[s] \in SubmitLabels
      BY <3>1, <3>3, Zenon DEF DepthInv, DepthTypes, SubmitLabels
    <3> QED
      BY <1>12, <3>2, <3>3, Zenon DEF SignalTaskAvailable, Signal
  <2>4. Submitting'
    BY <2>2, <2>3, Zenon DEF Submitting
  <2> QED
    BY <2>2, <2>4, Zenon
<1> QED
  BY <1>1, <1>2, <1>3, <1>4, <1>5, <1>6, <1>7, <1>8, <1>9, <1>10, <1>11, <1>12, Zenon DEF SubmitStep

(* worker_entry.                                                           *)
LEMMA WorkerTypes ==
  ASSUME TypeInv, NEW t \in Threads, WorkerStep(t)
  PROVE  DataTypes' /\ Submitting'
<1> USE DEF TypeInv
<1>1. CASE TakeTask(t)
  <2>1. DataTypes' /\ UNCHANGED arg
    BY <1>1, Zenon DEF TakeTask, Takeable, DataTypes, flags, counters, ring, call, history
  <2>2. Submitting'
    BY <1>1, <2>1, SubmittingGoto, Zenon DEF TakeTask, At, SubmitLabels
  <2> QED
    BY <2>1, <2>2, Zenon
<1>2. CASE TakeNone(t)
  <2>1. DataTypes' /\ UNCHANGED arg
    BY <1>2, DataFrame, Zenon DEF TakeNone
  <2>2. Submitting'
    BY <1>2, <2>1, SubmittingGoto, Zenon DEF TakeNone, At, SubmitLabels
  <2> QED
    BY <2>1, <2>2, Zenon
<1>3. CASE LoadShutdown(t)
  <2>1. DataTypes' /\ UNCHANGED arg
    BY <1>3, DataFrame, Zenon DEF LoadShutdown
  <2>2. Submitting'
    BY <1>3, <2>1, SubmittingGoto, Zenon DEF LoadShutdown, At, SubmitLabels
  <2> QED
    BY <2>1, <2>2, Zenon
<1>4. CASE ExitSubmitted(t)
  <2>1. DataTypes' /\ UNCHANGED arg
    BY <1>4, Zenon DEF ExitSubmitted, DataTypes, flags, counters, ring, call, history
  <2>2. Submitting'
    BY <1>4, <2>1, SubmittingGoto, Zenon DEF ExitSubmitted, At, SubmitLabels
  <2> QED
    BY <2>1, <2>2, Zenon
<1>5. CASE ExitSettled(t)
  <2>1. DataTypes' /\ UNCHANGED arg
    BY <1>5, Zenon DEF ExitSettled, DataTypes, flags, counters, ring, call, history
  <2>2. Submitting'
    BY <1>5, <2>1, SubmittingGoto, Zenon DEF ExitSettled, At, SubmitLabels
  <2> QED
    BY <2>1, <2>2, Zenon
<1>6. CASE ExitDepth(t)
  <2>1. DataTypes' /\ UNCHANGED arg
    BY <1>6, DataFrame, Zenon DEF ExitDepth
  <2>2. Submitting'
    BY <1>6, <2>1, SubmittingGoto, Zenon DEF ExitDepth, At, SubmitLabels
  <2> QED
    BY <2>1, <2>2, Zenon
<1>7. CASE Exit(t)
  <2>1. DataTypes' /\ UNCHANGED arg
    BY <1>7, DataFrame, Zenon DEF Exit
  <2>2. Submitting'
    BY <1>7, <2>1, SubmittingNotify, Zenon DEF Exit, SubmitLabels
  <2> QED
    BY <2>1, <2>2, Zenon
<1>8. CASE ParkTask(t)
  <2>1. DataTypes' /\ UNCHANGED arg
    BY <1>8, DataFrame, Zenon DEF ParkTask
  <2>2. Submitting'
    BY <1>8, <2>1, SubmittingGoto, Zenon DEF ParkTask, At, SubmitLabels
  <2> QED
    BY <2>1, <2>2, Zenon
<1>9. CASE LoadCancelPending(t)
  <2>1. DataTypes' /\ UNCHANGED arg
    BY <1>9, DataFrame, Zenon DEF LoadCancelPending
  <2>2. Submitting'
    BY <1>9, <2>1, SubmittingGoto, Zenon DEF LoadCancelPending, At, SubmitLabels
  <2> QED
    BY <2>1, <2>2, Zenon
<1>10. CASE CancelDescriptor(t)
  <2>1. <<"cancel", "finalize">> \in Seq({"run", "cancel", "finalize"})
    OBVIOUS
  <2>2. log' \in [Tasks -> Seq({"run", "cancel", "finalize"})]
    BY <1>10, <2>1, CallbackTypes, Zenon DEF CancelDescriptor
  <2>3. DataTypes' /\ UNCHANGED arg
    BY <1>10, <2>2, Zenon DEF CancelDescriptor, DataTypes, flags, counters, ring, call, history
  <2>4. Submitting'
    BY <1>10, <2>3, SubmittingGoto, Zenon DEF CancelDescriptor, At, SubmitLabels
  <2> QED
    BY <2>3, <2>4, Zenon
<1>11. CASE ReleaseQueueSlot(t, "cancel_release", "cancel_signal")
  <2>1. DataTypes' /\ UNCHANGED arg
    BY <1>11, Zenon DEF ReleaseQueueSlot, DataTypes, flags, counters, ring, call, history
  <2>2. Submitting'
    BY <1>11, <2>1, SubmittingGoto, Zenon DEF ReleaseQueueSlot, At, SubmitLabels
  <2> QED
    BY <2>1, <2>2, Zenon
<1>12. CASE SignalQueueSpace(t, "cancel_signal", "cancel_count")
  <2>1. DataTypes' /\ UNCHANGED arg
    BY <1>12, DataFrame, Zenon DEF SignalQueueSpace
  <2>2. Submitting'
    BY <1>12, <2>1, SubmittingSignal, Zenon DEF SignalQueueSpace, At, SubmitLabels
  <2> QED
    BY <2>1, <2>2, Zenon
<1>13. CASE CancelTask(t)
  <2>3. task' \in [Workers -> Tasks \cup {NoTask}]
    BY <1>13, Zenon DEF CancelTask, DataTypes
  <2>4. tasks_cancelled' \in Nat
    BY <1>13 DEF CancelTask, DataTypes
  <2>1. DataTypes' /\ UNCHANGED arg
    BY <1>13, <2>3, <2>4, Zenon DEF CancelTask, DataTypes, flags, counters, ring, call, history
  <2>2. Submitting'
    BY <1>13, <2>1, SubmittingGoto, Zenon DEF CancelTask, At, SubmitLabels
  <2> QED
    BY <2>1, <2>2, Zenon
<1>14. CASE ReleaseQueueSlot(t, "start", "start_signal")
  <2>1. DataTypes' /\ UNCHANGED arg
    BY <1>14, Zenon DEF ReleaseQueueSlot, DataTypes, flags, counters, ring, call, history
  <2>2. Submitting'
    BY <1>14, <2>1, SubmittingGoto, Zenon DEF ReleaseQueueSlot, At, SubmitLabels
  <2> QED
    BY <2>1, <2>2, Zenon
<1>15. CASE SignalQueueSpace(t, "start_signal", "call_run")
  <2>1. DataTypes' /\ UNCHANGED arg
    BY <1>15, DataFrame, Zenon DEF SignalQueueSpace
  <2>2. Submitting'
    BY <1>15, <2>1, SubmittingSignal, Zenon DEF SignalQueueSpace, At, SubmitLabels
  <2> QED
    BY <2>1, <2>2, Zenon
<1>16. CASE Run(t)
  <2>1. <<"run">> \in Seq({"run", "cancel", "finalize"})
    OBVIOUS
  <2>2. log' \in [Tasks -> Seq({"run", "cancel", "finalize"})]
    BY <1>16, <2>1, CallbackTypes, Zenon DEF Run
  <2>3. DataTypes' /\ UNCHANGED arg
    BY <1>16, <2>2, Zenon DEF Run, DataTypes, flags, counters, ring, call, history
  <2>4. Submitting'
    BY <1>16, <2>3, SubmittingGoto, Zenon DEF Run, At, SubmitLabels
  <2> QED
    BY <2>3, <2>4, Zenon
<1>17. CASE Finalize(t)
  <2>1. <<"finalize">> \in Seq({"run", "cancel", "finalize"})
    OBVIOUS
  <2>2. log' \in [Tasks -> Seq({"run", "cancel", "finalize"})]
    BY <1>17, <2>1, CallbackTypes, Zenon DEF Finalize
  <2>3. DataTypes' /\ UNCHANGED arg
    BY <1>17, <2>2, Zenon DEF Finalize, DataTypes, flags, counters, ring, call, history
  <2>4. Submitting'
    BY <1>17, <2>3, SubmittingGoto, Zenon DEF Finalize, At, SubmitLabels
  <2> QED
    BY <2>3, <2>4, Zenon
<1>18. CASE FinishTask(t)
  <2>3. task' \in [Workers -> Tasks \cup {NoTask}]
    BY <1>18, Zenon DEF FinishTask, DataTypes
  <2>4. tasks_completed' \in Nat
    BY <1>18 DEF FinishTask, DataTypes
  <2>1. DataTypes' /\ UNCHANGED arg
    BY <1>18, <2>3, <2>4, Zenon DEF FinishTask, DataTypes, flags, counters, ring, call, history
  <2>2. Submitting'
    BY <1>18, <2>1, SubmittingGoto, Zenon DEF FinishTask, At, SubmitLabels
  <2> QED
    BY <2>1, <2>2, Zenon
<1>19. CASE Notify(t)
  <2>1. DataTypes' /\ UNCHANGED arg
    BY <1>19, DataFrame, Zenon DEF Notify
  <2>2. Submitting'
    BY <1>19, <2>1, SubmittingNotify, Zenon DEF Notify, SubmitLabels
  <2> QED
    BY <2>1, <2>2, Zenon
<1> QED
  BY <1>1, <1>2, <1>3, <1>4, <1>5, <1>6, <1>7, <1>8, <1>9, <1>10, <1>11, <1>12, <1>13, <1>14, <1>15, <1>16, <1>17, <1>18, <1>19, Zenon DEF WorkerStep

(* The calls, wait_status, shutdown and the wakeups.                       *)
LEMMA OtherTypes ==
  ASSUME TypeInv, NEW t \in Threads,
         Calls(t) \/ WaitStep(t) \/ ShutdownStep(t) \/ SpuriousWakeup(t)
  PROVE  DataTypes' /\ Submitting'
<1> USE DEF TypeInv
<1>1. ASSUME NEW k \in Tasks, NEW b \in BOOLEAN, Submit(t, k, b)
      PROVE  DataTypes' /\ Submitting'
  <2>1. DataTypes' /\ arg' = [arg EXCEPT ![t] = k]
    BY <1>1, Zenon DEF Submit, DataTypes, flags, counters, ring, call, history
  <2>2. \A s \in Threads : pc'[s] = IF s = t THEN "check" ELSE pc[s]
    BY <1>1, Zenon DEF Submit, Goto, DepthInv, DepthTypes
  <2>3. Submitting'
    BY <2>1, <2>2, Zenon DEF Submitting, DataTypes
  <2> QED
    BY <2>1, <2>3, Zenon
<1>2. CASE WaitStatus(t)
  <2>1. DataTypes' /\ UNCHANGED arg
    BY <1>2, DataFrame, Zenon DEF WaitStatus
  <2>2. Submitting'
    BY <1>2, <2>1, SubmittingGoto, Zenon DEF WaitStatus, At, SubmitLabels
  <2> QED
    BY <2>1, <2>2, Zenon
<1>3. ASSUME NEW p \in Policies, Shutdown(t, p)
      PROVE  DataTypes' /\ Submitting'
  <2>1. DataTypes' /\ UNCHANGED arg
    BY <1>3, Zenon DEF Shutdown, DataTypes, flags, counters, ring, call, history
  <2>2. Submitting'
    <3>1. CASE Goto(t, "sd_accepting")
      BY <2>1, <3>1, SubmittingGoto, Zenon DEF SubmitLabels
    <3>2. CASE UNCHANGED pc
      BY <2>1, <3>2, SubmittingFrame, Zenon
    <3> QED
      BY <1>3, <3>1, <3>2, Zenon DEF Shutdown
  <2> QED
    BY <2>1, <2>2, Zenon
<1>4. CASE WaitSubmitted(t)
  <2>1. DataTypes' /\ UNCHANGED arg
    BY <1>4, Zenon DEF WaitSubmitted, DataTypes, flags, counters, ring, call, history
  <2>2. Submitting'
    BY <1>4, <2>1, SubmittingGoto, Zenon DEF WaitSubmitted, At, SubmitLabels
  <2> QED
    BY <2>1, <2>2, Zenon
<1>5. CASE WaitSettled(t)
  <2>1. DataTypes' /\ UNCHANGED arg
    BY <1>5, DataFrame, Zenon DEF WaitSettled
  <2>2. Submitting'
    BY <1>5, <2>1, SubmittingGoto, Zenon DEF WaitSettled, At, SubmitLabels
  <2> QED
    BY <2>1, <2>2, Zenon
<1>6. CASE WaitReturn(t)
  <2>1. DataTypes' /\ UNCHANGED arg
    BY <1>6, Zenon DEF WaitReturn, DataTypes, flags, counters, ring, call, history
  <2>2. Submitting'
    BY <1>6, <2>1, SubmittingGoto, Zenon DEF WaitReturn, At, SubmitLabels
  <2> QED
    BY <2>1, <2>2, Zenon
<1>7. CASE ShutdownAccepting(t)
  <2>1. DataTypes' /\ UNCHANGED arg
    BY <1>7, Zenon DEF ShutdownAccepting, DataTypes, flags, counters, ring, call, history
  <2>2. Submitting'
    BY <1>7, <2>1, SubmittingGoto, Zenon DEF ShutdownAccepting, At, SubmitLabels
  <2> QED
    BY <2>1, <2>2, Zenon
<1>8. CASE ShutdownCancel(t)
  <2>1. DataTypes' /\ UNCHANGED arg
    BY <1>8, Zenon DEF ShutdownCancel, DataTypes, flags, counters, ring, call, history
  <2>2. Submitting'
    BY <1>8, <2>1, SubmittingGoto, Zenon DEF ShutdownCancel, At, SubmitLabels
  <2> QED
    BY <2>1, <2>2, Zenon
<1>9. CASE ShutdownFlag(t)
  <2>1. DataTypes' /\ UNCHANGED arg
    BY <1>9, Zenon DEF ShutdownFlag, DataTypes, flags, counters, ring, call, history
  <2>2. Submitting'
    BY <1>9, <2>1, SubmittingGoto, Zenon DEF ShutdownFlag, At, SubmitLabels
  <2> QED
    BY <2>1, <2>2, Zenon
<1>10. CASE ShutdownBroadcast(t)
  <2>1. DataTypes' /\ UNCHANGED arg
    BY <1>10, DataFrame, Zenon DEF ShutdownBroadcast
  <2>2. \A s \in Threads : \/ pc'[s] = pc[s]
                           \/ s = t /\ pc'[s] = "sd_notify"
                           \/ pc[s] = "wait_task" /\ pc'[s] = "park_task"
                           \/ pc[s] = "wait_space" /\ pc'[s] = "park_space"
    BY <1>10 DEF ShutdownBroadcast
  <2>3. Submitting'
    BY <2>1, <2>2, SubmittingFrame, Zenon DEF SubmitLabels
  <2> QED
    BY <2>1, <2>3, Zenon
<1>11. CASE ShutdownNotify(t)
  <2>1. DataTypes' /\ UNCHANGED arg
    BY <1>11, Zenon DEF ShutdownNotify, DataTypes, flags, counters, ring, call, history
  <2>2. Home(t) \notin SubmitLabels
    BY Zenon DEF Home, SubmitLabels
  <2>3. Submitting'
    BY <1>11, <2>1, <2>2, SubmittingNotify, Zenon DEF ShutdownNotify
  <2> QED
    BY <2>1, <2>3, Zenon
<1>12. CASE Join(t)
  <2>1. DataTypes' /\ UNCHANGED arg
    BY <1>12, DataFrame, Zenon DEF Join
  <2>2. Submitting'
    BY <1>12, <2>1, SubmittingGoto, Zenon DEF Join, At, SubmitLabels
  <2> QED
    BY <2>1, <2>2, Zenon
<1>13. CASE SpuriousWakeup(t)
  <2>1. DataTypes' /\ UNCHANGED arg
    BY <1>13, DataFrame, Zenon DEF SpuriousWakeup
  <2>2. Submitting'
    BY <1>13, <2>1, SubmittingGoto, Zenon DEF SpuriousWakeup, At, SubmitLabels
  <2> QED
    BY <2>1, <2>2, Zenon
<1> QED
  BY <1>1, <1>2, <1>3, <1>4, <1>5, <1>6, <1>7, <1>8, <1>9, <1>10, <1>11, <1>12, <1>13, Zenon
     DEF Calls, WaitStep, ShutdownStep

(* The pool's fields and the threads' locals keep their types.  TypeInv is *)
(* inductive: DepthInv types what the queue accounting is about.           *)
THEOREM TypeCorrect == Spec => []TypeOK
<1>1. Init => TypeInv
  <2> SUFFICES ASSUME Init PROVE TypeInv
    BY Zenon
  <2>1. DepthInv
    BY InitDepth, Zenon
  <2>2. DataTypes
    <3>1. << >> \in Seq({"run", "cancel", "finalize"})
      OBVIOUS
    <3>2. log \in [Tasks -> Seq({"run", "cancel", "finalize"})]
      BY <3>1, Zenon DEF Init
    <3>3. /\ arg \in [Threads -> Tasks \cup {NoTask}]
          /\ task \in [Workers -> Tasks \cup {NoTask}]
          /\ policy \in [Threads -> Policies \cup {NoPolicy}]
          /\ reg \in [Threads -> Nat]
          /\ result \in [Tasks -> {"new", "called", "OK"} \cup Refusals]
      BY Zenon DEF Init
    <3>4. blocking \in [Threads -> BOOLEAN]
      BY Zenon DEF Init
    <3> QED
      BY <3>2, <3>3, <3>4, Zenon DEF Init, DataTypes
  <2>3. Submitting
    BY Zenon DEF Init, Submitting, SubmitLabels
  <2> QED
    BY <2>1, <2>2, <2>3, Zenon DEF TypeInv
<1>2. TypeInv /\ [Next]_vars => TypeInv'
  <2> SUFFICES ASSUME TypeInv, [Next]_vars PROVE TypeInv'
    BY Zenon
  <2>1. DepthInv'
    BY StepDepth, Zenon DEF TypeInv
  <2>2. CASE UNCHANGED vars
    <3>1. UNCHANGED <<pc, data>>
      BY <2>2, Zenon DEF vars
    <3>2. DataTypes' /\ UNCHANGED arg
      BY <3>1, DataFrame, Zenon DEF TypeInv
    <3>3. Submitting'
      BY <3>1, <3>2, SubmittingFrame, Zenon DEF TypeInv
    <3> QED
      BY <2>1, <3>2, <3>3, Zenon DEF TypeInv
  <2>3. CASE Next
    BY <2>1, <2>3, SubmitTypes, WorkerTypes, OtherTypes, Zenon DEF Next, Step, TypeInv
  <2> QED
    BY <2>2, <2>3, Zenon
<1>3. TypeInv => TypeOK
  BY Zenon DEF TypeInv, DepthInv, DepthTypes, DataTypes, TypeOK
<1> QED
  BY <1>1, <1>2, <1>3, PTL DEF Spec

=============================================================================
