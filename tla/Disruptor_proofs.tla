-------------------------- MODULE Disruptor_proofs --------------------------
(***************************************************************************)
(* Theorems about Disruptor.                                               *)
(***************************************************************************)
EXTENDS Disruptor_claims, Disruptor_queue

(* The invariant holds at the start.                                       *)
LEMMA InitRing == Init => RingInv
<1> SUFFICES ASSUME Init PROVE RingInv
  BY Zenon
<1>0. Capacity \in Nat \ {0} /\ MaxSequence \in Nat /\ Publishers \subseteq Threads /\ Workers \subseteq Threads
  BY CapacityAssumption, BoundAssumption, Zenon DEF Threads
<1>1. Roles
  <2>1. << >> \in Seq(Stores)
    OBVIOUS
  <2>2. keep_running \in BOOLEAN /\ waits \in [Threads -> BOOLEAN]
    BY Zenon DEF Init
  <2> QED
    BY <1>0, <2>1, <2>2, Zenon DEF Init, Roles, Labels, PublisherLabels, WorkerLabels, StopperLabels, Threads
<1>2. Parking
  <2>1. Waiting = {}
    BY <1>0, Zenon DEF Init, Waiting
  <2>2. Cardinality({}) = 0
    BY FS_EmptySet, Zenon
  <2> QED
    BY <1>0, <2>1, <2>2, Zenon DEF Init, Parking
<1>3. Marking
  BY <1>0 DEF Init, Marking, Lane, Probing
<1>4. PublishedSet = {} /\ DoneSet = {}
  BY InitSets, Zenon
<1>5. Owning
  <2>1. /\ \A p \in Publishers : Unpublished(p) = {}
        /\ \A w \in Workers : Held(w) = {}
    BY <1>0, Zenon DEF Init, Unpublished, Held
  <2> QED
    BY <1>0, <1>4, <2>1 DEF Init, Owning, CursorsOrdered
<1>6. Claiming
  BY <1>0 DEF Init, Claiming
<1> QED
  BY <1>1, <1>2, <1>3, <1>5, <1>6, Zenon DEF RingInv

(* Every step keeps the invariant.                                         *)
LEMMA NextRing == RingInv /\ [Next]_vars => RingInv'
<1> SUFFICES ASSUME RingInv, [Next]_vars PROVE RingInv'
  BY Zenon
<1>1. CASE UNCHANGED vars
  <2>1. UNCHANGED <<cursors, memory, sb, pc, first, last, waits, reg, probe, worker_waiters, wait_mutex, keep_running>>
    BY <1>1, Zenon DEF vars, parking, locals
  <2>2. Roles'
    BY <2>1, Zenon DEF RingInv, Roles, cursors, memory
  <2>3. Parking'
    BY <2>1, ParkingFrame, Zenon DEF RingInv
  <2>4. Marking'
    BY <2>1, MarkingFrame, Zenon DEF RingInv
  <2>5. Owning'
    BY <2>1, OwningFrame, Zenon DEF RingInv, Unpublished, Held
  <2>6. Claiming'
    BY <2>1, Zenon DEF RingInv, Claiming, cursors
  <2> QED
    BY <2>2, <2>3, <2>4, <2>5, <2>6, Zenon DEF RingInv
<1>2. CASE Next
  <2>1. PICK t \in Threads : Flush(t) \/ Step(t) \/ Calls(t) \/ SpuriousWakeup(t)
    BY <1>2, Zenon DEF Next
  <2>2. CASE Flush(t)
    BY <2>2, FlushInv, Zenon
  <2>3. CASE SpuriousWakeup(t)
    BY <2>3, WokenInv, Zenon
  <2>4. CASE Calls(t)
    <3>1. CASE t \in Publishers /\ \E n \in Counts : TryClaim(t, n) \/ ClaimBlocking(t, n)
      BY <3>1, TryClaimInv, ClaimBlockingInv, Zenon
    <3>2. CASE Park(t)
      BY <3>2, ParkInv, Zenon
    <3>3. CASE Stop(t)
      BY <3>3, StopInv, Zenon
    <3> QED
      BY <2>4, <3>1, <3>2, <3>3, Zenon DEF Calls
  <2>5. CASE PublisherStep(t)
    <3>1. CASE CheckCapacity(t)
      BY <3>1, CheckCapacityInv, Zenon
    <3>2. CASE Refresh(t)
      BY <3>2, RefreshInv, Zenon
    <3>3. CASE RefreshCached(t)
      BY <3>3, RefreshCachedInv, Zenon
    <3>4. CASE ClaimCas(t)
      BY <3>4, ClaimCasInv, Zenon
    <3>5. CASE \E b \in BOOLEAN : Write(t, b)
      BY <3>5, WriteInv, Zenon
    <3>6. CASE Publish(t)
      BY <3>6, PublishInv, Zenon
    <3>7. CASE MarkPublished(t)
      BY <3>7, MarkPublishedInv, Zenon
    <3>8. CASE Visible(t)
      BY <3>8, VisibleInv, Zenon
    <3>9. CASE AdvancePublished(t)
      BY <3>9, AdvancePublishedInv, Zenon
    <3> QED
      BY <2>5, <3>1, <3>2, <3>3, <3>4, <3>5, <3>6, <3>7, <3>8, <3>9, Zenon DEF PublisherStep
  <2>6. CASE WorkerStep(t)
    <3>1. CASE LoadClaim(t)
      BY <3>1, LoadClaimInv, Zenon
    <3>2. CASE LoadAvailable(t)
      BY <3>2, LoadAvailableInv, Zenon
    <3>3. CASE WorkerCas(t)
      BY <3>3, WorkerCasInv, Zenon
    <3>4. CASE KeepRunning(t)
      BY <3>4, KeepRunningInv, Zenon
    <3>5. CASE Woken(t)
      BY <3>5, WokenInv, Zenon
    <3>6. CASE Leave(t)
      BY <3>6, LeaveInv, Zenon
    <3>7. CASE Release(t)
      BY <3>7, ReleaseInv, Zenon
    <3>8. CASE AdvanceCompleted(t)
      BY <3>8, AdvanceCompletedInv, Zenon
    <3> QED
      BY <2>6, <3>1, <3>2, <3>3, <3>4, <3>5, <3>6, <3>7, <3>8, Zenon DEF WorkerStep
  <2>7. CASE LoadCursor(t)
    BY <2>7, LoadCursorInv, Zenon
  <2>8. CASE ProbeNext(t)
    BY <2>8, ProbeNextInv, Zenon
  <2>9. CASE ProbeEnd(t)
    BY <2>9, ProbeEndInv, Zenon
  <2>10. CASE Notify(t)
    BY <2>10, NotifyInv, Zenon
  <2>11. CASE Broadcast(t)
    BY <2>11, BroadcastInv, Zenon
  <2> QED
    BY <2>1, <2>2, <2>3, <2>4, <2>5, <2>6, <2>7, <2>8, <2>9, <2>10, <2>11, Zenon DEF Step
<1> QED
  BY <1>1, <1>2, Zenon

(* The invariant that carries the rest.                                    *)
LEMMA RingAlways == Spec => []RingInv
BY InitRing, NextRing, PTL DEF Spec

-----------------------------------------------------------------------------
(* The safety theorems.                                                    *)

(* Visible means published, complete means released: whatever the number   *)
(* of threads and the delays of their stores, the cursors never cross, and *)
(* what max_read_cursor or worker_completed_cursor covers is owned by no   *)
(* publisher or worker any more.                                           *)
THEOREM CursorsAlwaysCover == Spec => []CursorsCover
<1>1. RingInv => CursorsCover
  <2> SUFFICES ASSUME RingInv PROVE CursorsCover
    BY Zenon
  <2>1. TypeOK
    <3>1. worker_waiters \in Nat /\ wait_mutex \in SUBSET Workers
      BY FiniteWaiting, Zenon DEF RingInv, Parking
    <3> QED
      BY <3>1, Zenon DEF RingInv, Roles, TypeOK, Stores
  <2>2. ASSUME NEW p \in Publishers, NEW s \in Unpublished(p)
        PROVE  s > max_read_cursor
    <3>1. s \in 1..write_cursor /\ s \notin 1..max_read_cursor
      BY Zenon DEF RingInv, Owning, PublishedSet
    <3> QED
      BY <3>1 DEF RingInv, Roles
  <2>3. ASSUME NEW w \in Workers, NEW s \in Held(w)
        PROVE  s > worker_completed_cursor
    <3>1. s \in 1..(worker_claim_cursor - 1) /\ s \notin 1..worker_completed_cursor
      BY Zenon DEF RingInv, Owning, DoneSet
    <3> QED
      BY <3>1 DEF RingInv, Roles
  <2> QED
    BY <2>1, <2>2, <2>3, Zenon DEF CursorsCover, RingInv, Owning
<1> QED
  BY <1>1, RingAlways, PTL

(* An entry of the ring is never written by two publishers, or written     *)
(* while a worker reads it, in any interleaving, with any delay of stores: *)
(* a publisher only writes inside the window of Capacity sequence numbers  *)
(* after worker_completed_cursor.                                          *)
THEOREM EntriesAlwaysExclusive == Spec => []EntryExclusive
BY EntriesApart, RingAlways, PTL

(* No wakeup is lost: a worker that sleeps in worker_claim_wait while an   *)
(* entry is visible and unclaimed, or after keep_running has turned false, *)
(* has a publisher or a stopper that has not yet decided whether to        *)
(* broadcast.  The argument needs that worker_waiters counts the sleepers  *)
(* and that worker_notify takes worker_wait_mutex.                         *)
THEOREM SleepersAlwaysWoken == Spec => []SleepersWoken
<1>1. Init => Waking
  <2> SUFFICES ASSUME Init PROVE Waking
    BY Zenon
  <2>1. \A w \in Workers : pc[w] = "idle"
    BY Zenon DEF Init, Threads
  <2> QED
    BY <2>1, Zenon DEF Waking
<1>2. RingInv /\ Waking => SleepersWoken
  BY Zenon DEF RingInv, Parking, Waking, Wakers, SleepersWoken
<1>3. RingInv /\ Waking /\ [Next]_vars => Waking'
  <2> SUFFICES ASSUME RingInv, Waking, [Next]_vars PROVE Waking'
    BY Zenon
  <2>1. worker_waiters = 0 => Waiting = {}
    BY FiniteWaiting, FS_EmptySet, Zenon DEF RingInv, Parking
  <2> QED
    BY <2>1, NextWaking, Zenon
<1> QED
  BY <1>1, <1>2, <1>3, RingAlways, PTL DEF Spec

(* The disruptor in worker-pool mode implements the abstract work queue:   *)
(* each sequence number is claimed, published, handed to one worker and    *)
(* completed once, workers get them in order, and an entry of the ring is  *)
(* filled again only after everything a lap before it is complete.         *)
THEOREM RingImplementsQueue == Spec => ImplementsQueue
<1>1. Queue!Spec <=> Queue!Init /\ [][Queue!Next]_(Queue!vars)
  BY Zenon DEF Queue!Spec
<1> QED
  BY <1>1, InitQueue, QueueStep, RingAlways, PTL DEF Spec, ImplementsQueue
=============================================================================
