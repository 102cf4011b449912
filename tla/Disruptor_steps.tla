-------------------------- MODULE Disruptor_steps ---------------------------
(***************************************************************************)
(* The steps of Disruptor that neither store marks nor claim keep the      *)
(* invariant; ranges change hands.                                         *)
(***************************************************************************)
EXTENDS Disruptor_invariant, TLAPS

-----------------------------------------------------------------------------
(* Steps that disturb little.                                              *)

(* A step of a thread that is no worker.                                   *)
LEMMA ParkingFrame ==
  ASSUME Parking, UNCHANGED <<worker_waiters, wait_mutex>>,
         \A w \in Workers : pc'[w] = pc[w] /\ waits'[w] = waits[w]
  PROVE  Parking'
<1>1. Waiting' = Waiting
  BY Zenon DEF Waiting
<1> QED
  BY <1>1, Zenon DEF Parking

(* A step of one worker that neither takes nor gives up the mutex.         *)
LEMMA WorkerFrame ==
  ASSUME Parking, UNCHANGED <<worker_waiters, wait_mutex, waits>>, NEW w \in Workers,
         \A v \in Workers \ {w} : pc'[v] = pc[v],
         \/ /\ pc[w] \in {"parking", "available", "worker_cas", "keep"}
            /\ pc'[w] \in {"available", "worker_cas", "keep"}
         \/ /\ pc[w] \in {"idle", "available", "worker_cas", "keep", "read", "advance", "probe", "advance_cas"}
            /\ pc'[w] \in {"idle", "available", "worker_cas", "keep", "stopped", "read", "advance", "probe", "advance_cas"}
            /\ ~waits[w]
  PROVE  Parking'
<1>1. Waiting' = Waiting
  BY Zenon DEF Waiting
<1> QED
  BY <1>1 DEF Parking

(* The sets of published and of completed entries depend on the cursors,   *)
(* on memory and on the buffers.                                           *)
LEMMA SetsFrame ==
  ASSUME UNCHANGED <<max_read_cursor, worker_completed_cursor, memory, sb>>
  PROVE  PublishedSet' = PublishedSet /\ DoneSet' = DoneSet
BY DEF memory, PublishedSet, DoneSet, Buffers, Slotted

(* A step that touches neither cursors, nor arrays, nor buffers; nobody    *)
(* comes to own an entry or starts to probe.                               *)
LEMMA OwningFrame ==
  ASSUME Owning, UNCHANGED <<cursors, memory, sb>>,
         \A p \in Publishers : Unpublished(p)' \subseteq Unpublished(p),
         \A w \in Workers : Held(w)' \subseteq Held(w)
  PROVE  Owning'
<1>1. PublishedSet' = PublishedSet /\ DoneSet' = DoneSet
  BY SetsFrame, Zenon DEF cursors
<1> QED
  BY <1>1, Zenon DEF Owning, CursorsOrdered, cursors, memory

(* Marks and what was probed of them stay when no cursor that covers them, *)
(* no mark and no buffer changes, and nobody starts to probe.              *)
LEMMA MarkingKept ==
  ASSUME Marking, UNCHANGED <<max_read_cursor, worker_completed_cursor, memory, sb>>,
         \A u \in Threads : pc'[u] \in {"probe", "advance_cas"} =>
           pc[u] \in {"probe", "advance_cas"} /\ reg'[u] = reg[u] /\ probe'[u] = probe[u]
  PROVE  Marking'
<1>1. Publishers \subseteq Threads /\ Workers \subseteq Threads
  BY Zenon DEF Threads
<1> QED
  BY <1>1 DEF Marking, Lane, Probing, Seen, memory

(* The same, when all cursors stay.                                        *)
LEMMA MarkingFrame ==
  ASSUME Marking, UNCHANGED <<cursors, memory, sb>>,
         \A u \in Threads : pc'[u] \in {"probe", "advance_cas"} =>
           pc[u] \in {"probe", "advance_cas"} /\ reg'[u] = reg[u] /\ probe'[u] = probe[u]
  PROVE  Marking'
BY MarkingKept, Zenon DEF cursors

-----------------------------------------------------------------------------
(* Who makes a step.                                                       *)

(* Only publishers reach the labels of try_claim_range_internal,           *)
(* claim_range_blocking_internal and publish_range_internal.               *)
LEMMA PublisherAt ==
  ASSUME Roles, NEW t \in Threads,
         pc[t] \in {"capacity", "refresh", "refresh_cached", "claim_cas", "write", "publish", "mark", "visible"}
  PROVE  t \in Publishers /\ t \notin Workers
BY Zenon DEF Roles, Threads, PublisherLabels, WorkerLabels, StopperLabels

(* Only workers reach the labels of worker_try_claim,                      *)
(* worker_claim_blocking and worker_release.                               *)
LEMMA WorkerAt ==
  ASSUME Roles, NEW t \in Threads,
         pc[t] \in {"parking", "available", "worker_cas", "keep", "parked", "woken", "leave", "read"}
  PROVE  t \in Workers /\ t \notin Publishers
BY Zenon DEF Roles, Threads, PublisherLabels, WorkerLabels, StopperLabels

(* Publishers and the owner of the workers run worker_notify.              *)
LEMMA NotifierAt ==
  ASSUME Roles, NEW t \in Threads, pc[t] \in {"notify", "broadcast"}
  PROVE  t \in Publishers \cup Stoppers /\ t \notin Workers
BY Zenon DEF Roles, Threads, PublisherLabels, WorkerLabels, StopperLabels

(* Publishers and workers advance a cursor, never both at once.            *)
LEMMA ProberAt ==
  ASSUME Roles, NEW t \in Threads, pc[t] \in {"advance", "probe", "advance_cas"}
  PROVE  \/ t \in Publishers /\ t \notin Workers
         \/ t \in Workers /\ t \notin Publishers
BY ThreadsAssumption, Zenon DEF Roles, Threads, PublisherLabels, WorkerLabels, StopperLabels

-----------------------------------------------------------------------------
(* Publishers.                                                             *)

(* try_claim_range_internal, loading the write cursor, keeps the           *)
(* invariant.                                                              *)
LEMMA TryClaimInv ==
  ASSUME RingInv, NEW t \in Publishers, NEW n \in Counts, TryClaim(t, n)
  PROVE  RingInv'
<1> USE CountsAssumption, CapacityAssumption
<1> Roles /\ Parking /\ Marking /\ Owning /\ Claiming
  BY Zenon DEF RingInv
<1>0. t \in Threads /\ t \notin Workers /\ n \in Nat /\ n >= 1
  BY ThreadsAssumption DEF Threads
<1>1. Roles'
  BY <1>0, ThreadsAssumption
     DEF TryClaim, Roles, At, Goto, Labels, PublisherLabels, cursors, memory, parking, Threads
<1>2. Parking'
  BY <1>0, ParkingFrame, Zenon DEF TryClaim, Roles, Goto, parking, Threads
<1>3. Marking'
  BY <1>0, MarkingFrame, Zenon DEF TryClaim, Roles, At, Goto
<1>4. Owning'
  BY <1>0, OwningFrame, ThreadsAssumption, Zenon
     DEF TryClaim, Roles, Claiming, At, Goto, Unpublished, Held, Threads
<1>5. Claiming'
  BY <1>0, ThreadsAssumption DEF TryClaim, Claiming, Roles, At, Goto, Threads, cursors
<1> QED
  BY <1>1, <1>2, <1>3, <1>4, <1>5, Zenon DEF RingInv

(* refresh_slowest_reader, loading the completed cursor, keeps the         *)
(* invariant.                                                              *)
LEMMA RefreshInv ==
  ASSUME RingInv, NEW t \in Threads, Refresh(t)
  PROVE  RingInv'
<1> Roles /\ Parking /\ Marking /\ Owning /\ Claiming
  BY Zenon DEF RingInv
<1>0. t \in Publishers /\ t \notin Workers
  BY PublisherAt, Zenon DEF Refresh, At
<1>1. Roles'
  <2>1. /\ pc' \in [Threads -> Labels] /\ pc'[t] = "refresh_cached" /\ reg' \in [Threads -> Nat]
        /\ \A u \in Threads \ {t} : pc'[u] = pc[u] /\ reg'[u] = reg[u]
    BY Zenon DEF Refresh, Roles, Goto, Labels
  <2> QED
    BY <1>0, <2>1, ThreadsAssumption, Zenon
       DEF Refresh, Roles, Threads, PublisherLabels, cursors, memory, parking
<1>2. Parking'
  BY <1>0, ParkingFrame, Zenon DEF Refresh, Roles, Goto, parking, Threads
<1>3. Marking'
  BY <1>0, MarkingFrame, Zenon DEF Refresh, Roles, At, Goto
<1>4. Owning'
  BY <1>0, OwningFrame, ThreadsAssumption, Zenon
     DEF Refresh, Roles, At, Goto, Unpublished, Held, Threads
<1>5. Claiming'
  BY <1>0, ThreadsAssumption DEF Refresh, Claiming, Roles, At, Goto, Threads, cursors
<1> QED
  BY <1>1, <1>2, <1>3, <1>4, <1>5, Zenon DEF RingInv

(* Writing the claimed entries keeps the invariant.                        *)
LEMMA WriteInv ==
  ASSUME RingInv, NEW t \in Threads, NEW b \in BOOLEAN, Write(t, b)
  PROVE  RingInv'
<1> Roles /\ Parking /\ Marking /\ Owning /\ Claiming
  BY Zenon DEF RingInv
<1>0. t \in Publishers /\ t \notin Workers
  BY PublisherAt, Zenon DEF Write, At
<1>1. Roles'
  BY <1>0, ThreadsAssumption
     DEF Write, Roles, At, Goto, Labels, PublisherLabels, cursors, memory, parking
<1>2. Parking'
  BY <1>0, ParkingFrame, Zenon DEF Write, Roles, Goto, parking, Threads
<1>3. Marking'
  BY <1>0, MarkingFrame, Zenon DEF Write, Roles, At, Goto
<1>4. Owning'
  BY <1>0, OwningFrame, ThreadsAssumption, Zenon
     DEF Write, Roles, At, Goto, Unpublished, Held, Threads
<1>5. Claiming'
  BY <1>0, ThreadsAssumption, Zenon DEF Write, Claiming, Roles, At, Goto, Threads, cursors
<1> QED
  BY <1>1, <1>2, <1>3, <1>4, <1>5, Zenon DEF RingInv

(* Looking whether the range is visible keeps the invariant.               *)
LEMMA VisibleInv ==
  ASSUME RingInv, NEW t \in Threads, Visible(t)
  PROVE  RingInv'
<1> Roles /\ Parking /\ Marking /\ Owning /\ Claiming
  BY Zenon DEF RingInv
<1>0. t \in Publishers /\ t \notin Workers
  BY PublisherAt, Zenon DEF Visible, At
<1>1. Roles'
  <2>1. /\ pc' \in [Threads -> Labels] /\ pc'[t] \in {"notify", "advance"}
        /\ \A u \in Threads \ {t} : pc'[u] = pc[u]
    BY Zenon DEF Visible, Roles, Goto, Labels
  <2> QED
    BY <1>0, <2>1, ThreadsAssumption, Zenon
       DEF Visible, Roles, Threads, PublisherLabels, cursors, memory, parking, locals
<1>2. Parking'
  BY <1>0, ParkingFrame, Zenon DEF Visible, Roles, Goto, parking, locals, Threads
<1>3. Marking'
  BY <1>0, MarkingFrame, Zenon DEF Visible, Roles, At, Goto, locals
<1>4. Owning'
  BY <1>0, OwningFrame, ThreadsAssumption, Zenon
     DEF Visible, Roles, At, Goto, Unpublished, Held, Threads, locals
<1>5. Claiming'
  BY <1>0, ThreadsAssumption, Zenon DEF Visible, Claiming, Roles, At, Goto, Threads, cursors, locals
<1> QED
  BY <1>1, <1>2, <1>3, <1>4, <1>5, Zenon DEF RingInv

-----------------------------------------------------------------------------
(* Probing, by publishers and by workers.                                  *)

(* Loading the cursor to advance keeps the invariant: nothing has been     *)
(* probed yet.                                                             *)
LEMMA LoadCursorInv ==
  ASSUME RingInv, NEW t \in Threads, LoadCursor(t)
  PROVE  RingInv'
<1> Roles /\ Parking /\ Marking /\ Owning /\ Claiming
  BY Zenon DEF RingInv
<1>0. \/ t \in Publishers /\ t \notin Workers
      \/ t \in Workers /\ t \notin Publishers
  BY ProberAt, Zenon DEF LoadCursor, At
<1>1. Roles'
  <2>1. /\ pc' \in [Threads -> Labels] /\ pc'[t] = "probe"
        /\ \A u \in Threads \ {t} : pc'[u] = pc[u] /\ reg'[u] = reg[u] /\ probe'[u] = probe[u]
    BY Zenon DEF LoadCursor, Roles, Goto, Labels
  <2>2. PICK c \in Nat : reg' = [reg EXCEPT ![t] = c] /\ probe' = [probe EXCEPT ![t] = c + 1]
    BY Zenon DEF LoadCursor, Roles
  <2>3. c + 1 \in Nat /\ c + 1 > c
    OBVIOUS
  <2>4. /\ reg' \in [Threads -> Nat] /\ probe' \in [Threads -> Nat]
        /\ probe'[t] > reg'[t]
    BY <2>2, <2>3, Zenon DEF Roles
  <2>5. /\ \A p \in Publishers : pc'[p] \in PublisherLabels
        /\ \A w \in Workers : pc'[w] \in WorkerLabels
        /\ \A o \in Stoppers : pc'[o] \in StopperLabels
    BY <1>0, <2>1, ThreadsAssumption, Zenon DEF Roles, PublisherLabels, WorkerLabels, Threads
  <2>6. \A u \in Threads : pc'[u] \in {"probe", "advance_cas"} => probe'[u] > reg'[u]
    BY <2>1, <2>4, Zenon DEF Roles
  <2> QED
    BY <2>1, <2>4, <2>5, <2>6, Zenon DEF LoadCursor, Roles, cursors, memory, parking
<1>2. Parking'
  BY <1>0, ParkingFrame, WorkerFrame, Zenon DEF LoadCursor, Roles, Parking, At, Goto, parking, Threads
<1>3. Marking'
  <2>1. /\ Lane(sb, "published", published_sequences, max_read_cursor)'
        /\ Lane(sb, "completed", worker_completed_sequences, worker_completed_cursor)'
    BY DEF LoadCursor, Marking, Lane, cursors, memory
  <2>2. \A u \in Threads \ {t} : pc'[u] = pc[u] /\ reg'[u] = reg[u] /\ probe'[u] = probe[u]
    BY Zenon DEF LoadCursor, Roles, Goto
  <2>3. \A u \in Threads \ {t} :
          /\ u \in Publishers => Probing(u, sb, "published", published_sequences, max_read_cursor)'
          /\ u \in Workers => Probing(u, sb, "completed", worker_completed_sequences, worker_completed_cursor)'
    BY <2>2 DEF LoadCursor, Marking, Probing, Seen, cursors, memory
  <2>4. /\ t \in Publishers => Probing(t, sb, "published", published_sequences, max_read_cursor)'
        /\ t \in Workers => Probing(t, sb, "completed", worker_completed_sequences, worker_completed_cursor)'
    BY <1>0 DEF LoadCursor, Roles, Probing, Seen, cursors, memory
  <2> QED
    BY <2>1, <2>3, <2>4, Zenon DEF Marking, Threads
<1>4. Owning'
  BY OwningFrame, ThreadsAssumption, Zenon
     DEF LoadCursor, Roles, At, Goto, Unpublished, Held, Threads
<1>5. Claiming'
  BY <1>0, ThreadsAssumption, Zenon DEF LoadCursor, Claiming, Roles, At, Goto, Threads, cursors
<1> QED
  BY <1>1, <1>2, <1>3, <1>4, <1>5, Zenon DEF RingInv

(* A probe that ends without a mark to move to; a worker has released its  *)
(* entry then.                                                             *)
LEMMA ProbeEndInv ==
  ASSUME RingInv, NEW t \in Threads, ProbeEnd(t)
  PROVE  RingInv'
<1> Roles /\ Parking /\ Marking /\ Owning /\ Claiming
  BY Zenon DEF RingInv
<1>0. \/ t \in Publishers /\ t \notin Workers
      \/ t \in Workers /\ t \notin Publishers
  BY ProberAt, Zenon DEF ProbeEnd, At
<1>1. CASE probe[t] = reg[t] + 1 /\ t \in Publishers
  <2>1. /\ Goto(t, IF waits[t] THEN "visible" ELSE "notify")
        /\ reg' = [reg EXCEPT ![t] = 0] /\ probe' = [probe EXCEPT ![t] = 0]
        /\ UNCHANGED <<cursors, memory, parking, sb, first, last, waits>>
    BY <1>0, <1>1, Zenon DEF ProbeEnd, Advanced
  <2>2. Roles'
    BY <1>0, <1>1, <2>1, ThreadsAssumption
       DEF ProbeEnd, Roles, At, Goto, Labels, PublisherLabels, cursors, memory, parking
  <2>3. Parking'
    BY <1>0, <1>1, <2>1, ParkingFrame, Zenon DEF Roles, Goto, parking, Threads
  <2>4. Marking'
    BY <2>1, MarkingFrame, Zenon DEF Roles, Goto
  <2>5. Owning'
    BY <1>0, <1>1, <2>1, OwningFrame, Zenon DEF Roles, Goto, Unpublished, Held, Threads
  <2>6. Claiming'
    BY <1>0, <1>1, <2>1, Zenon DEF Claiming, Roles, Goto, Threads, cursors
  <2> QED
    BY <2>2, <2>3, <2>4, <2>5, <2>6, Zenon DEF RingInv
<1>2. CASE probe[t] = reg[t] + 1 /\ t \in Workers
  <2>1. Goto(t, "idle") /\ Reset(t) /\ UNCHANGED <<cursors, memory, parking, sb>> /\ pc[t] = "probe"
    BY <1>0, <1>2, Zenon DEF ProbeEnd, Advanced, At
  <2>2. waits' = waits
    BY <1>2, <2>1, Zenon DEF Roles, Parking, Reset
  <2>3. Roles'
    BY <1>0, <1>2, <2>1, ThreadsAssumption, SMTT(30)
       DEF Roles, Goto, Reset, Labels, WorkerLabels, cursors, memory, parking
  <2>4. Parking'
    BY <1>0, <1>2, <2>1, <2>2, WorkerFrame, Zenon DEF Roles, Parking, Goto, parking, Threads
  <2>5. Marking'
    BY <2>1, MarkingFrame, Zenon DEF Roles, Goto, Reset
  <2>6. Owning'
    BY <1>0, <1>2, <2>1, OwningFrame, Zenon DEF Roles, Goto, Reset, Unpublished, Held, Threads
  <2>7. Claiming'
    BY <1>0, <1>2, <2>1, Zenon DEF Claiming, Roles, Goto, Reset, Threads, cursors
  <2> QED
    BY <2>3, <2>4, <2>5, <2>6, <2>7, Zenon DEF RingInv
<1>3. CASE probe[t] # reg[t] + 1
  <2>1. /\ Goto(t, "advance_cas") /\ UNCHANGED <<cursors, memory, parking, sb, first, last, waits, reg, probe>>
        /\ pc[t] = "probe"
    BY <1>3, Zenon DEF ProbeEnd, At, locals
  <2>2. Roles'
    BY <1>0, <2>1, ThreadsAssumption, SMTT(30)
       DEF Roles, Goto, Labels, PublisherLabels, WorkerLabels, cursors, memory, parking
  <2>3. Parking'
    BY <1>0, <2>1, ParkingFrame, WorkerFrame, Zenon DEF Roles, Parking, Goto, parking, Threads
  <2>4. Marking'
    BY <2>1, MarkingFrame, Zenon DEF Roles, Goto
  <2>5. Owning'
    BY <1>0, <2>1, OwningFrame, Zenon DEF Roles, Goto, Unpublished, Held, Threads
  <2>6. Claiming'
    BY <1>0, <2>1, Zenon DEF Claiming, Roles, Goto, Threads, cursors
  <2> QED
    BY <2>2, <2>3, <2>4, <2>5, <2>6, Zenon DEF RingInv
<1> QED
  BY <1>0, <1>1, <1>2, <1>3, Zenon DEF RingInv

-----------------------------------------------------------------------------
(* worker_notify, and the stoppers.                                        *)

(* worker_notify, finding whether a worker waits, keeps the invariant.     *)
LEMMA NotifyInv ==
  ASSUME RingInv, NEW t \in Threads, Notify(t)
  PROVE  RingInv'
<1> Roles /\ Parking /\ Marking /\ Owning /\ Claiming
  BY Zenon DEF RingInv
<1>0. t \in Publishers \cup Stoppers /\ t \notin Workers
  BY NotifierAt, Zenon DEF Notify, At
<1>1. CASE worker_waiters = 0
  <2>1. Goto(t, "idle") /\ Reset(t) /\ UNCHANGED <<cursors, memory, parking, sb>> /\ pc[t] = "notify"
    BY <1>1, Zenon DEF Notify, At
  <2>2. Roles'
    BY <1>0, <2>1, ThreadsAssumption, SMTT(30)
       DEF Roles, Goto, Reset, Labels, PublisherLabels, StopperLabels, cursors, memory, parking
  <2>3. Parking'
    BY <1>0, <2>1, ParkingFrame, Zenon DEF Roles, Goto, Reset, parking, Threads
  <2>4. Marking'
    BY <2>1, MarkingFrame, Zenon DEF Roles, Goto, Reset
  <2>5. Owning'
    BY <1>0, <2>1, OwningFrame, Zenon DEF Roles, Goto, Reset, Unpublished, Held, Threads
  <2>6. Claiming'
    BY <1>0, <2>1, Zenon DEF Claiming, Roles, Goto, Reset, Threads, cursors
  <2> QED
    BY <2>2, <2>3, <2>4, <2>5, <2>6, Zenon DEF RingInv
<1>2. CASE worker_waiters # 0
  <2>1. /\ Goto(t, "broadcast") /\ UNCHANGED <<cursors, memory, parking, sb, first, last, waits, reg, probe>>
        /\ pc[t] = "notify"
    BY <1>2, Zenon DEF Notify, At, locals
  <2>2. Roles'
    BY <1>0, <2>1, ThreadsAssumption, SMTT(30)
       DEF Roles, Goto, Labels, PublisherLabels, StopperLabels, cursors, memory, parking
  <2>3. Parking'
    BY <1>0, <2>1, ParkingFrame, Zenon DEF Roles, Goto, parking, Threads
  <2>4. Marking'
    BY <2>1, MarkingFrame, Zenon DEF Roles, Goto
  <2>5. Owning'
    BY <1>0, <2>1, OwningFrame, Zenon DEF Roles, Goto, Unpublished, Held, Threads
  <2>6. Claiming'
    BY <1>0, <2>1, Zenon DEF Claiming, Roles, Goto, Threads, cursors
  <2> QED
    BY <2>2, <2>3, <2>4, <2>5, <2>6, Zenon DEF RingInv
<1> QED
  BY <1>1, <1>2, Zenon DEF RingInv

(* Waking every parked worker keeps the invariant.                         *)
LEMMA BroadcastInv ==
  ASSUME RingInv, NEW t \in Threads, Broadcast(t)
  PROVE  RingInv'
<1> Roles /\ Parking /\ Marking /\ Owning /\ Claiming
  BY Zenon DEF RingInv
<1>0. t \in Publishers \cup Stoppers /\ t \notin Workers
  BY NotifierAt, Zenon DEF Broadcast, At
<1>1. /\ pc' \in [Threads -> Labels] /\ pc[t] = "broadcast" /\ pc'[t] = "idle"
      /\ \A u \in Threads \ {t} : pc'[u] = IF pc[u] = "parked" THEN "woken" ELSE pc[u]
      /\ \A u \in Threads \ {t} : waits'[u] = waits[u]
      /\ Reset(t) /\ UNCHANGED <<cursors, memory, parking, sb>>
  BY Zenon DEF Broadcast, At, Roles, Reset, Labels
<1>2. Roles'
  BY <1>0, <1>1, ThreadsAssumption, ZenonT(60)
     DEF Roles, Reset, PublisherLabels, WorkerLabels, StopperLabels, cursors, memory, parking, Threads
<1>3. Parking'
  <2>1. \A w \in Workers : waits'[w] = waits[w]
    BY <1>0, <1>1, Zenon DEF Threads
  <2>2. Waiting' = Waiting
    BY <2>1, Zenon DEF Waiting
  <2>3. \A w \in Workers : pc'[w] = IF pc[w] = "parked" THEN "woken" ELSE pc[w]
    BY <1>0, <1>1, Zenon DEF Threads
  <2>4. UNCHANGED <<worker_waiters, wait_mutex>>
    BY <1>1, Zenon DEF parking
  <2>5. {w \in Workers : waits'[w] /\ pc'[w] \in {"parking", "available", "worker_cas", "keep", "leave"}}
          = {w \in Workers : waits[w] /\ pc[w] \in {"parking", "available", "worker_cas", "keep", "leave"}}
    BY <2>1, <2>3, Zenon
  <2> QED
    BY <2>1, <2>2, <2>3, <2>4, <2>5, Zenon DEF Parking
<1>4. Marking'
  BY <1>1, MarkingFrame, Zenon DEF Roles, Reset
<1>5. Owning'
  BY <1>0, <1>1, OwningFrame, Zenon DEF Roles, Reset, Unpublished, Held, Threads
<1>6. Claiming'
  BY <1>0, <1>1, ThreadsAssumption, ZenonT(60) DEF Claiming, Roles, Reset, Threads, cursors, PublisherLabels
<1> QED
  BY <1>2, <1>3, <1>4, <1>5, <1>6, Zenon DEF RingInv

(* keep_running turning false keeps the invariant.                         *)
LEMMA StopInv ==
  ASSUME RingInv, NEW t \in Threads, Stop(t)
  PROVE  RingInv'
<1> Roles /\ Parking /\ Marking /\ Owning /\ Claiming
  BY Zenon DEF RingInv
<1>0. t \in Stoppers /\ t \notin Workers /\ t \notin Publishers
  BY ThreadsAssumption, Zenon DEF Stop
<1>1. /\ Goto(t, "notify") /\ keep_running' = FALSE
      /\ UNCHANGED <<cursors, memory, worker_waiters, wait_mutex, sb, first, last, waits, reg, probe>>
  BY Zenon DEF Stop, locals
<1>2. Roles'
  <2>1. keep_running' \in BOOLEAN
    BY <1>1, Zenon
  <2> QED
    BY <1>0, <1>1, <2>1, ThreadsAssumption, SMTT(30)
       DEF Roles, Goto, Labels, StopperLabels, cursors, memory
<1>3. Parking'
  BY <1>0, <1>1, ParkingFrame, Zenon DEF Roles, Goto, Threads
<1>4. Marking'
  BY <1>1, MarkingFrame, Zenon DEF Roles, Goto
<1>5. Owning'
  BY <1>0, <1>1, OwningFrame, Zenon DEF Roles, Goto, Unpublished, Held, Threads
<1>6. Claiming'
  BY <1>0, <1>1, Zenon DEF Claiming, Roles, Goto, Threads, cursors
<1> QED
  BY <1>2, <1>3, <1>4, <1>5, <1>6, Zenon DEF RingInv

-----------------------------------------------------------------------------
(* Workers.                                                                *)

(* worker_try_claim, loading the claim cursor, keeps the invariant.        *)
LEMMA LoadClaimInv ==
  ASSUME RingInv, NEW w \in Threads, LoadClaim(w)
  PROVE  RingInv'
<1> Roles /\ Parking /\ Marking /\ Owning /\ Claiming
  BY Zenon DEF RingInv
<1>0. w \in Workers /\ w \notin Publishers
  BY ThreadsAssumption, Zenon DEF LoadClaim
<1>1. /\ pc[w] \in {"idle", "parking"} /\ Goto(w, "available")
      /\ reg' = [reg EXCEPT ![w] = worker_claim_cursor]
      /\ UNCHANGED <<cursors, memory, parking, sb, first, last, waits, probe>>
  BY Zenon DEF LoadClaim
<1>2. Roles'
  <2>1. /\ pc' \in [Threads -> Labels] /\ pc'[w] = "available" /\ reg' \in [Threads -> Nat]
        /\ \A u \in Threads \ {w} : pc'[u] = pc[u] /\ reg'[u] = reg[u]
    BY <1>1, Zenon DEF Roles, Goto, Labels, cursors
  <2> QED
    BY <1>0, <1>1, <2>1, ThreadsAssumption, Zenon
       DEF Roles, WorkerLabels, Threads, cursors, memory, parking
<1>3. Parking'
  BY <1>0, <1>1, WorkerFrame, Zenon DEF Roles, Parking, Goto, parking, Threads
<1>4. Marking'
  BY <1>1, MarkingFrame, Zenon DEF Roles, Goto
<1>5. Owning'
  BY <1>0, <1>1, OwningFrame, Zenon DEF Roles, Goto, Unpublished, Held, Threads
<1>6. Claiming'
  <2>1. /\ \A u \in Threads \ {w} : pc'[u] = pc[u] /\ reg'[u] = reg[u]
        /\ pc'[w] = "available" /\ reg'[w] = worker_claim_cursor
    BY <1>1, Zenon DEF Roles, Goto
  <2>2. worker_claim_cursor \in 1..worker_claim_cursor
    BY DEF Roles, Owning, CursorsOrdered
  <2>3. UNCHANGED <<sb, first, last, waits, max_read_cursor, worker_claim_cursor, worker_completed_cursor>>
    BY <1>1, Zenon DEF cursors
  <2>4. Publishers \subseteq Threads \ {w}
    BY <1>0, Zenon DEF Threads
  <2>5. ASSUME NEW v \in Workers
        PROVE  /\ pc'[v] \in {"available", "worker_cas"} => reg'[v] \in 1..worker_claim_cursor'
               /\ pc'[v] = "worker_cas" => reg'[v] <= max_read_cursor'
               /\ pc'[v] \in {"idle", "parking", "available", "worker_cas", "keep", "parked", "woken", "stopped"}
                    => first'[v] = 0
               /\ pc'[v] = "read" => first'[v] # 0
    <3>1. CASE v = w
      BY <1>0, <1>1, <2>1, <2>2, <2>3, <3>1, Zenon DEF Claiming
    <3>2. CASE v # w
      BY <2>1, <2>3, <3>2, Zenon DEF Claiming, Threads
    <3> QED
      BY <3>1, <3>2, Zenon
  <2> QED
    BY <2>1, <2>3, <2>4, <2>5, Zenon DEF Claiming
<1> QED
  BY <1>2, <1>3, <1>4, <1>5, <1>6, Zenon DEF RingInv

(* worker_try_claim, comparing with what is visible, keeps the invariant.  *)
LEMMA LoadAvailableInv ==
  ASSUME RingInv, NEW w \in Threads, LoadAvailable(w)
  PROVE  RingInv'
<1> Roles /\ Parking /\ Marking /\ Owning /\ Claiming
  BY Zenon DEF RingInv
<1>0. w \in Workers /\ w \notin Publishers
  BY WorkerAt, Zenon DEF LoadAvailable, At
<1>1. /\ pc[w] = "available" /\ Goto(w, IF reg[w] > max_read_cursor THEN "keep" ELSE "worker_cas")
      /\ UNCHANGED <<cursors, memory, parking, sb, first, last, waits, reg, probe>>
  BY Zenon DEF LoadAvailable, At, locals
<1>2. Roles'
  BY <1>0, <1>1, ThreadsAssumption, SMTT(30)
     DEF Roles, Goto, Labels, WorkerLabels, cursors, memory, parking
<1>3. Parking'
  BY <1>0, <1>1, WorkerFrame, Zenon DEF Roles, Parking, Goto, parking, Threads
<1>4. Marking'
  BY <1>1, MarkingFrame, Zenon DEF Roles, Goto
<1>5. Owning'
  BY <1>0, <1>1, OwningFrame, Zenon DEF Roles, Goto, Unpublished, Held, Threads
<1>6. Claiming'
  <2>1. /\ \A u \in Threads \ {w} : pc'[u] = pc[u]
        /\ pc'[w] = IF reg[w] > max_read_cursor THEN "keep" ELSE "worker_cas"
        /\ UNCHANGED <<sb, first, last, waits, reg, max_read_cursor, worker_claim_cursor,
                       worker_completed_cursor>>
    BY <1>1, Zenon DEF Roles, Goto, cursors
  <2>2. reg[w] \in Nat /\ max_read_cursor \in Nat /\ Publishers \subseteq Threads \ {w}
    BY <1>0, Zenon DEF Roles, Threads
  <2>3. pc'[w] = "worker_cas" => reg'[w] <= max_read_cursor'
    BY <2>1, <2>2
  <2>4. pc'[w] \in {"keep", "worker_cas"} /\ w \in Threads
    BY <2>1, Zenon
  <2>5. ASSUME NEW v \in Workers
        PROVE  /\ pc'[v] \in {"available", "worker_cas"} => reg'[v] \in 1..worker_claim_cursor'
               /\ pc'[v] = "worker_cas" => reg'[v] <= max_read_cursor'
               /\ pc'[v] \in {"idle", "parking", "available", "worker_cas", "keep", "parked", "woken", "stopped"}
                    => first'[v] = 0
               /\ pc'[v] = "read" => first'[v] # 0
    <3>1. CASE v = w
      BY <1>0, <1>1, <2>1, <2>3, <2>4, <3>1, Zenon DEF Claiming
    <3>2. CASE v # w
      BY <2>1, <3>2, Zenon DEF Claiming, Threads
    <3> QED
      BY <3>1, <3>2, Zenon
  <2> QED
    BY <2>1, <2>2, <2>5, Zenon DEF Claiming
<1> QED
  BY <1>2, <1>3, <1>4, <1>5, <1>6, Zenon DEF RingInv

(* A worker that found nothing and gives up, spins or goes to sleep keeps  *)
(* the invariant.                                                          *)
LEMMA KeepRunningInv ==
  ASSUME RingInv, NEW w \in Threads, KeepRunning(w)
  PROVE  RingInv'
<1> Roles /\ Parking /\ Marking /\ Owning /\ Claiming
  BY Zenon DEF RingInv
<1>0. w \in Workers /\ w \notin Publishers
  BY WorkerAt, Zenon DEF KeepRunning, At
<1>1. /\ pc[w] = "keep"
      /\ Goto(w, IF waits[w] THEN IF keep_running THEN "parked" ELSE "leave"
                             ELSE IF keep_running THEN "idle" ELSE "stopped")
      /\ wait_mutex' = IF waits[w] /\ keep_running THEN {} ELSE wait_mutex
      /\ reg' = [reg EXCEPT ![w] = 0]
      /\ UNCHANGED <<cursors, memory, worker_waiters, keep_running, sb, first, last, waits, probe>>
  BY Zenon DEF KeepRunning, At
<1>2. Roles'
  BY <1>0, <1>1, ThreadsAssumption
     DEF Roles, Goto, Labels, WorkerLabels, cursors, memory
<1>3. /\ \A u \in Threads \ {w} : pc'[u] = pc[u] /\ reg'[u] = reg[u]
      /\ pc'[w] = IF waits[w] THEN IF keep_running THEN "parked" ELSE "leave"
                             ELSE IF keep_running THEN "idle" ELSE "stopped"
      /\ pc'[w] \in {"parked", "leave", "idle", "stopped"}
  BY <1>1, Zenon DEF Roles, Goto
<1>4. Parking'
  <2>1. Waiting' = Waiting
    BY <1>1, Zenon DEF Waiting
  <2>2. \A v \in Workers \ {w} : pc'[v] = pc[v]
    BY <1>3, Zenon DEF Threads
  <2>3. CASE waits[w] /\ keep_running
    BY <1>0, <1>1, <1>3, <2>1, <2>2, <2>3, SMTT(30) DEF Parking
  <2>4. CASE ~(waits[w] /\ keep_running)
    BY <1>0, <1>1, <1>3, <2>1, <2>2, <2>4, SMTT(30) DEF Parking
  <2> QED
    BY <2>3, <2>4, Zenon
<1>5. Marking'
  BY <1>1, <1>3, MarkingFrame, Zenon
<1>6. Owning'
  <2>1. first'[w] = 0
    BY <1>0, <1>1, Zenon DEF Claiming
  <2>2. Held(w)' = {}
    BY <1>3, <2>1, Zenon DEF Held
  <2> QED
    BY <1>0, <1>1, <1>3, <2>2, OwningFrame, Zenon DEF Unpublished, Held, Threads
<1>7. Claiming'
  <2>1. UNCHANGED <<sb, first, last, waits, max_read_cursor, worker_claim_cursor, worker_completed_cursor>>
    BY <1>1, Zenon DEF cursors
  <2>2. Publishers \subseteq Threads \ {w} /\ Workers \subseteq Threads
    BY <1>0, Zenon DEF Threads
  <2> QED
    BY <1>0, <1>1, <1>3, <2>1, <2>2, SMTT(30) DEF Claiming
<1> QED
  BY <1>2, <1>4, <1>5, <1>6, <1>7, Zenon DEF RingInv

(* A worker that wakes up, and one that has the mutex again, keep the      *)
(* invariant.                                                              *)
LEMMA WokenInv ==
  ASSUME RingInv, NEW w \in Threads, Woken(w) \/ SpuriousWakeup(w)
  PROVE  RingInv'
<1> Roles /\ Parking /\ Marking /\ Owning /\ Claiming
  BY Zenon DEF RingInv
<1>0. w \in Workers /\ w \notin Publishers
  BY WorkerAt, Zenon DEF Woken, SpuriousWakeup, At
<1>1. /\ \/ pc[w] = "woken" /\ wait_mutex = {} /\ Goto(w, "parking") /\ wait_mutex' = {w}
         \/ pc[w] = "parked" /\ Goto(w, "woken") /\ wait_mutex' = wait_mutex
      /\ UNCHANGED <<cursors, memory, worker_waiters, keep_running, sb, first, last, waits, reg, probe>>
  BY Zenon DEF Woken, SpuriousWakeup, At, locals, parking
<1>2. Roles'
  <2>1. \E l \in {"parking", "woken"} : Goto(w, l)
    BY <1>1, Zenon
  <2> QED
    BY <1>0, <1>1, <2>1, ThreadsAssumption
       DEF Roles, Goto, Labels, WorkerLabels, cursors, memory
<1>3. Parking'
  <2>1. Waiting' = Waiting
    BY <1>1, Zenon DEF Waiting
  <2>2. /\ \A v \in Workers \ {w} : pc'[v] = pc[v]
        /\ \/ pc[w] = "woken" /\ wait_mutex = {} /\ pc'[w] = "parking" /\ wait_mutex' = {w}
           \/ pc[w] = "parked" /\ pc'[w] = "woken" /\ wait_mutex' = wait_mutex
    BY <1>0, <1>1, Zenon DEF Roles, Goto, Threads
  <2> QED
    BY <1>0, <1>1, <2>1, <2>2, SMTT(30) DEF Parking
<1>4. Marking'
  BY <1>1, MarkingFrame, Zenon DEF Roles, Goto
<1>5. Owning'
  BY <1>0, <1>1, OwningFrame, Zenon DEF Roles, Goto, Unpublished, Held, Threads
<1>6. Claiming'
  BY <1>0, <1>1, Zenon DEF Claiming, Roles, Goto, Threads, cursors
<1> QED
  BY <1>2, <1>3, <1>4, <1>5, <1>6, Zenon DEF RingInv

-----------------------------------------------------------------------------
(* Ranges change hands.                                                    *)

(* A publisher takes the next sequence numbers, up to top.                 *)
LEMMA GrantOwning ==
  ASSUME Owning, Roles, NEW p \in Publishers, NEW top \in Nat, top >= write_cursor, top <= MaxSequence,
         write_cursor' = top,
         UNCHANGED <<max_read_cursor, worker_claim_cursor, worker_completed_cursor, memory, sb>>,
         Unpublished(p)' = (write_cursor + 1)..top,
         \A q \in Publishers \ {p} : Unpublished(q)' = Unpublished(q),
         \A w \in Workers : Held(w)' = Held(w)
  PROVE  Owning'
<1>1. PublishedSet' = PublishedSet /\ DoneSet' = DoneSet
  BY SetsFrame, Zenon
<1>2. /\ write_cursor \in Nat /\ PublishedSet \subseteq 1..write_cursor
      /\ \A q \in Publishers : Unpublished(q) \subseteq (1..write_cursor) \ PublishedSet
  BY Zenon DEF Owning, Roles
<1>3. CursorsOrdered'
  BY DEF Owning, CursorsOrdered, Roles, memory
<1>4. ASSUME NEW q \in Publishers
      PROVE  Unpublished(q)' \subseteq (1..top) \ PublishedSet
  <2>1. CASE q = p
    BY <1>2, <2>1
  <2>2. CASE q # p
    BY <1>2, <2>2
  <2> QED
    BY <2>1, <2>2, Zenon
<1>5. ASSUME NEW q \in Publishers, q # p
      PROVE  Unpublished(p)' \cap Unpublished(q)' = {}
  <2>1. Unpublished(q)' \subseteq 1..write_cursor
    BY <1>2, <1>5, Zenon
  <2> QED
    BY <1>2, <2>1
<1>6. ASSUME NEW q \in Publishers, NEW r \in Publishers, q # r
      PROVE  Unpublished(q)' \cap Unpublished(r)' = {}
  <2>1. CASE q = p
    BY <1>5, <1>6, <2>1, Zenon
  <2>2. CASE r = p
    BY <1>5, <1>6, <2>2, Zenon
  <2>3. CASE q # p /\ r # p
    BY <1>6, <2>3, Zenon DEF Owning
  <2> QED
    BY <2>1, <2>2, <2>3, Zenon
<1>7. PublishedSet \subseteq 1..top
  BY <1>2
<1> QED
  BY <1>1, <1>3, <1>4, <1>6, <1>7, Zenon DEF Owning

(* A worker takes the next sequence number.                                *)
LEMMA TakeOwning ==
  ASSUME Owning, Roles, NEW w \in Workers, worker_claim_cursor <= max_read_cursor,
         worker_claim_cursor' = worker_claim_cursor + 1,
         UNCHANGED <<write_cursor, max_read_cursor, worker_completed_cursor, memory, sb>>,
         Held(w)' = {worker_claim_cursor},
         \A p \in Publishers : Unpublished(p)' = Unpublished(p),
         \A v \in Workers \ {w} : Held(v)' = Held(v)
  PROVE  Owning'
<1>1. PublishedSet' = PublishedSet /\ DoneSet' = DoneSet
  BY SetsFrame, Zenon
<1>2. /\ worker_claim_cursor \in Nat /\ worker_claim_cursor >= 1
      /\ DoneSet \subseteq 1..(worker_claim_cursor - 1)
      /\ \A v \in Workers : Held(v) \subseteq (1..(worker_claim_cursor - 1)) \ DoneSet
  BY DEF Owning, CursorsOrdered, Roles
<1>3. CursorsOrdered'
  BY DEF Owning, CursorsOrdered, Roles, memory
<1>4. ASSUME NEW v \in Workers
      PROVE  Held(v)' \subseteq (1..worker_claim_cursor) \ DoneSet
  <2>1. CASE v = w
    BY <1>2, <2>1
  <2>2. CASE v # w
    BY <1>2, <2>2
  <2> QED
    BY <2>1, <2>2, Zenon
<1>5. ASSUME NEW v \in Workers, v # w
      PROVE  Held(w)' \cap Held(v)' = {}
  <2>1. Held(v)' \subseteq 1..(worker_claim_cursor - 1)
    BY <1>2, <1>5, Zenon
  <2> QED
    BY <1>2, <2>1
<1>6. ASSUME NEW u \in Workers, NEW v \in Workers, u # v
      PROVE  Held(u)' \cap Held(v)' = {}
  <2>1. CASE u = w
    BY <1>5, <1>6, <2>1, Zenon
  <2>2. CASE v = w
    BY <1>5, <1>6, <2>2, Zenon
  <2>3. CASE u # w /\ v # w
    BY <1>6, <2>3, Zenon DEF Owning
  <2> QED
    BY <2>1, <2>2, <2>3, Zenon
<1>7. DoneSet \subseteq 1..worker_claim_cursor /\ worker_claim_cursor' - 1 = worker_claim_cursor
  BY <1>2
<1> QED
  BY <1>1, <1>3, <1>4, <1>6, <1>7, Zenon DEF Owning

(* A publisher gives up its range, that becomes published.                 *)
LEMMA PublishOwning ==
  ASSUME Owning, Roles, NEW p \in Publishers,
         PublishedSet' = PublishedSet \cup Unpublished(p), Unpublished(p)' = {},
         \A s \in Unpublished(p) : s <= worker_completed_cursor + Capacity,
         DoneSet' = DoneSet, CursorsOrdered',
         UNCHANGED <<write_cursor, worker_claim_cursor, worker_completed_cursor>>,
         \A q \in Publishers \ {p} : Unpublished(q)' = Unpublished(q),
         \A w \in Workers : Held(w)' = Held(w)
  PROVE  Owning'
<1>1. ASSUME NEW q \in Publishers
      PROVE  Unpublished(q)' \subseteq (1..write_cursor) \ PublishedSet'
  <2>1. CASE q = p
    BY <2>1, Zenon
  <2>2. CASE q # p
    <3>1. Unpublished(q) \subseteq (1..write_cursor) \ PublishedSet
      BY Zenon DEF Owning
    <3>2. Unpublished(q) \cap Unpublished(p) = {}
      BY <2>2, Zenon DEF Owning
    <3> QED
      BY <2>2, <3>1, <3>2, Zenon
  <2> QED
    BY <2>1, <2>2, Zenon
<1>2. ASSUME NEW q \in Publishers, NEW r \in Publishers, q # r
      PROVE  Unpublished(q)' \cap Unpublished(r)' = {}
  <2>1. CASE q = p \/ r = p
    BY <2>1, Zenon
  <2>2. CASE q # p /\ r # p
    BY <1>2, <2>2, Zenon DEF Owning
  <2> QED
    BY <2>1, <2>2, Zenon
<1>3. /\ PublishedSet' \subseteq 1..write_cursor
      /\ \A s \in PublishedSet' : s <= worker_completed_cursor + Capacity
  <2>1. Unpublished(p) \subseteq 1..write_cursor
    BY Zenon DEF Owning
  <2> QED
    BY <2>1, Zenon DEF Owning
<1> QED
  BY <1>1, <1>2, <1>3, Zenon DEF Owning

(* A worker gives up what it holds, that becomes complete.                 *)
LEMMA ReleaseOwning ==
  ASSUME Owning, Roles, NEW w \in Workers,
         DoneSet' = DoneSet \cup Held(w), Held(w)' = {},
         PublishedSet' = PublishedSet, UNCHANGED <<cursors, slowest_consumer>>,
         \A p \in Publishers : Unpublished(p)' = Unpublished(p),
         \A v \in Workers \ {w} : Held(v)' = Held(v)
  PROVE  Owning'
<1>1. ASSUME NEW v \in Workers
      PROVE  Held(v)' \subseteq (1..(worker_claim_cursor - 1)) \ DoneSet'
  <2>1. CASE v = w
    BY <2>1, Zenon
  <2>2. CASE v # w
    <3>1. Held(v) \subseteq (1..(worker_claim_cursor - 1)) \ DoneSet
      BY Zenon DEF Owning
    <3>2. Held(v) \cap Held(w) = {}
      BY <2>2, Zenon DEF Owning
    <3> QED
      BY <2>2, <3>1, <3>2, Zenon
  <2> QED
    BY <2>1, <2>2, Zenon
<1>2. ASSUME NEW u \in Workers, NEW v \in Workers, u # v
      PROVE  Held(u)' \cap Held(v)' = {}
  <2>1. CASE u = w \/ v = w
    BY <2>1, Zenon
  <2>2. CASE u # w /\ v # w
    BY <1>2, <2>2, Zenon DEF Owning
  <2> QED
    BY <2>1, <2>2, Zenon
<1>3. DoneSet' \subseteq 1..(worker_claim_cursor - 1)
  <2>1. Held(w) \subseteq 1..(worker_claim_cursor - 1)
    BY Zenon DEF Owning
  <2> QED
    BY <2>1, Zenon DEF Owning
<1>4. CursorsOrdered'
  BY Zenon DEF Owning, CursorsOrdered, cursors
<1> QED
  BY <1>1, <1>2, <1>3, <1>4, Zenon DEF Owning, cursors
=============================================================================
