-------------------------- MODULE Disruptor_queue ---------------------------
(***************************************************************************)
(* The steps of Disruptor that complete entries, or reach memory, keep the *)
(* invariant; every step is one of the abstract queue; no entry has two    *)
(* owners.                                                                 *)
(***************************************************************************)
EXTENDS Disruptor_stores

(* Advancing the completed cursor over the marks probed keeps the          *)
(* invariant and completes nothing new.                                    *)
LEMMA AdvanceCompletedInv ==
  ASSUME RingInv, NEW w \in Threads, AdvanceCompleted(w)
  PROVE  RingInv' /\ PublishedSet' = PublishedSet /\ DoneSet' = DoneSet
<1> Roles /\ Parking /\ Marking /\ Owning /\ Claiming
  BY Zenon DEF RingInv
<1>0. w \in Workers /\ w \notin Publishers /\ pc[w] = "advance_cas" /\ Drained(w)
  BY ThreadsAssumption, Zenon DEF AdvanceCompleted, At
<1>1. CASE worker_completed_cursor = reg[w]
  <2> DEFINE c == probe[w] - 1
  <2>1. /\ Goto(w, "idle") /\ Reset(w)
        /\ worker_completed_cursor' = c
        /\ sb' = [sb EXCEPT ![w] = Append(@, Entry("slowest", c))]
        /\ UNCHANGED <<write_cursor, max_read_cursor, worker_claim_cursor, memory, parking>>
    BY <1>0, <1>1, Zenon DEF AdvanceCompleted, Advanced
  <2>2. /\ c \in Nat /\ c >= worker_completed_cursor
        /\ \A s \in (worker_completed_cursor + 1)..c : worker_completed_sequences[RingIndex(s)] = s
    <3>1. /\ Probing(w, sb, "completed", worker_completed_sequences, worker_completed_cursor)
          /\ worker_completed_cursor \in Nat
      BY <1>0, Zenon DEF Marking, Roles
    <3> HIDE DEF c
    <3>2. /\ probe[w] - 1 \in Nat /\ probe[w] - 1 >= worker_completed_cursor
          /\ \A s \in (worker_completed_cursor + 1)..(probe[w] - 1) :
               worker_completed_sequences[RingIndex(s)] = s
      BY <1>0, <1>1, <3>1, ProbedInMemory
    <3> QED
      BY <3>2, Zenon DEF c
  <2> HIDE DEF c
  <2>3. (worker_completed_cursor + 1)..c \subseteq DoneSet
    <3>1. ASSUME NEW s \in (worker_completed_cursor + 1)..c
          PROVE  s \in DoneSet
      <4>1. s \in Nat \ {0} /\ worker_completed_sequences[RingIndex(s)] = s
        BY <2>2, SMTT(30) DEF Roles
      <4> QED
        BY <4>1, RingIndexType, Zenon DEF DoneSet, Slotted, Roles
    <3> QED
      BY <3>1, Zenon
  <2>4. /\ sb \in [Threads -> Seq(Stores)] /\ published_sequences \in [Indexes -> Nat]
        /\ worker_completed_sequences \in [Indexes -> Nat]
        /\ max_read_cursor \in Nat /\ worker_completed_cursor \in Nat
        /\ Lane(sb, "published", published_sequences, max_read_cursor)
        /\ Lane(sb, "completed", worker_completed_sequences, worker_completed_cursor)
        /\ "published" \in Places /\ "completed" \in Places
    BY Zenon DEF Roles, Marking, Places
  <2>5. /\ Lane(sb, "completed", worker_completed_sequences, c)
        /\ Covered(sb, "completed", worker_completed_sequences, c) = DoneSet
        /\ \A u \in Threads, s \in Nat :
             Seen(sb, u, "completed", worker_completed_sequences, worker_completed_cursor, s) =>
               Seen(sb, u, "completed", worker_completed_sequences, c, s)
    <3>1. Kept("completed", sb, worker_completed_sequences, worker_completed_cursor,
               sb, worker_completed_sequences, c)
      BY <2>2, <2>4, LaneOverMarks, Zenon
    <3> QED
      BY <3>1, SetsCovered, Zenon DEF Kept
  <2>6. /\ sb' \in [Threads -> Seq(Stores)]
        /\ Kept("published", sb, published_sequences, max_read_cursor,
                sb', published_sequences, max_read_cursor)
    BY <2>1, <2>2, <2>4, SlowestStored, Zenon
  <2>7. Kept("completed", sb, worker_completed_sequences, c, sb', worker_completed_sequences, c)
    BY <2>1, <2>2, <2>4, <2>5, SlowestStored, Zenon
  <2>8. PublishedSet' = PublishedSet /\ DoneSet' = DoneSet
    BY <2>1, <2>5, <2>6, <2>7, SetsCovered, SetsCoveredNext, Zenon DEF Kept, memory
  <2>9. Roles'
    <3>1. /\ pc' \in [Threads -> Labels] /\ pc'[w] = "idle"
          /\ \A u \in Threads \ {w} : pc'[u] = pc[u] /\ reg'[u] = reg[u] /\ probe'[u] = probe[u]
      BY <2>1, Zenon DEF Roles, Goto, Reset, Labels
    <3>2. 0 \in Nat
      OBVIOUS
    <3>3. /\ worker_completed_cursor' \in Nat /\ waits' \in [Threads -> BOOLEAN]
          /\ first' \in [Threads -> Nat] /\ last' \in [Threads -> Nat]
          /\ reg' \in [Threads -> Nat] /\ probe' \in [Threads -> Nat]
      BY <2>1, <2>2, <3>2, Zenon DEF Roles, Reset
    <3> QED
      BY <1>0, <2>1, <2>6, <3>1, <3>3, ThreadsAssumption, ZenonT(60)
         DEF Roles, WorkerLabels, Threads, memory, parking
  <2>10. Parking'
    <3>1. ~waits[w] /\ waits' = waits
      BY <1>0, <2>1, Zenon DEF Parking, Reset, Roles
    <3> QED
      BY <1>0, <2>1, <3>1, WorkerFrame, Zenon DEF Roles, Goto, parking, Threads
  <2>11. Marking'
    <3>1. \A u \in Threads : pc'[u] \in {"probe", "advance_cas"} =>
            pc[u] \in {"probe", "advance_cas"} /\ reg'[u] = reg[u] /\ probe'[u] = probe[u]
      BY <2>1, Zenon DEF Goto, Reset, Roles
    <3>3. \A u \in Threads, s \in Nat :
            Seen(sb, u, "completed", worker_completed_sequences, worker_completed_cursor, s) =>
              Seen(sb', u, "completed", worker_completed_sequences, c, s)
      BY <2>5, <2>7, Zenon DEF Kept
    <3> QED
      <4>1. /\ Lane(sb, "published", published_sequences, max_read_cursor)'
            /\ Lane(sb, "completed", worker_completed_sequences, worker_completed_cursor)'
        BY <2>1, <2>6, <2>7, Zenon DEF Kept, memory
      <4>2. /\ max_read_cursor' \in Nat /\ max_read_cursor' >= max_read_cursor
            /\ worker_completed_cursor' \in Nat /\ worker_completed_cursor' >= worker_completed_cursor
        BY <2>1, <2>2, <2>4, SMTT(30)
      <4>3. \A u \in Threads, s \in Nat :
              /\ Seen(sb, u, "published", published_sequences, max_read_cursor, s) =>
                   Seen(sb', u, "published", published_sequences', max_read_cursor', s)
              /\ Seen(sb, u, "completed", worker_completed_sequences, worker_completed_cursor, s) =>
                   Seen(sb', u, "completed", worker_completed_sequences', worker_completed_cursor', s)
        BY <2>1, <2>6, <3>3, Zenon DEF Kept, memory
      <4> QED
        BY <3>1, <4>1, <4>2, <4>3, MarkingStep, Zenon
  <2>12. c < worker_claim_cursor
    <3>1. CASE c = worker_completed_cursor
      BY <3>1, Zenon DEF Owning, CursorsOrdered
    <3>2. CASE c # worker_completed_cursor
      <4>1. c \in (worker_completed_cursor + 1)..c
        BY <2>2, <2>4, <3>2, SMTT(30)
      <4>2. c \in 1..(worker_claim_cursor - 1)
        BY <2>3, <4>1, Zenon DEF Owning
      <4> QED
        BY <2>2, <4>2, SMTT(30) DEF Roles
    <3> QED
      BY <3>1, <3>2, Zenon
  <2>13. Owning'
    <3>1. /\ \A q \in Publishers : Unpublished(q)' \subseteq Unpublished(q)
          /\ \A v \in Workers : Held(v)' \subseteq Held(v)
      BY <1>0, <2>1, Zenon DEF Roles, Goto, Reset, Unpublished, Held, Threads
    <3>2. CursorsOrdered'
      BY <2>1, <2>2, <2>12, SMTT(30) DEF Owning, CursorsOrdered, Roles, memory
    <3> QED
      BY <2>1, <2>2, <2>8, <3>1, <3>2, SameOwning, Zenon
  <2>14. Claiming'
    <3>1. /\ \A u \in Threads \ {w} : /\ pc'[u] = pc[u] /\ reg'[u] = reg[u] /\ waits'[u] = waits[u]
                                      /\ first'[u] = first[u] /\ last'[u] = last[u]
          /\ pc'[w] = "idle" /\ first'[w] = 0
      BY <2>1, Zenon DEF Goto, Reset, Roles
    <3>2. \A u \in Threads : \A n \in DOMAIN sb'[u] :
             sb'[u][n].loc = "slowest" => sb'[u][n].seq <= worker_completed_cursor'
      <4>1. /\ worker_completed_cursor' \in Nat /\ worker_completed_cursor <= worker_completed_cursor'
            /\ c <= worker_completed_cursor' /\ c \in Nat
        BY <2>1, <2>2, <2>4
      <4> QED
        BY <2>1, <4>1, SlowestBounded, Zenon
    <3>3. ASSUME NEW q \in Publishers
          PROVE  /\ pc'[q] \in {"capacity", "refresh", "refresh_cached", "claim_cas", "write", "publish", "mark"} =>
                      first'[q] \in 1..last'[q] /\ last'[q] <= MaxSequence
                 /\ pc'[q] \in {"claim_cas", "write", "publish", "mark"} =>
                      last'[q] <= c + Capacity
                 /\ pc'[q] \in {"idle", "claim_cas"} => ~waits'[q]
                 /\ pc'[q] = "refresh_cached" => reg'[q] <= c
      <4>1. q \in Threads \ {w} /\ last[q] \in Nat /\ reg[q] \in Nat
        BY <1>0, Zenon DEF Threads, Roles
      <4>2. /\ pc[q] \in {"capacity", "refresh", "refresh_cached", "claim_cas", "write", "publish", "mark"} =>
                 first[q] \in 1..last[q] /\ last[q] <= MaxSequence
            /\ pc[q] \in {"claim_cas", "write", "publish", "mark"} =>
                 last[q] <= worker_completed_cursor + Capacity
            /\ pc[q] \in {"idle", "claim_cas"} => ~waits[q]
            /\ pc[q] = "refresh_cached" => reg[q] <= worker_completed_cursor
        BY Zenon DEF Claiming
      <4> QED
        BY <2>2, <2>4, <3>1, <4>1, <4>2, CapacityAssumption, SMTT(30)
    <3> QED
      BY <1>0, <2>1, <3>1, <3>2, <3>3, Zenon DEF Claiming, Threads
  <2> QED
    BY <2>8, <2>9, <2>10, <2>11, <2>13, <2>14, Zenon DEF RingInv
<1>2. CASE worker_completed_cursor # reg[w]
  <2>1. Goto(w, "advance") /\ UNCHANGED <<cursors, memory, parking, sb, first, last, waits, reg, probe>>
    BY <1>2, Zenon DEF AdvanceCompleted, cursors, locals
  <2>2. Roles'
    BY <1>0, <2>1, ThreadsAssumption, SMTT(30) DEF Roles, Goto, Labels, WorkerLabels, cursors, memory, parking
  <2>3. Parking'
    BY <1>0, <2>1, WorkerFrame, Zenon DEF Roles, Parking, Goto, parking, Threads
  <2>4. Marking'
    BY <2>1, MarkingFrame, Zenon DEF Roles, Goto
  <2>5. Owning'
    BY <1>0, <2>1, OwningFrame, ThreadsAssumption, Zenon DEF Roles, Goto, Unpublished, Held, Threads
  <2>6. Claiming'
    BY <1>0, <2>1, Zenon DEF Claiming, Roles, Goto, Threads, cursors
  <2>7. PublishedSet' = PublishedSet /\ DoneSet' = DoneSet
    BY <2>1, SetsFrame, Zenon DEF cursors
  <2> QED
    BY <2>2, <2>3, <2>4, <2>5, <2>6, <2>7, Zenon DEF RingInv
<1> QED
  BY <1>1, <1>2, Zenon DEF RingInv

-----------------------------------------------------------------------------
(* A store reaches memory.                                                 *)

(* A store reaching memory keeps the invariant and neither publishes nor   *)
(* completes anything: whatever the mark overwrites is behind the cursor.  *)
LEMMA FlushInv ==
  ASSUME RingInv, NEW t \in Threads, Flush(t)
  PROVE  RingInv' /\ PublishedSet' = PublishedSet /\ DoneSet' = DoneSet
<1> Roles /\ Parking /\ Marking /\ Owning /\ Claiming
  BY Zenon DEF RingInv
<1> DEFINE e == Head(sb[t])
<1>0. /\ sb[t] # << >> /\ sb' = [sb EXCEPT ![t] = Tail(@)]
      /\ UNCHANGED <<cursors, parking, pc, first, last, waits, reg, probe>>
      /\ \/ /\ e.loc = "slowest"
            /\ slowest_consumer' = e.seq
            /\ UNCHANGED <<published_sequences, worker_completed_sequences>>
         \/ /\ e.loc = "published"
            /\ published_sequences' = [published_sequences EXCEPT ![RingIndex(e.seq)] = e.seq]
            /\ UNCHANGED <<slowest_consumer, worker_completed_sequences>>
         \/ /\ e.loc = "completed"
            /\ worker_completed_sequences' =
                 [worker_completed_sequences EXCEPT ![RingIndex(e.seq)] = e.seq]
            /\ UNCHANGED <<slowest_consumer, published_sequences>>
  BY Zenon DEF Flush, Drained, locals
<1>1. /\ sb \in [Threads -> Seq(Stores)] /\ published_sequences \in [Indexes -> Nat]
      /\ worker_completed_sequences \in [Indexes -> Nat]
      /\ max_read_cursor \in Nat /\ worker_completed_cursor \in Nat /\ slowest_consumer \in Nat
      /\ Lane(sb, "published", published_sequences, max_read_cursor)
      /\ Lane(sb, "completed", worker_completed_sequences, worker_completed_cursor)
      /\ "published" \in Places /\ "completed" \in Places
  BY Zenon DEF Roles, Marking, Places
<1>2. /\ sb' \in [Threads -> Seq(Stores)]
      /\ 1 \in DOMAIN sb[t] /\ e = sb[t][1]
      /\ \A n \in DOMAIN sb'[t] : n + 1 \in DOMAIN sb[t] /\ sb'[t][n] = sb[t][n + 1]
      /\ \A u \in Threads \ {t} : sb'[u] = sb[u]
  BY <1>0, <1>1, Shifted
<1>3. e.seq \in Nat
  BY <1>1, <1>2, BufferedStores, Zenon
<1>4. /\ \A s \in Covered(sb, "published", published_sequences, max_read_cursor) :
           s <= worker_completed_cursor + Capacity
      /\ \A s \in Covered(sb, "completed", worker_completed_sequences, worker_completed_cursor) :
           s <= worker_completed_cursor + Capacity
      /\ worker_completed_cursor <= max_read_cursor /\ worker_completed_cursor <= worker_completed_cursor
  <2>1. \A s \in PublishedSet : s <= worker_completed_cursor + Capacity
    BY Zenon DEF Owning
  <2>2. worker_completed_cursor <= max_read_cursor /\ worker_completed_cursor <= worker_completed_cursor
    BY DEF Owning, CursorsOrdered, Roles
  <2>3. ASSUME NEW s \in DoneSet
        PROVE  s \in PublishedSet
    <3>1. s \in 1..(worker_claim_cursor - 1)
      BY Zenon DEF Owning
    <3>2. s \in 1..max_read_cursor
      BY <3>1, SMTT(30) DEF Owning, CursorsOrdered, Roles
    <3> QED
      BY <3>2, Zenon DEF PublishedSet
  <2> QED
    BY <2>1, <2>2, <2>3, SetsCovered, Zenon
<1> HIDE DEF e
<1>5. /\ Kept("published", sb, published_sequences, max_read_cursor,
              sb', published_sequences', max_read_cursor)
      /\ Kept("completed", sb, worker_completed_sequences, worker_completed_cursor,
              sb', worker_completed_sequences', worker_completed_cursor)
      /\ published_sequences' \in [Indexes -> Nat]
      /\ worker_completed_sequences' \in [Indexes -> Nat]
      /\ slowest_consumer' \in Nat /\ slowest_consumer' <= worker_completed_cursor
  <2>0. slowest_consumer <= worker_completed_cursor
    BY Zenon DEF Owning, CursorsOrdered
  <2>a. Head(sb[t]).loc = e.loc /\ Head(sb[t]).seq = e.seq
    BY Zenon DEF e
  <2>1. CASE e.loc = "slowest"
    <3>1. e.seq <= worker_completed_cursor
      BY <1>2, <2>1, Zenon DEF Claiming
    <3>2. /\ UNCHANGED <<published_sequences, worker_completed_sequences>>
          /\ slowest_consumer' = e.seq
      BY <1>0, <2>1, Zenon
    <3>3. Kept("published", sb, published_sequences, max_read_cursor,
               sb', published_sequences, max_read_cursor)
      BY <1>0, <1>1, <2>1, <2>a, LaneShifts, Zenon
    <3>4. Kept("completed", sb, worker_completed_sequences, worker_completed_cursor,
               sb', worker_completed_sequences, worker_completed_cursor)
      BY <1>0, <1>1, <2>1, <2>a, LaneShifts, Zenon
    <3> QED
      BY <1>1, <1>3, <3>1, <3>2, <3>3, <3>4, Zenon
  <2>2. CASE e.loc = "published"
    <3>1. /\ UNCHANGED <<slowest_consumer, worker_completed_sequences>>
          /\ published_sequences' = [published_sequences EXCEPT ![RingIndex(e.seq)] = e.seq]
      BY <1>0, <2>2, Zenon
    <3>2. Kept("published", sb, published_sequences, max_read_cursor,
               sb', published_sequences', max_read_cursor)
      BY <1>0, <1>1, <1>4, <2>2, <2>a, <3>1, LaneFlushes, Zenon
    <3>3. Kept("completed", sb, worker_completed_sequences, worker_completed_cursor,
               sb', worker_completed_sequences, worker_completed_cursor)
      BY <1>0, <1>1, <2>2, <2>a, LaneShifts, Zenon
    <3> QED
      BY <1>1, <1>3, <2>0, <3>1, <3>2, <3>3, Zenon
  <2>3. CASE e.loc = "completed"
    <3>1. /\ UNCHANGED <<slowest_consumer, published_sequences>>
          /\ worker_completed_sequences' = [worker_completed_sequences EXCEPT ![RingIndex(e.seq)] = e.seq]
      BY <1>0, <2>3, Zenon
    <3>2. Kept("completed", sb, worker_completed_sequences, worker_completed_cursor,
               sb', worker_completed_sequences', worker_completed_cursor)
      BY <1>0, <1>1, <1>4, <2>3, <2>a, <3>1, LaneFlushes, Zenon
    <3>3. Kept("published", sb, published_sequences, max_read_cursor,
               sb', published_sequences, max_read_cursor)
      BY <1>0, <1>1, <2>3, <2>a, LaneShifts, Zenon
    <3> QED
      BY <1>1, <1>3, <2>0, <3>1, <3>2, <3>3, Zenon
  <2> QED
    BY <1>0, <2>1, <2>2, <2>3, Zenon
<1>6. PublishedSet' = PublishedSet /\ DoneSet' = DoneSet
  BY <1>0, <1>5, SetsCovered, SetsCoveredNext, Zenon DEF Kept, cursors
<1>7. Roles'
  BY <1>0, <1>2, <1>5, Zenon DEF Roles, cursors, parking
<1>8. Parking'
  BY <1>0, ParkingFrame, Zenon DEF parking
<1>9. Marking'
  <2>1. /\ Lane(sb, "published", published_sequences, max_read_cursor)'
        /\ Lane(sb, "completed", worker_completed_sequences, worker_completed_cursor)'
    BY <1>0, <1>5, Zenon DEF Kept, cursors
  <2>2. /\ max_read_cursor' \in Nat /\ max_read_cursor' >= max_read_cursor
        /\ worker_completed_cursor' \in Nat /\ worker_completed_cursor' >= worker_completed_cursor
    BY <1>0, <1>1, SMTT(30) DEF cursors
  <2>3. \A u \in Threads, s \in Nat :
          /\ Seen(sb, u, "published", published_sequences, max_read_cursor, s) =>
               Seen(sb', u, "published", published_sequences', max_read_cursor', s)
          /\ Seen(sb, u, "completed", worker_completed_sequences, worker_completed_cursor, s) =>
               Seen(sb', u, "completed", worker_completed_sequences', worker_completed_cursor', s)
    BY <1>0, <1>5, Zenon DEF Kept, cursors
  <2> QED
    BY <1>0, <2>1, <2>2, <2>3, MarkingStep, Zenon
<1>10. Owning'
  <2>1. /\ \A p \in Publishers : Unpublished(p)' \subseteq Unpublished(p)
        /\ \A w \in Workers : Held(w)' \subseteq Held(w)
    BY <1>0, Zenon DEF Unpublished, Held
  <2>2. CursorsOrdered'
    BY <1>0, <1>5, Zenon DEF Owning, CursorsOrdered, cursors
  <2>3. worker_completed_cursor' \in Nat /\ worker_completed_cursor' >= worker_completed_cursor
    BY <1>0, <1>1, SMTT(30) DEF cursors
  <2> QED
    BY <1>0, <1>6, <2>1, <2>2, <2>3, SameOwning, Zenon DEF cursors
<1>11. Claiming'
  <2>1. ASSUME NEW u \in Threads, NEW n \in DOMAIN sb'[u], sb'[u][n].loc = "slowest"
        PROVE  sb'[u][n].seq <= worker_completed_cursor
    <3>1. \E m \in DOMAIN sb[u] : sb[u][m] = sb'[u][n]
      <4>1. CASE u = t
        BY <1>2, <4>1, Zenon
      <4>2. CASE u # t
        BY <1>2, <4>2, Zenon
      <4> QED
        BY <4>1, <4>2, Zenon
    <3>2. PICK m \in DOMAIN sb[u] : sb[u][m] = sb'[u][n]
      BY <3>1, Zenon
    <3> QED
      BY <2>1, <3>2, Zenon DEF Claiming
  <2> QED
    BY <1>0, <2>1, Zenon DEF Claiming, cursors
<1> QED
  BY <1>6, <1>7, <1>8, <1>9, <1>10, <1>11, Zenon DEF RingInv

-----------------------------------------------------------------------------
(* Every step.                                                             *)

(* Nothing is published or complete at the start.                          *)
LEMMA InitSets == Init => PublishedSet = {} /\ DoneSet = {}
<1> SUFFICES ASSUME Init PROVE PublishedSet = {} /\ DoneSet = {}
  BY Zenon
<1>1. Slotted(published_sequences) = {} /\ Slotted(worker_completed_sequences) = {}
  BY Zenon DEF Init, Slotted
<1>2. Buffers("published") = {} /\ Buffers("completed") = {}
  BY DEF Init, Buffers
<1>3. 1..max_read_cursor = {} /\ 1..worker_completed_cursor = {}
  BY DEF Init
<1> QED
  BY <1>1, <1>2, <1>3, Zenon DEF PublishedSet, DoneSet

-----------------------------------------------------------------------------
(* The ring implements the abstract queue.                                 *)

(* Publishing the range of p is one step of the queue: the range is within *)
(* what was claimed, none of it was published before, and its last entry   *)
(* is free since everything a lap before it is complete.                   *)
LEMMA RangePublished ==
  ASSUME RingInv, NEW p \in Publishers, pc[p] \in {"publish", "mark"},
         PublishedSet' = PublishedSet \cup first[p]..last[p],
         DoneSet' = DoneSet, UNCHANGED <<write_cursor, worker_claim_cursor>>
  PROVE  Queue!Publish
<1>0. p \in Threads
  BY Zenon DEF Threads
<1>1. /\ first[p] \in Nat /\ last[p] \in Nat /\ write_cursor \in Nat /\ worker_completed_cursor \in Nat
      /\ Capacity \in Nat /\ first[p] \in 1..last[p] /\ last[p] <= worker_completed_cursor + Capacity
  BY <1>0, CapacityAssumption, Zenon DEF RingInv, Roles, Claiming
<1>2. Unpublished(p) = first[p]..last[p]
  BY Zenon DEF Unpublished
<1>3. first[p]..last[p] \subseteq (1..write_cursor) \ PublishedSet
  BY <1>2, Zenon DEF RingInv, Owning
<1>4. first[p] \in 1..write_cursor /\ last[p] \in 1..write_cursor
  BY <1>1, <1>3
<1>5. first[p]..last[p] \cap PublishedSet = {}
  BY <1>3, Zenon
<1>6. 1..(last[p] - Capacity) \subseteq 1..worker_completed_cursor
  BY <1>1
<1>7. Queue!Free(last[p])
  BY <1>6, Zenon DEF Queue!Free, DoneSet
<1> QED
  BY <1>4, <1>5, <1>7, Zenon DEF Queue!Publish

(* Every step of the ring is a step of the queue, or changes nothing the   *)
(* queue speaks of.                                                        *)
LEMMA QueueStep == RingInv /\ [Next]_vars => [Queue!Next]_(Queue!vars)
<1> SUFFICES ASSUME RingInv, [Next]_vars PROVE Queue!Next \/ QueueStutters
  BY Zenon DEF QueueStutters, Queue!vars
<1>0. /\ write_cursor \in Nat /\ worker_claim_cursor \in Nat /\ max_read_cursor \in Nat
  BY Zenon DEF RingInv, Roles
<1>1. CASE UNCHANGED vars
  BY <1>1, SetsFrame, Zenon DEF vars, QueueStutters, cursors
<1>2. CASE Next
  <2>1. PICK t \in Threads : Flush(t) \/ Step(t) \/ Calls(t) \/ SpuriousWakeup(t)
    BY <1>2, Zenon DEF Next
  <2>2. CASE Flush(t)
    <3>1. UNCHANGED <<write_cursor, worker_claim_cursor>>
      BY <2>2, Zenon DEF Flush, cursors
    <3> QED
      BY <2>2, <3>1, FlushInv, Zenon DEF QueueStutters
  <2>3. CASE SpuriousWakeup(t)
    BY <2>3, SetsFrame, Zenon DEF SpuriousWakeup, QueueStutters, cursors
  <2>4. CASE Calls(t)
    <3>1. ASSUME NEW n \in Counts, TryClaim(t, n)
          PROVE  QueueStutters
      BY <3>1, SetsFrame, Zenon DEF TryClaim, QueueStutters, cursors
    <3>2. ASSUME NEW n \in Counts, ClaimBlocking(t, n)
          PROVE  Queue!Claim
      <4>1. write_cursor' \in Nat /\ write_cursor' > write_cursor
        BY <1>0, <3>2, CountsAssumption, CapacityAssumption, SMTT(30) DEF ClaimBlocking
      <4>2. PublishedSet' = PublishedSet /\ DoneSet' = DoneSet /\ UNCHANGED worker_claim_cursor
        BY <3>2, SetsFrame, Zenon DEF ClaimBlocking
      <4> QED
        BY <4>1, <4>2, Zenon DEF Queue!Claim
    <3>3. CASE Park(t)
      BY <3>3, SetsFrame, Zenon DEF Park, QueueStutters, cursors
    <3>4. CASE Stop(t)
      BY <3>4, SetsFrame, Zenon DEF Stop, QueueStutters, cursors
    <3> QED
      BY <2>4, <3>1, <3>2, <3>3, <3>4, Zenon DEF Calls, Queue!Next
  <2>5. CASE PublisherStep(t)
    <3>1. CASE CheckCapacity(t)
      BY <3>1, SetsFrame, Zenon DEF CheckCapacity, QueueStutters, cursors
    <3>2. CASE Refresh(t)
      BY <3>2, SetsFrame, Zenon DEF Refresh, QueueStutters, cursors
    <3>3. CASE RefreshCached(t)
      <4>1. UNCHANGED <<write_cursor, worker_claim_cursor>>
        BY <3>3, Zenon DEF RefreshCached, cursors
      <4> QED
        BY <3>3, <4>1, RefreshCachedInv, Zenon DEF QueueStutters
    <3>4. CASE ClaimCas(t)
      <4>1. PublishedSet' = PublishedSet /\ DoneSet' = DoneSet /\ UNCHANGED worker_claim_cursor
        BY <3>4, SetsFrame, Zenon DEF ClaimCas
      <4>2. t \in Publishers /\ pc[t] = "claim_cas"
        BY <3>4, PublisherAt, Zenon DEF RingInv, ClaimCas, At
      <4>3. first[t] \in Nat /\ last[t] \in Nat /\ first[t] \in 1..last[t]
        BY <4>2, Zenon DEF RingInv, Roles, Claiming
      <4>4. CASE write_cursor = first[t] - 1
        <5>1. write_cursor' = last[t]
          BY <3>4, <4>4, Zenon DEF ClaimCas
        <5>2. write_cursor' \in Nat /\ write_cursor' > write_cursor
          BY <4>3, <4>4, <5>1
        <5> QED
          BY <4>1, <5>2, Zenon DEF Queue!Claim, Queue!Next
      <4>5. CASE write_cursor # first[t] - 1
        <5>1. write_cursor' = write_cursor
          BY <3>4, <4>5, Zenon DEF ClaimCas
        <5> QED
          BY <4>1, <5>1, Zenon DEF QueueStutters
      <4> QED
        BY <4>4, <4>5, Zenon
    <3>5. ASSUME NEW b \in BOOLEAN, Write(t, b)
          PROVE  QueueStutters
      BY <3>5, SetsFrame, Zenon DEF Write, QueueStutters, cursors
    <3>6. CASE Publish(t)
      <4>1. t \in Publishers /\ pc[t] = "publish"
        BY <3>6, PublisherAt, Zenon DEF RingInv, Publish, At
      <4>2. UNCHANGED <<write_cursor, worker_claim_cursor>>
        BY <3>6, Zenon DEF Publish
      <4>3. /\ \/ PublishedSet' = PublishedSet
               \/ PublishedSet' = PublishedSet \cup first[t]..last[t]
            /\ DoneSet' = DoneSet
        BY <3>6, PublishInv, Zenon
      <4> QED
        BY <4>1, <4>2, <4>3, RangePublished, Zenon DEF QueueStutters, Queue!Next
    <3>7. CASE MarkPublished(t)
      <4>1. t \in Publishers /\ pc[t] = "mark"
        BY <3>7, PublisherAt, Zenon DEF RingInv, MarkPublished, At
      <4>2. UNCHANGED <<write_cursor, worker_claim_cursor>>
        BY <3>7, Zenon DEF MarkPublished, cursors
      <4>3. PublishedSet' = PublishedSet \cup first[t]..last[t] /\ DoneSet' = DoneSet
        BY <3>7, MarkPublishedInv, Zenon
      <4> QED
        BY <4>1, <4>2, <4>3, RangePublished, Zenon DEF Queue!Next
    <3>8. CASE Visible(t)
      BY <3>8, SetsFrame, Zenon DEF Visible, QueueStutters, cursors
    <3>9. CASE AdvancePublished(t)
      <4>1. UNCHANGED <<write_cursor, worker_claim_cursor>>
        BY <3>9, Zenon DEF AdvancePublished
      <4> QED
        BY <3>9, <4>1, AdvancePublishedInv, Zenon DEF QueueStutters
    <3> QED
      BY <2>5, <3>1, <3>2, <3>3, <3>4, <3>5, <3>6, <3>7, <3>8, <3>9, Zenon DEF PublisherStep
  <2>6. CASE WorkerStep(t)
    <3>1. CASE LoadClaim(t)
      BY <3>1, SetsFrame, Zenon DEF LoadClaim, QueueStutters, cursors
    <3>2. CASE LoadAvailable(t)
      BY <3>2, SetsFrame, Zenon DEF LoadAvailable, QueueStutters, cursors
    <3>3. CASE WorkerCas(t)
      <4>1. /\ PublishedSet' = PublishedSet /\ DoneSet' = DoneSet /\ UNCHANGED write_cursor
        BY <3>3, SetsFrame, Zenon DEF WorkerCas
      <4>2. t \in Workers /\ pc[t] = "worker_cas"
        BY <3>3, WorkerAt, Zenon DEF RingInv, WorkerCas, At
      <4>3. reg[t] \in 1..max_read_cursor
        BY <1>0, <4>2 DEF RingInv, Claiming
      <4>4. CASE worker_claim_cursor = reg[t]
        <5>1. worker_claim_cursor' = worker_claim_cursor + 1
          BY <3>3, <4>4, Zenon DEF WorkerCas
        <5>2. (worker_claim_cursor - 1) + 1 \in PublishedSet
          BY <1>0, <4>3, <4>4 DEF PublishedSet
        <5>3. worker_claim_cursor' - 1 = (worker_claim_cursor - 1) + 1
          BY <1>0, <5>1
        <5> QED
          BY <4>1, <5>2, <5>3, Zenon DEF Queue!Take, Queue!Next
      <4>5. CASE worker_claim_cursor # reg[t]
        <5>1. worker_claim_cursor' = worker_claim_cursor
          BY <3>3, <4>5, Zenon DEF WorkerCas
        <5> QED
          BY <4>1, <5>1, Zenon DEF QueueStutters
      <4> QED
        BY <4>4, <4>5, Zenon
    <3>4. CASE KeepRunning(t)
      BY <3>4, SetsFrame, Zenon DEF KeepRunning, QueueStutters, cursors
    <3>5. CASE Woken(t)
      BY <3>5, SetsFrame, Zenon DEF Woken, QueueStutters, cursors
    <3>6. CASE Leave(t)
      BY <3>6, SetsFrame, Zenon DEF Leave, QueueStutters, cursors
    <3>7. CASE Release(t)
      <4>1. t \in Workers /\ pc[t] = "read"
        BY <3>7, WorkerAt, Zenon DEF RingInv, Release, At
      <4>2. UNCHANGED <<write_cursor, worker_claim_cursor>>
        BY <3>7, Zenon DEF Release, cursors
      <4>3. PublishedSet' = PublishedSet /\ DoneSet' = DoneSet \cup {first[t]}
        BY <3>7, ReleaseInv, Zenon
      <4>4. first[t] \in Held(t)
        BY <4>1, Zenon DEF Held, RingInv, Claiming
      <4>5. first[t] \in (1..(worker_claim_cursor - 1)) \ DoneSet
        BY <4>1, <4>4, Zenon DEF RingInv, Owning
      <4> QED
        BY <4>2, <4>3, <4>5, Zenon DEF Queue!Complete, Queue!Next
    <3>8. CASE AdvanceCompleted(t)
      <4>1. UNCHANGED <<write_cursor, worker_claim_cursor>>
        BY <3>8, Zenon DEF AdvanceCompleted
      <4> QED
        BY <3>8, <4>1, AdvanceCompletedInv, Zenon DEF QueueStutters
    <3> QED
      BY <2>6, <3>1, <3>2, <3>3, <3>4, <3>5, <3>6, <3>7, <3>8, Zenon DEF WorkerStep
  <2>7. CASE LoadCursor(t)
    BY <2>7, SetsFrame, Zenon DEF LoadCursor, QueueStutters, cursors
  <2>8. CASE ProbeNext(t)
    BY <2>8, SetsFrame, Zenon DEF ProbeNext, QueueStutters, cursors
  <2>9. CASE ProbeEnd(t)
    BY <2>9, SetsFrame, Zenon DEF ProbeEnd, QueueStutters, cursors
  <2>10. CASE Notify(t)
    BY <2>10, SetsFrame, Zenon DEF Notify, QueueStutters, cursors
  <2>11. CASE Broadcast(t)
    BY <2>11, SetsFrame, Zenon DEF Broadcast, QueueStutters, cursors
  <2> QED
    BY <2>1, <2>2, <2>3, <2>4, <2>5, <2>6, <2>7, <2>8, <2>9, <2>10, <2>11, Zenon DEF Step
<1> QED
  BY <1>1, <1>2, Zenon

(* The ring starts as an empty queue.                                      *)
LEMMA InitQueue == Init => Queue!Init
BY InitSets DEF Init, Queue!Init

-----------------------------------------------------------------------------
(* The window of the ring that publishers write.                           *)

(* Two sequence numbers of one window of Capacity numbers have different   *)
(* entries.                                                                *)
LEMMA WindowApart ==
  ASSUME NEW low \in Nat, NEW r \in Nat, NEW s \in Nat, r # s,
         r > low, s > low, r <= low + Capacity, s <= low + Capacity
  PROVE  RingIndex(r) # RingIndex(s)
<1> SUFFICES ASSUME r % Capacity = s % Capacity PROVE FALSE
  BY Zenon DEF RingIndex
<1>1. r < s => r + Capacity <= s
  BY LapApart, CapacityAssumption, Zenon
<1>2. s < r => s + Capacity <= r
  BY LapApart, CapacityAssumption, Zenon
<1> QED
  BY <1>1, <1>2, CapacityAssumption

(* A publisher only writes inside the window of Capacity sequence numbers  *)
(* after worker_completed_cursor, so an entry has one user.                *)
LEMMA EntriesApart == RingInv => EntryExclusive
<1> SUFFICES ASSUME RingInv, NEW t \in Threads, NEW u \in Threads, t # u
             PROVE  /\ Unpublished(t) \cap Unpublished(u) = {}
                    /\ Held(t) \cap Held(u) = {}
                    /\ Unpublished(t) \cap Held(u) = {}
                    /\ pc[t] = "write" => \A s \in Unpublished(t) :
                         /\ \A r \in Held(u) : RingIndex(r) # RingIndex(s)
                         /\ pc[u] = "write" => \A r \in Unpublished(u) : RingIndex(r) # RingIndex(s)
  BY Zenon DEF EntryExclusive
<1>0. /\ max_read_cursor \in Nat /\ worker_completed_cursor \in Nat /\ worker_claim_cursor \in Nat
      /\ write_cursor \in Nat /\ Capacity \in Nat
      /\ worker_completed_cursor < worker_claim_cursor
      /\ worker_claim_cursor <= max_read_cursor + 1
  BY CapacityAssumption, Zenon DEF RingInv, Roles, Owning, CursorsOrdered
<1>1. ASSUME NEW v, NEW s \in Unpublished(v)
      PROVE  v \in Publishers /\ s \in Nat /\ s > max_read_cursor
  <2>1. v \in Publishers
    BY Zenon DEF Unpublished
  <2>2. s \in 1..write_cursor /\ s \notin 1..max_read_cursor
    BY <2>1, Zenon DEF RingInv, Owning, PublishedSet
  <2> QED
    BY <1>0, <2>1, <2>2
<1>2. ASSUME NEW v, NEW s \in Held(v)
      PROVE  v \in Workers /\ s \in Nat /\ s > worker_completed_cursor /\ s <= max_read_cursor
  <2>1. v \in Workers
    BY Zenon DEF Held
  <2>2. s \in 1..(worker_claim_cursor - 1) /\ s \notin 1..worker_completed_cursor
    BY <2>1, Zenon DEF RingInv, Owning, DoneSet
  <2> QED
    BY <1>0, <2>1, <2>2
<1>3. ASSUME NEW v, pc[v] = "write", NEW s \in Unpublished(v)
      PROVE  s <= worker_completed_cursor + Capacity
  <2>1. v \in Publishers /\ v \in Threads
    BY <1>1, Zenon DEF Threads
  <2>2. s \in first[v]..last[v]
    BY <1>3, <2>1, Zenon DEF Unpublished
  <2>3. first[v] \in Nat /\ last[v] \in Nat /\ last[v] <= worker_completed_cursor + Capacity
    BY <1>3, <2>1, Zenon DEF RingInv, Roles, Claiming
  <2> QED
    BY <1>0, <2>2, <2>3
<1>4. Unpublished(t) \cap Unpublished(u) = {}
  BY <1>1, Zenon DEF RingInv, Owning
<1>5. Held(t) \cap Held(u) = {}
  BY <1>2, Zenon DEF RingInv, Owning
<1>6. Unpublished(t) \cap Held(u) = {}
  BY <1>0, <1>1, <1>2
<1>7. ASSUME pc[t] = "write", NEW s \in Unpublished(t), NEW r \in Held(u)
      PROVE  RingIndex(r) # RingIndex(s)
  <2>1. s <= worker_completed_cursor + Capacity
    BY <1>3, <1>7, Zenon
  <2>2. /\ s \in Nat /\ r \in Nat /\ r < s /\ r > worker_completed_cursor
    BY <1>0, <1>1, <1>2
  <2> QED
    BY <1>0, <2>1, <2>2, WindowApart
<1>8. ASSUME pc[t] = "write", NEW s \in Unpublished(t), pc[u] = "write", NEW r \in Unpublished(u)
      PROVE  RingIndex(r) # RingIndex(s)
  <2>1. s <= worker_completed_cursor + Capacity /\ r <= worker_completed_cursor + Capacity
    BY <1>3, <1>8, Zenon
  <2>2. /\ s \in Nat /\ r \in Nat /\ s > worker_completed_cursor /\ r > worker_completed_cursor
    BY <1>0, <1>1
  <2>3. r # s
    BY <1>4, Zenon
  <2> QED
    BY <1>0, <2>1, <2>2, <2>3, WindowApart, Zenon
<1> QED
  BY <1>4, <1>5, <1>6, <1>7, <1>8, Zenon
=============================================================================
