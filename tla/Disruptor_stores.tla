-------------------------- MODULE Disruptor_stores --------------------------
(***************************************************************************)
(* The steps of Disruptor that store, or publish, keep the invariant.      *)
(***************************************************************************)
EXTENDS Disruptor_lanes, Disruptor_steps

-----------------------------------------------------------------------------
(* The steps that store.                                                   *)

(* The swap of max_read_cursor keeps the invariant, and publishes the      *)
(* claimed range when it succeeds.                                         *)
LEMMA PublishInv ==
  ASSUME RingInv, NEW p \in Threads, Publish(p)
  PROVE  /\ RingInv'
         /\ \/ PublishedSet' = PublishedSet
            \/ PublishedSet' = PublishedSet \cup first[p]..last[p]
         /\ DoneSet' = DoneSet
<1> Roles /\ Parking /\ Marking /\ Owning /\ Claiming
  BY Zenon DEF RingInv
<1>0. p \in Publishers /\ p \notin Workers /\ pc[p] = "publish"
  BY PublisherAt, Zenon DEF Publish, At
<1>1. CASE max_read_cursor = first[p] - 1
  <2>1. /\ Goto(p, "advance") /\ max_read_cursor' = last[p]
        /\ waits' = [waits EXCEPT ![p] = FALSE]
        /\ UNCHANGED <<write_cursor, worker_claim_cursor, worker_completed_cursor, memory, parking,
                       sb, first, last, reg, probe>>
    BY <1>1, Zenon DEF Publish
  <2>2. /\ first[p] = max_read_cursor + 1 /\ first[p] <= last[p] /\ last[p] <= MaxSequence
        /\ last[p] <= worker_completed_cursor + Capacity
        /\ first[p] \in Nat /\ last[p] \in Nat
    BY <1>0, <1>1 DEF Claiming, Roles
  <2>3. Unpublished(p) = first[p]..last[p] /\ Unpublished(p)' = {}
    BY <1>0, <2>1, Zenon DEF Unpublished, Roles, Goto
  <2>4. last[p] <= write_cursor
    BY <1>0, <2>2, <2>3, SMTT(30) DEF Owning, Roles
  <2>5. /\ Lane(sb, "published", published_sequences, max_read_cursor)'
        /\ PublishedSet' = PublishedSet \cup first[p]..last[p]
        /\ \A u \in Threads, s \in Nat :
             Seen(sb, u, "published", published_sequences, max_read_cursor, s) =>
               Seen(sb', u, "published", published_sequences', max_read_cursor', s)
    <3>1. \A s \in (max_read_cursor + 1)..last[p] : s \notin PublishedSet
      BY <1>0, <2>2, <2>3, Zenon DEF Owning
    <3>2. last[p] >= max_read_cursor
      BY <2>2 DEF Roles
    <3> QED
      BY <2>1, <2>2, <3>1, <3>2, PublishedAdvances, Zenon
  <2>6. DoneSet' = DoneSet
    BY <2>1 DEF DoneSet, Buffers, memory
  <2>7. Roles'
    <3>1. /\ pc' \in [Threads -> Labels] /\ pc'[p] = "advance"
          /\ \A u \in Threads \ {p} : pc'[u] = pc[u]
      BY <2>1, Zenon DEF Roles, Goto, Labels
    <3>2. max_read_cursor' \in Nat /\ waits' \in [Threads -> BOOLEAN]
      BY <2>1, <2>2, Zenon DEF Roles
    <3> QED
      BY <1>0, <2>1, <3>1, <3>2, ThreadsAssumption, Zenon DEF Roles, PublisherLabels, Threads, memory, parking
  <2>8. Parking'
    BY <1>0, <2>1, ParkingFrame, Zenon DEF Roles, Goto, parking, Threads
  <2>9. Marking'
    <3>1. /\ Lane(sb, "published", published_sequences, max_read_cursor)'
          /\ Lane(sb, "completed", worker_completed_sequences, worker_completed_cursor)'
      BY <2>1, <2>5, Zenon DEF Marking, memory
    <3>2. max_read_cursor' \in Nat /\ max_read_cursor' >= max_read_cursor
      BY <2>1, <2>2 DEF Roles
    <3>3. \A u \in Threads : pc'[u] \in {"probe", "advance_cas"} =>
            pc[u] \in {"probe", "advance_cas"} /\ reg'[u] = reg[u] /\ probe'[u] = probe[u]
      BY <2>1, Zenon DEF Goto, Roles
    <3> QED
      <4>1. worker_completed_cursor \in Nat
        BY Zenon DEF Roles
      <4>2. worker_completed_cursor' \in Nat /\ worker_completed_cursor' >= worker_completed_cursor
        BY <2>1, <4>1
      <4>3. UNCHANGED <<worker_completed_sequences, worker_completed_cursor, sb>>
        BY <2>1, Zenon DEF memory
      <4> QED
        BY <2>5, <3>1, <3>2, <3>3, <4>2, <4>3, MarkingStep, Zenon
  <2>10. Owning'
    <3>1. /\ \A q \in Publishers \ {p} : Unpublished(q)' = Unpublished(q)
          /\ \A w \in Workers : Held(w)' = Held(w)
      BY <1>0, <2>1, Zenon DEF Roles, Goto, Unpublished, Held, Threads
    <3>2. CursorsOrdered'
      BY <2>1, <2>2, <2>4 DEF Owning, CursorsOrdered, Roles, memory
    <3>3. \A s \in Unpublished(p) : s <= worker_completed_cursor + Capacity
      <4>1. worker_completed_cursor \in Nat /\ Capacity \in Nat
        BY CapacityAssumption DEF Roles
      <4> QED
        BY <2>2, <2>3, <4>1
    <3> QED
      BY <1>0, <2>1, <2>3, <2>5, <2>6, <3>1, <3>2, <3>3, PublishOwning, Zenon
  <2>11. Claiming'
    <3>1. /\ \A u \in Threads \ {p} : pc'[u] = pc[u] /\ waits'[u] = waits[u]
          /\ pc'[p] = "advance"
      BY <2>1, Zenon DEF Roles, Goto
    <3>2. \A w \in Workers : reg[w] \in Nat /\ (reg[w] <= max_read_cursor => reg[w] <= max_read_cursor')
      <4>1. \A w \in Workers : reg[w] \in Nat
        BY Zenon DEF Roles, Threads
      <4>2. max_read_cursor \in Nat
        BY Zenon DEF Roles
      <4> QED
        BY <2>1, <2>2, <4>1, <4>2
    <3> QED
      BY <1>0, <2>1, <3>1, <3>2, Zenon DEF Claiming, Threads
  <2> QED
    BY <2>5, <2>6, <2>7, <2>8, <2>9, <2>10, <2>11, Zenon DEF RingInv
<1>2. CASE max_read_cursor # first[p] - 1
  <2>1. Goto(p, "mark") /\ UNCHANGED <<cursors, memory, parking, sb, first, last, waits, reg, probe>>
    BY <1>2, Zenon DEF Publish, cursors
  <2>2. Roles'
    BY <1>0, <2>1, ThreadsAssumption, SMTT(30) DEF Roles, Goto, Labels, PublisherLabels, cursors, memory, parking
  <2>3. Parking'
    BY <1>0, <2>1, ParkingFrame, Zenon DEF Roles, Goto, parking, Threads
  <2>4. Marking'
    BY <2>1, MarkingFrame, Zenon DEF Roles, Goto
  <2>5. Owning'
    BY <1>0, <2>1, OwningFrame, ThreadsAssumption, Zenon DEF Roles, Goto, Unpublished, Held, Threads
  <2>6. Claiming'
    BY <1>0, <2>1, Zenon DEF Claiming, Roles, Goto, Threads, cursors
  <2>7. PublishedSet' = PublishedSet /\ DoneSet' = DoneSet
    BY <2>1, SetsFrame, Zenon DEF cursors
  <2> QED
    BY <2>2, <2>3, <2>4, <2>5, <2>6, <2>7, Zenon DEF RingInv
<1> QED
  BY <1>1, <1>2, Zenon DEF RingInv

(* Raising the cached slowest consumer keeps the invariant.                *)
LEMMA RefreshCachedInv ==
  ASSUME RingInv, NEW p \in Threads, RefreshCached(p)
  PROVE  RingInv' /\ PublishedSet' = PublishedSet /\ DoneSet' = DoneSet
<1> Roles /\ Parking /\ Marking /\ Owning /\ Claiming
  BY Zenon DEF RingInv
<1>0. p \in Publishers /\ p \notin Workers /\ pc[p] = "refresh_cached"
  BY PublisherAt, Zenon DEF RefreshCached, At
<1>1. /\ UNCHANGED <<cursors, memory, parking>>
      /\ sb' = IF reg[p] > LoadSlowest(p)
                 THEN [sb EXCEPT ![p] = Append(@, Entry("slowest", reg[p]))] ELSE sb
  BY Zenon DEF RefreshCached
<1>2. /\ reg[p] \in Nat /\ reg[p] <= worker_completed_cursor /\ worker_completed_cursor \in Nat
      /\ first[p] \in 1..last[p] /\ last[p] <= MaxSequence /\ first[p] \in Nat /\ last[p] \in Nat
  BY <1>0, Zenon DEF Claiming, Roles

(* Where the publisher goes.                                               *)
<1>3. /\ \E l \in {"write", "claim_cas", "capacity", "idle"} :
           /\ Goto(p, l)
           /\ l \in {"write", "claim_cas"} => last[p] <= worker_completed_cursor + Capacity
           /\ l # "write" => (l = "capacity" <=> waits[p])
           /\ l = "write" => waits[p]
           /\ l # "idle" => UNCHANGED <<first, last, waits>>
           /\ l = "idle" => waits' = [waits EXCEPT ![p] = FALSE] /\ first' = [first EXCEPT ![p] = 0]
                            /\ last' = [last EXCEPT ![p] = 0]
      /\ reg' = [reg EXCEPT ![p] = 0]
      /\ probe' \in [Threads -> Nat] /\ \A u \in Threads \ {p} : probe'[u] = probe[u]
  <2>0. probe \in [Threads -> Nat] /\ probe = probe
    BY Zenon DEF Roles
  <2>1. CASE HasCapacity(last[p], reg[p])
    <3>1. Goto(p, Granted(p)) /\ reg' = [reg EXCEPT ![p] = 0] /\ UNCHANGED <<first, last, waits, probe>>
      BY <2>1, Zenon DEF RefreshCached
    <3>2. last[p] <= worker_completed_cursor + Capacity
      BY <1>2, <2>1, CapacityAssumption DEF HasCapacity
    <3>3. CASE waits[p]
      BY <2>0, <3>1, <3>2, <3>3, Zenon DEF Granted
    <3>4. CASE ~waits[p]
      BY <2>0, <3>1, <3>2, <3>4, Zenon DEF Granted
    <3> QED
      BY <3>3, <3>4, Zenon
  <2>2. CASE ~HasCapacity(last[p], reg[p]) /\ waits[p]
    <3>1. Goto(p, "capacity") /\ reg' = [reg EXCEPT ![p] = 0] /\ UNCHANGED <<first, last, waits, probe>>
      BY <2>2, Zenon DEF RefreshCached
    <3> QED
      BY <2>0, <2>2, <3>1, Zenon
  <2>3. CASE ~HasCapacity(last[p], reg[p]) /\ ~waits[p]
    <3>1. Goto(p, "idle") /\ Reset(p)
      BY <2>3, Zenon DEF RefreshCached
    <3> QED
      BY <2>0, <2>3, <3>1, Zenon DEF Reset
  <2> QED
    BY <2>1, <2>2, <2>3, Zenon
<1>4. PICK l \in {"write", "claim_cas", "capacity", "idle"} :
        /\ Goto(p, l)
        /\ l \in {"write", "claim_cas"} => last[p] <= worker_completed_cursor + Capacity
        /\ l # "write" => (l = "capacity" <=> waits[p])
        /\ l = "write" => waits[p]
        /\ l # "idle" => UNCHANGED <<first, last, waits>>
        /\ l = "idle" => waits' = [waits EXCEPT ![p] = FALSE] /\ first' = [first EXCEPT ![p] = 0]
                         /\ last' = [last EXCEPT ![p] = 0]
  BY <1>3, Zenon
<1>5. /\ first' \in [Threads -> Nat] /\ last' \in [Threads -> Nat] /\ waits' \in [Threads -> BOOLEAN]
      /\ reg' \in [Threads -> Nat] /\ pc' \in [Threads -> Labels]
      /\ \A u \in Threads \ {p} : /\ first'[u] = first[u] /\ last'[u] = last[u] /\ waits'[u] = waits[u]
                                  /\ reg'[u] = reg[u] /\ pc'[u] = pc[u]
      /\ pc'[p] = l
      /\ l # "idle" => first'[p] = first[p] /\ last'[p] = last[p] /\ waits'[p] = waits[p]
      /\ l = "idle" => ~waits'[p]
  <2>1. CASE l = "idle"
    <3>1. /\ waits' \in [Threads -> BOOLEAN] /\ ~waits'[p]
          /\ \A u \in Threads \ {p} : waits'[u] = waits[u]
      BY <1>4, <2>1, Zenon DEF Roles
    <3>2. /\ first' \in [Threads -> Nat] /\ last' \in [Threads -> Nat]
          /\ reg' \in [Threads -> Nat] /\ pc' \in [Threads -> Labels]
          /\ \A u \in Threads \ {p} : /\ first'[u] = first[u] /\ last'[u] = last[u]
                                      /\ reg'[u] = reg[u] /\ pc'[u] = pc[u]
          /\ pc'[p] = l
      <4>1. /\ first' = [first EXCEPT ![p] = 0] /\ last' = [last EXCEPT ![p] = 0]
            /\ reg' = [reg EXCEPT ![p] = 0] /\ pc' = [pc EXCEPT ![p] = "idle"]
        BY <1>3, <1>4, <2>1, Zenon DEF Goto
      <4> QED
        BY <2>1, <4>1, Zenon DEF Roles, Labels
    <3> QED
      BY <2>1, <3>1, <3>2, Zenon
  <2>2. CASE l # "idle"
    BY <1>3, <1>4, <2>2 DEF Roles, Goto, Labels
  <2> QED
    BY <2>1, <2>2, Zenon
(* What the store does.                                                    *)
<1>6. /\ sb' \in [Threads -> Seq(Stores)]
      /\ Lane(sb, "published", published_sequences, max_read_cursor)'
      /\ Lane(sb, "completed", worker_completed_sequences, worker_completed_cursor)'
      /\ PublishedSet' = PublishedSet /\ DoneSet' = DoneSet
      /\ \A u \in Threads, s \in Nat :
           /\ Seen(sb, u, "published", published_sequences, max_read_cursor, s) =>
                Seen(sb', u, "published", published_sequences', max_read_cursor', s)
           /\ Seen(sb, u, "completed", worker_completed_sequences, worker_completed_cursor, s) =>
                Seen(sb', u, "completed", worker_completed_sequences', worker_completed_cursor', s)
      /\ \A u \in Threads : \A n \in DOMAIN sb'[u] :
           sb'[u][n].loc = "slowest" => sb'[u][n].seq <= worker_completed_cursor'
  <2>1. CASE sb' = sb
    <3>1. PublishedSet' = PublishedSet /\ DoneSet' = DoneSet
      BY <1>1, <2>1, SetsFrame, Zenon DEF cursors
    <3> QED
      BY <1>1, <2>1, <3>1, Zenon DEF Marking, Roles, Claiming, cursors, memory
  <2>2. CASE sb' = [sb EXCEPT ![p] = Append(@, Entry("slowest", reg[p]))]
    <3>1. /\ published_sequences \in [Indexes -> Nat] /\ max_read_cursor \in Nat
          /\ sb \in [Threads -> Seq(Stores)] /\ worker_completed_sequences \in [Indexes -> Nat]
          /\ Lane(sb, "published", published_sequences, max_read_cursor)
          /\ Lane(sb, "completed", worker_completed_sequences, worker_completed_cursor)
      BY Zenon DEF Roles, Marking
    <3>2. /\ sb' \in [Threads -> Seq(Stores)]
          /\ Kept("published", sb, published_sequences, max_read_cursor,
                  sb', published_sequences, max_read_cursor)
      BY <1>2, <2>2, <3>1, SlowestStored, Zenon
    <3>3. Kept("completed", sb, worker_completed_sequences, worker_completed_cursor,
               sb', worker_completed_sequences, worker_completed_cursor)
      BY <1>2, <2>2, <3>1, SlowestStored, Zenon
    <3>4. \A u \in Threads : \A n \in DOMAIN sb'[u] :
           sb'[u][n].loc = "slowest" => sb'[u][n].seq <= worker_completed_cursor'
      <4>1. /\ worker_completed_cursor' \in Nat /\ worker_completed_cursor <= worker_completed_cursor'
            /\ reg[p] <= worker_completed_cursor'
        BY <1>1, <1>2 DEF cursors
      <4> QED
        BY <1>2, <2>2, <4>1, SlowestBounded, Zenon
    <3> QED
      BY <1>1, <3>2, <3>3, <3>4, SetsCovered, SetsCoveredNext, Zenon DEF Kept, cursors, memory
  <2> QED
    BY <1>1, <2>1, <2>2, Zenon
<1>7. Roles'
  <2>1. \A u \in Threads : pc'[u] \in {"probe", "advance_cas"} =>
          pc'[u] = pc[u] /\ probe'[u] = probe[u] /\ reg'[u] = reg[u]
    BY <1>3, <1>5, Zenon
  <2>2. \A q \in Publishers : pc'[q] \in PublisherLabels
    BY <1>5, Zenon DEF Roles, PublisherLabels, Threads
  <2>3. \A w \in Workers : pc'[w] \in WorkerLabels
    BY <1>0, <1>5, Zenon DEF Roles, Threads
  <2>4. \A o \in Stoppers : pc'[o] \in StopperLabels
    BY <1>0, <1>5, ThreadsAssumption, Zenon DEF Roles, Threads
  <2> QED
    BY <1>1, <1>3, <1>5, <1>6, <2>1, <2>2, <2>3, <2>4, Zenon DEF Roles, cursors, memory, parking
<1>8. Parking'
  BY <1>0, <1>1, <1>5, ParkingFrame, Zenon DEF parking, Threads
<1>9. Marking'
  <2>1. \A u \in Threads : pc'[u] \in {"probe", "advance_cas"} =>
          pc[u] \in {"probe", "advance_cas"} /\ probe'[u] = probe[u] /\ reg'[u] = reg[u]
    BY <1>3, <1>5, Zenon
  <2>2. /\ max_read_cursor' \in Nat /\ max_read_cursor' >= max_read_cursor
        /\ worker_completed_cursor' \in Nat /\ worker_completed_cursor' >= worker_completed_cursor
    BY <1>1, SMTT(30) DEF cursors, Roles
  <2> QED
    BY <1>6, <2>1, <2>2, MarkingStep, Zenon
<1>10. Owning'
  <2>1. /\ \A q \in Publishers : Unpublished(q)' \subseteq Unpublished(q)
        /\ \A w \in Workers : Held(w)' \subseteq Held(w)
    <3>1. ASSUME NEW q \in Publishers, q # p
          PROVE  Unpublished(q)' = Unpublished(q)
      BY <1>5, <3>1, Zenon DEF Unpublished, Threads
    <3>2. Unpublished(p)' \subseteq Unpublished(p)
      <4>1. CASE l \in {"idle", "claim_cas"}
        BY <1>4, <1>5, <4>1, Zenon DEF Unpublished
      <4>2. CASE l \in {"write", "capacity"}
        BY <1>0, <1>4, <1>5, <4>2, Zenon DEF Unpublished
      <4> QED
        BY <4>1, <4>2, Zenon
    <3>3. \A w \in Workers : Held(w)' = Held(w)
      BY <1>0, <1>5, Zenon DEF Held, Threads
    <3> QED
      BY <3>1, <3>2, <3>3, Zenon
  <2>2. CursorsOrdered'
    BY <1>1, Zenon DEF Owning, CursorsOrdered, cursors, memory
  <2> QED
    BY <1>1, <1>2, <1>6, <2>1, <2>2, SameOwning DEF cursors
<1>11. Claiming'
  <2>1. ASSUME NEW q \in Publishers
        PROVE  /\ pc'[q] \in {"capacity", "refresh", "refresh_cached", "claim_cas", "write", "publish", "mark"} =>
                    first'[q] \in 1..last'[q] /\ last'[q] <= MaxSequence
               /\ pc'[q] \in {"claim_cas", "write", "publish", "mark"} =>
                    last'[q] <= worker_completed_cursor + Capacity
               /\ pc'[q] \in {"idle", "claim_cas"} => ~waits'[q]
               /\ pc'[q] = "refresh_cached" => reg'[q] <= worker_completed_cursor
    <3>1. CASE q = p
      BY <1>2, <1>4, <1>5, <3>1, Zenon
    <3>2. CASE q # p
      BY <1>5, <3>2, Zenon DEF Claiming, Threads
    <3> QED
      BY <3>1, <3>2, Zenon
  <2>2. \A w \in Workers : pc'[w] = pc[w] /\ reg'[w] = reg[w] /\ first'[w] = first[w]
    BY <1>0, <1>5, Zenon DEF Threads
  <2> QED
    BY <1>1, <1>6, <2>1, <2>2, Zenon DEF Claiming, cursors
<1> QED
  BY <1>6, <1>7, <1>8, <1>9, <1>10, <1>11, Zenon DEF RingInv

(* Marking the claimed range keeps the invariant and publishes the range,  *)
(* though the marks are still in the store buffer.                         *)
LEMMA MarkPublishedInv ==
  ASSUME RingInv, NEW p \in Threads, MarkPublished(p)
  PROVE  /\ RingInv' /\ DoneSet' = DoneSet
         /\ PublishedSet' = PublishedSet \cup first[p]..last[p]
<1> Roles /\ Parking /\ Marking /\ Owning /\ Claiming
  BY Zenon DEF RingInv
<1>0. p \in Publishers /\ p \notin Workers /\ pc[p] = "mark"
  BY PublisherAt, Zenon DEF MarkPublished, At
<1>1. /\ \E l \in {"visible", "advance"} : Goto(p, l)
      /\ sb' = [sb EXCEPT ![p] = @ \o Marks("published", first[p], last[p])]
      /\ UNCHANGED <<cursors, memory, parking, first, last, waits, reg, probe>>
  BY Zenon DEF MarkPublished, locals
<1>2. /\ first[p] <= last[p] /\ last[p] <= MaxSequence /\ first[p] \in Nat /\ last[p] \in Nat
      /\ first[p] >= 1 /\ last[p] <= worker_completed_cursor + Capacity
  BY <1>0, SMTT(30) DEF Claiming, Roles
<1>3. Unpublished(p) = first[p]..last[p] /\ Unpublished(p)' = {}
  BY <1>0, <1>1, Zenon DEF Unpublished, Roles, Goto
<1>4. /\ sb \in [Threads -> Seq(Stores)] /\ published_sequences \in [Indexes -> Nat]
      /\ worker_completed_sequences \in [Indexes -> Nat]
      /\ max_read_cursor \in Nat /\ worker_completed_cursor \in Nat
      /\ Lane(sb, "published", published_sequences, max_read_cursor)
      /\ Lane(sb, "completed", worker_completed_sequences, worker_completed_cursor)
      /\ "published" \in Places /\ "completed" \in Places /\ "slowest" \in Places
  BY Zenon DEF Roles, Marking, Places
<1>5. /\ sb' \in [Threads -> Seq(Stores)]
      /\ Extends(sb, sb', p, "published", first[p]..last[p])
      /\ Aside(sb, sb', "completed") /\ Aside(sb, sb', "slowest")
  <2>1. Stacked(sb, sb', p, "published", first[p]..last[p])
    BY <1>1, <1>2, <1>4, MarksExtend, Zenon
  <2> QED
    BY <2>1, Zenon DEF Stacked, Places
<1>6. /\ Lane(sb', "published", published_sequences, max_read_cursor)
      /\ Covered(sb', "published", published_sequences, max_read_cursor)
           = Covered(sb, "published", published_sequences, max_read_cursor) \cup first[p]..last[p]
      /\ \A u \in Threads, s \in Nat :
           Seen(sb, u, "published", published_sequences, max_read_cursor, s) =>
             Seen(sb', u, "published", published_sequences, max_read_cursor, s)
  <2> DEFINE F == first[p]..last[p]
  <2>1. F \cap Covered(sb, "published", published_sequences, max_read_cursor) = {}
    BY <1>0, <1>3, SetsCovered, Zenon DEF Owning
  <2>2. F \in SUBSET (1..MaxSequence)
    BY <1>2, BoundAssumption
  <2>3. Extends(sb, sb', p, "published", F)
    BY <1>5, Zenon
  <2> HIDE DEF F
  <2>4. Grown("published", sb, sb', published_sequences, max_read_cursor, F)
    BY <1>4, <1>5, <2>1, <2>2, <2>3, LaneGrows, Zenon
  <2> QED
    BY <2>4, Zenon DEF F, Grown
<1>7. Kept("completed", sb, worker_completed_sequences, worker_completed_cursor,
           sb', worker_completed_sequences, worker_completed_cursor)
  BY <1>4, <1>5, LaneAside, Zenon
<1>8. PublishedSet' = PublishedSet \cup Unpublished(p) /\ DoneSet' = DoneSet
  BY <1>1, <1>3, <1>6, <1>7, SetsCovered, SetsCoveredNext, Zenon DEF Kept, cursors, memory
<1>9. Roles'
  <2>1. /\ pc' \in [Threads -> Labels] /\ pc'[p] \in {"visible", "advance"}
        /\ \A u \in Threads \ {p} : pc'[u] = pc[u]
    BY <1>1, Zenon DEF Roles, Goto, Labels
  <2> QED
    BY <1>0, <1>1, <1>5, <2>1, ThreadsAssumption, Zenon
       DEF Roles, PublisherLabels, Threads, cursors, memory, parking
<1>10. Parking'
  BY <1>0, <1>1, ParkingFrame, Zenon DEF Roles, Goto, parking, Threads
<1>11. Marking'
  <2>1. \A u \in Threads : pc'[u] \in {"probe", "advance_cas"} =>
          pc[u] \in {"probe", "advance_cas"} /\ reg'[u] = reg[u] /\ probe'[u] = probe[u]
    BY <1>1, Zenon DEF Goto, Roles
  <2>2. /\ max_read_cursor' \in Nat /\ max_read_cursor' >= max_read_cursor
        /\ worker_completed_cursor' \in Nat /\ worker_completed_cursor' >= worker_completed_cursor
    BY <1>1, <1>4, SMTT(30) DEF cursors
  <2> QED
    BY <1>1, <1>6, <1>7, <2>1, <2>2, MarkingStep, Zenon DEF Kept, cursors, memory
<1>12. Owning'
  <2>1. /\ \A q \in Publishers \ {p} : Unpublished(q)' = Unpublished(q)
        /\ \A w \in Workers : Held(w)' = Held(w)
    BY <1>0, <1>1, Zenon DEF Roles, Goto, Unpublished, Held, Threads
  <2>2. CursorsOrdered'
    BY <1>1, Zenon DEF Owning, CursorsOrdered, cursors, memory
  <2>3. \A s \in Unpublished(p) : s <= worker_completed_cursor + Capacity
    BY <1>2, <1>3, <1>4, CapacityAssumption
  <2> QED
    BY <1>0, <1>1, <1>3, <1>8, <2>1, <2>2, <2>3, PublishOwning, Zenon DEF cursors
<1>13. Claiming'
  <2>1. \A u \in Threads : \A n \in DOMAIN sb'[u] :
           sb'[u][n].loc = "slowest" => sb'[u][n].seq <= worker_completed_cursor
    BY <1>5, SlowestAside, Zenon
  <2>2. /\ \A u \in Threads \ {p} : pc'[u] = pc[u]
        /\ pc'[p] \in {"visible", "advance"}
    BY <1>1, Zenon DEF Goto, Roles
  <2> QED
    BY <1>0, <1>1, <2>1, <2>2, Zenon DEF Claiming, Threads, cursors
<1> QED
  BY <1>3, <1>8, <1>9, <1>10, <1>11, <1>12, <1>13, Zenon DEF RingInv

(* Marking an entry complete keeps the invariant and completes the entry.  *)
LEMMA ReleaseInv ==
  ASSUME RingInv, NEW w \in Threads, Release(w)
  PROVE  /\ RingInv' /\ PublishedSet' = PublishedSet
         /\ DoneSet' = DoneSet \cup {first[w]}
<1> Roles /\ Parking /\ Marking /\ Owning /\ Claiming
  BY Zenon DEF RingInv
<1>0. w \in Workers /\ w \notin Publishers /\ pc[w] = "read"
  BY WorkerAt, Zenon DEF Release, At
<1>1. /\ Goto(w, "advance")
      /\ sb' = [sb EXCEPT ![w] = Append(@, Entry("completed", first[w]))]
      /\ UNCHANGED <<cursors, memory, parking, first, last, waits, reg, probe>>
  BY Zenon DEF Release, locals
<1>2. Held(w) = {first[w]} /\ Held(w)' = {} /\ first[w] \in Nat
  BY <1>0, <1>1, Zenon DEF Held, Roles, Goto, Claiming
<1>3. first[w] \in 1..MaxSequence /\ first[w] \notin DoneSet
  <2>1. first[w] \in 1..(worker_claim_cursor - 1) /\ first[w] \notin DoneSet
    BY <1>0, <1>2, Zenon DEF Owning
  <2> QED
    BY <1>2, <2>1, BoundAssumption, SMTT(30) DEF Owning, CursorsOrdered, Roles
<1>4. /\ sb \in [Threads -> Seq(Stores)] /\ published_sequences \in [Indexes -> Nat]
      /\ worker_completed_sequences \in [Indexes -> Nat]
      /\ max_read_cursor \in Nat /\ worker_completed_cursor \in Nat
      /\ Lane(sb, "published", published_sequences, max_read_cursor)
      /\ Lane(sb, "completed", worker_completed_sequences, worker_completed_cursor)
      /\ "published" \in Places /\ "completed" \in Places /\ "slowest" \in Places
  BY Zenon DEF Roles, Marking, Places
<1>5. /\ sb' \in [Threads -> Seq(Stores)]
      /\ Extends(sb, sb', w, "completed", {first[w]})
      /\ Aside(sb, sb', "published") /\ Aside(sb, sb', "slowest")
  <2>1. Stacked(sb, sb', w, "completed", {first[w]})
    BY <1>1, <1>2, <1>4, MarkExtends, Zenon
  <2> QED
    BY <2>1, Zenon DEF Stacked, Places
<1>6. /\ Lane(sb', "completed", worker_completed_sequences, worker_completed_cursor)
      /\ Covered(sb', "completed", worker_completed_sequences, worker_completed_cursor)
           = Covered(sb, "completed", worker_completed_sequences, worker_completed_cursor) \cup {first[w]}
      /\ \A u \in Threads, s \in Nat :
           Seen(sb, u, "completed", worker_completed_sequences, worker_completed_cursor, s) =>
             Seen(sb', u, "completed", worker_completed_sequences, worker_completed_cursor, s)
  <2> DEFINE F == {first[w]}
  <2>1. F \cap Covered(sb, "completed", worker_completed_sequences, worker_completed_cursor) = {}
    BY <1>3, SetsCovered, Zenon
  <2>2. F \in SUBSET (1..MaxSequence)
    BY <1>3, Zenon
  <2>3. Extends(sb, sb', w, "completed", F)
    BY <1>5, Zenon
  <2> HIDE DEF F
  <2>4. Grown("completed", sb, sb', worker_completed_sequences, worker_completed_cursor, F)
    BY <1>4, <1>5, <2>1, <2>2, <2>3, LaneGrows, Zenon
  <2> QED
    BY <2>4, Zenon DEF F, Grown
<1>7. Kept("published", sb, published_sequences, max_read_cursor,
           sb', published_sequences, max_read_cursor)
  BY <1>4, <1>5, LaneAside, Zenon
<1>8. DoneSet' = DoneSet \cup Held(w) /\ PublishedSet' = PublishedSet
  BY <1>1, <1>2, <1>6, <1>7, SetsCovered, SetsCoveredNext, Zenon DEF Kept, cursors, memory
<1>9. Roles'
  BY <1>0, <1>1, <1>5, ThreadsAssumption, SMTT(30) DEF Roles, Goto, Labels, WorkerLabels, cursors, memory, parking
<1>10. Parking'
  BY <1>0, <1>1, WorkerFrame, Zenon DEF Roles, Parking, Goto, parking, Threads
<1>11. Marking'
  <2>1. \A u \in Threads : pc'[u] \in {"probe", "advance_cas"} =>
          pc[u] \in {"probe", "advance_cas"} /\ reg'[u] = reg[u] /\ probe'[u] = probe[u]
    BY <1>1, Zenon DEF Goto, Roles
  <2>2. /\ max_read_cursor' \in Nat /\ max_read_cursor' >= max_read_cursor
        /\ worker_completed_cursor' \in Nat /\ worker_completed_cursor' >= worker_completed_cursor
    BY <1>1, <1>4, SMTT(30) DEF cursors
  <2> QED
    BY <1>1, <1>6, <1>7, <2>1, <2>2, MarkingStep, Zenon DEF Kept, cursors, memory
<1>12. Owning'
  <2>1. /\ \A q \in Publishers : Unpublished(q)' = Unpublished(q)
        /\ \A v \in Workers \ {w} : Held(v)' = Held(v)
    BY <1>0, <1>1, Zenon DEF Roles, Goto, Unpublished, Held, Threads
  <2> QED
    BY <1>0, <1>1, <1>2, <1>8, <2>1, ReleaseOwning, Zenon DEF memory
<1>13. Claiming'
  <2>1. \A u \in Threads : \A n \in DOMAIN sb'[u] :
           sb'[u][n].loc = "slowest" => sb'[u][n].seq <= worker_completed_cursor
    BY <1>5, SlowestAside, Zenon
  <2>2. /\ \A u \in Threads \ {w} : pc'[u] = pc[u]
        /\ pc'[w] = "advance"
    BY <1>1, Zenon DEF Goto, Roles
  <2> QED
    BY <1>0, <1>1, <2>1, <2>2, Zenon DEF Claiming, Threads, cursors
<1> QED
  BY <1>2, <1>8, <1>9, <1>10, <1>11, <1>12, <1>13, Zenon DEF RingInv

-----------------------------------------------------------------------------
(* The steps that advance over marks.                                      *)

(* Advancing max_read_cursor over the marks probed keeps the invariant and *)
(* publishes nothing new: each mark probed is in memory by now.            *)
LEMMA AdvancePublishedInv ==
  ASSUME RingInv, NEW p \in Threads, AdvancePublished(p)
  PROVE  RingInv' /\ PublishedSet' = PublishedSet /\ DoneSet' = DoneSet
<1> Roles /\ Parking /\ Marking /\ Owning /\ Claiming
  BY Zenon DEF RingInv
<1>0. p \in Publishers /\ p \notin Workers /\ pc[p] = "advance_cas" /\ Drained(p)
  BY ThreadsAssumption, Zenon DEF AdvancePublished, At
<1>1. CASE max_read_cursor = reg[p]
  <2>1. /\ \E l \in {"visible", "notify"} : Goto(p, l)
        /\ max_read_cursor' = probe[p] - 1
        /\ reg' = [reg EXCEPT ![p] = 0] /\ probe' = [probe EXCEPT ![p] = 0]
        /\ UNCHANGED <<write_cursor, worker_claim_cursor, worker_completed_cursor, memory, parking,
                       sb, first, last, waits>>
    BY <1>0, <1>1, Zenon DEF AdvancePublished, Advanced
  <2>2. /\ probe[p] - 1 \in Nat /\ probe[p] - 1 >= max_read_cursor
        /\ \A s \in (max_read_cursor + 1)..(probe[p] - 1) : published_sequences[RingIndex(s)] = s
    <3>1. Probing(p, sb, "published", published_sequences, max_read_cursor) /\ max_read_cursor \in Nat
      BY <1>0, Zenon DEF Marking, Roles
    <3> QED
      BY <1>0, <1>1, <3>1, ProbedInMemory, SMTT(30)
  <2>3. (max_read_cursor + 1)..(probe[p] - 1) \subseteq PublishedSet
    <3>1. ASSUME NEW s \in (max_read_cursor + 1)..(probe[p] - 1)
          PROVE  s \in PublishedSet
      <4>1. s \in Nat \ {0} /\ published_sequences[RingIndex(s)] = s
        BY <2>2 DEF Roles
      <4> QED
        BY <4>1, RingIndexType, Zenon DEF PublishedSet, Slotted, Roles
    <3> QED
      BY <3>1, Zenon
  <2>4. /\ Lane(sb, "published", published_sequences, max_read_cursor)'
        /\ PublishedSet' = PublishedSet
        /\ \A u \in Threads, s \in Nat :
             Seen(sb, u, "published", published_sequences, max_read_cursor, s) =>
               Seen(sb', u, "published", published_sequences', max_read_cursor', s)
    <3>1. PublishedSet' = PublishedSet \cup (max_read_cursor + 1)..(probe[p] - 1)
      BY <2>1, <2>2, PublishedAdvances, Zenon
    <3>2. /\ Lane(sb, "published", published_sequences, max_read_cursor)'
          /\ \A u \in Threads, s \in Nat :
               Seen(sb, u, "published", published_sequences, max_read_cursor, s) =>
                 Seen(sb', u, "published", published_sequences', max_read_cursor', s)
      BY <2>1, <2>2, PublishedAdvances, Zenon
    <3> QED
      BY <2>3, <3>1, <3>2, Zenon
  <2>5. DoneSet' = DoneSet
    BY <2>1, SMTT(30) DEF DoneSet, Buffers, memory
  <2>6. Roles'
    <3>1. /\ pc' \in [Threads -> Labels] /\ pc'[p] \in {"visible", "notify"}
          /\ \A u \in Threads \ {p} : pc'[u] = pc[u] /\ reg'[u] = reg[u] /\ probe'[u] = probe[u]
      BY <2>1, Zenon DEF Roles, Goto, Labels
    <3>2. /\ max_read_cursor' \in Nat /\ 0 \in Nat
          /\ reg' \in [Threads -> Nat] /\ probe' \in [Threads -> Nat]
      BY <2>1, <2>2, Zenon DEF Roles
    <3> QED
      BY <1>0, <2>1, <3>1, <3>2, ThreadsAssumption, Zenon DEF Roles, PublisherLabels, Threads, memory, parking
  <2>7. Parking'
    BY <1>0, <2>1, ParkingFrame, Zenon DEF Roles, Goto, parking, Threads
  <2>8. Marking'
    <3>1. \A u \in Threads : pc'[u] \in {"probe", "advance_cas"} =>
            pc[u] \in {"probe", "advance_cas"} /\ reg'[u] = reg[u] /\ probe'[u] = probe[u]
      BY <2>1, Zenon DEF Goto, Roles
    <3>2. /\ max_read_cursor' \in Nat /\ max_read_cursor' >= max_read_cursor
      BY <2>1, <2>2, Zenon
    <3> QED
      <4>1. /\ worker_completed_cursor \in Nat
            /\ Lane(sb, "completed", worker_completed_sequences, worker_completed_cursor)
        BY Zenon DEF Roles, Marking
      <4>2. worker_completed_cursor' \in Nat /\ worker_completed_cursor' >= worker_completed_cursor
        BY <2>1, <4>1
      <4>3. UNCHANGED <<worker_completed_sequences, worker_completed_cursor, sb>>
        BY <2>1, Zenon DEF memory
      <4>4. Lane(sb, "completed", worker_completed_sequences, worker_completed_cursor)'
        BY <4>1, <4>3 DEF Lane
      <4> QED
        BY <2>4, <3>1, <3>2, <4>2, <4>3, <4>4, MarkingStep, Zenon
  <2>9. Owning'
    <3>1. /\ \A q \in Publishers : Unpublished(q)' \subseteq Unpublished(q)
          /\ \A w \in Workers : Held(w)' \subseteq Held(w)
      BY <1>0, <2>1, Zenon DEF Roles, Goto, Unpublished, Held, Threads
    <3>2. probe[p] - 1 <= write_cursor
      <4>1. CASE probe[p] - 1 = max_read_cursor
        BY <4>1, Zenon DEF Owning, CursorsOrdered
      <4>2. CASE probe[p] - 1 # max_read_cursor
        <5>1. probe[p] - 1 \in (max_read_cursor + 1)..(probe[p] - 1)
          BY <2>2, <4>2, SMTT(30) DEF Roles
        <5>2. probe[p] - 1 \in 1..write_cursor
          BY <2>3, <5>1, Zenon DEF Owning
        <5> QED
          BY <5>2, SMTT(30) DEF Roles
      <4> QED
        BY <4>1, <4>2, Zenon
    <3>3. CursorsOrdered'
      <4>1. /\ CursorsOrdered /\ write_cursor \in Nat /\ max_read_cursor \in Nat
            /\ worker_claim_cursor \in Nat /\ worker_completed_cursor \in Nat /\ slowest_consumer \in Nat
        BY Zenon DEF Owning, Roles
      <4>2. UNCHANGED <<write_cursor, worker_claim_cursor, worker_completed_cursor, slowest_consumer>>
        BY <2>1, Zenon DEF memory
      <4>3. max_read_cursor' = probe[p] - 1
        BY <2>1, Zenon
      <4> QED
        BY <2>2, <3>2, <4>1, <4>2, <4>3 DEF CursorsOrdered
    <3>4. worker_completed_cursor' \in Nat /\ worker_completed_cursor' >= worker_completed_cursor
      BY <2>1, SMTT(30) DEF Roles
    <3> QED
      BY <2>1, <2>4, <2>5, <3>1, <3>3, <3>4, SameOwning, Zenon
  <2>10. Claiming'
    <3>1. /\ \A u \in Threads \ {p} : pc'[u] = pc[u] /\ reg'[u] = reg[u]
          /\ pc'[p] \in {"visible", "notify"}
      BY <2>1, Zenon DEF Goto, Roles
    <3>2. /\ \A w \in Workers : /\ pc'[w] = pc[w] /\ reg'[w] = reg[w]
                                /\ pc[w] = "worker_cas" => reg[w] <= max_read_cursor'
      <4>1. ASSUME NEW w \in Workers, pc[w] = "worker_cas"
            PROVE  reg[w] <= max_read_cursor'
        <5>1. w \in Threads /\ reg[w] \in Nat /\ max_read_cursor \in Nat
          BY Zenon DEF Threads, Roles
        <5> QED
          BY <2>1, <2>2, <4>1, <5>1, SMTT(30) DEF Claiming
      <4> QED
        BY <1>0, <3>1, <4>1, Zenon DEF Threads
    <3> QED
      BY <1>0, <2>1, <3>1, <3>2, Zenon DEF Claiming, Threads
  <2> QED
    BY <2>4, <2>5, <2>6, <2>7, <2>8, <2>9, <2>10, Zenon DEF RingInv
<1>2. CASE max_read_cursor # reg[p]
  <2>1. Goto(p, "advance") /\ UNCHANGED <<cursors, memory, parking, sb, first, last, waits, reg, probe>>
    BY <1>2, Zenon DEF AdvancePublished, cursors, locals
  <2>2. Roles'
    BY <1>0, <2>1, ThreadsAssumption, SMTT(30) DEF Roles, Goto, Labels, PublisherLabels, cursors, memory, parking
  <2>3. Parking'
    BY <1>0, <2>1, ParkingFrame, Zenon DEF Roles, Goto, parking, Threads
  <2>4. Marking'
    BY <2>1, MarkingFrame, Zenon DEF Roles, Goto
  <2>5. Owning'
    BY <1>0, <2>1, OwningFrame, ThreadsAssumption, Zenon DEF Roles, Goto, Unpublished, Held, Threads
  <2>6. Claiming'
    BY <1>0, <2>1, Zenon DEF Claiming, Roles, Goto, Threads, cursors
  <2>7. PublishedSet' = PublishedSet /\ DoneSet' = DoneSet
    BY <2>1, SetsFrame, Zenon DEF cursors
  <2> QED
    BY <2>2, <2>3, <2>4, <2>5, <2>6, <2>7, Zenon DEF RingInv
<1> QED
  BY <1>1, <1>2, Zenon DEF RingInv
=============================================================================
