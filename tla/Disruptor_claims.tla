-------------------------- MODULE Disruptor_claims --------------------------
(***************************************************************************)
(* The steps of Disruptor that claim, load, wait or leave keep the         *)
(* invariant; the workers that sleep are woken.                            *)
(***************************************************************************)
EXTENDS Disruptor_steps, FiniteSetTheorems

-----------------------------------------------------------------------------
(* The steps that claim.                                                   *)

(* claim_range_blocking_internal, adding to the write cursor, keeps the    *)
(* invariant: the numbers added are new.                                   *)
LEMMA ClaimBlockingInv ==
  ASSUME RingInv, NEW p \in Publishers, NEW n \in Counts, ClaimBlocking(p, n)
  PROVE  RingInv'
<1> Roles /\ Parking /\ Marking /\ Owning /\ Claiming
  BY Zenon DEF RingInv
<1>0. p \in Threads /\ p \notin Workers /\ n \in Nat /\ n >= 1
  BY ThreadsAssumption, CountsAssumption, CapacityAssumption DEF Threads
<1>1. /\ pc[p] = "idle" /\ write_cursor + n <= MaxSequence /\ Goto(p, "capacity")
      /\ write_cursor' = write_cursor + n
      /\ first' = [first EXCEPT ![p] = write_cursor + 1]
      /\ last' = [last EXCEPT ![p] = write_cursor + n]
      /\ waits' = [waits EXCEPT ![p] = TRUE]
      /\ UNCHANGED <<max_read_cursor, worker_claim_cursor, worker_completed_cursor, memory, parking,
                     sb, reg, probe>>
  BY Zenon DEF ClaimBlocking, At
<1>2. Roles'
  <2>1. /\ pc' \in [Threads -> Labels] /\ pc'[p] = "capacity" /\ waits' \in [Threads -> BOOLEAN]
        /\ \A u \in Threads \ {p} : pc'[u] = pc[u]
    BY <1>0, <1>1, Zenon DEF Roles, Goto, Labels
  <2>2. write_cursor + 1 \in Nat /\ write_cursor + n \in Nat
    BY <1>0 DEF Roles
  <2>3. write_cursor' \in Nat /\ first' \in [Threads -> Nat] /\ last' \in [Threads -> Nat]
    BY <1>1, <2>2, Zenon DEF Roles
  <2>4. /\ \A q \in Publishers : pc'[q] \in PublisherLabels
        /\ \A w \in Workers : pc'[w] \in WorkerLabels
        /\ \A o \in Stoppers : pc'[o] \in StopperLabels
    BY <2>1, ThreadsAssumption, Zenon DEF Roles, PublisherLabels, Threads
  <2>5. \A u \in Threads : pc'[u] \in {"probe", "advance_cas"} => probe'[u] > reg'[u]
    BY <1>1, <2>1, Zenon DEF Roles
  <2> QED
    BY <1>1, <2>1, <2>3, <2>4, <2>5, Zenon DEF Roles, memory, parking
<1>3. Parking'
  BY <1>0, <1>1, ParkingFrame, Zenon DEF Roles, Goto, parking, Threads
<1>4. Marking'
  BY <1>0, <1>1, MarkingKept, Zenon DEF Roles, Goto
<1>5. Owning'
  <2>1. Unpublished(p)' = (write_cursor + 1)..(write_cursor + n)
    BY <1>0, <1>1, Zenon DEF Roles, Goto, Unpublished
  <2>2. /\ \A q \in Publishers \ {p} : Unpublished(q)' = Unpublished(q)
        /\ \A w \in Workers : Held(w)' = Held(w)
    BY <1>0, <1>1, Zenon DEF Roles, Goto, Unpublished, Held, Threads
  <2>3. write_cursor + n \in Nat /\ write_cursor + n >= write_cursor
    BY <1>0 DEF Roles
  <2> QED
    BY <1>1, <2>1, <2>2, <2>3, GrantOwning, Zenon
<1>6. Claiming'
  BY <1>0, <1>1 DEF Claiming, Roles, Goto, Threads
<1> QED
  BY <1>2, <1>3, <1>4, <1>5, <1>6, Zenon DEF RingInv

(* The swap of the write cursor keeps the invariant: when it succeeds the  *)
(* numbers after the cursor are new, and there is room for them.           *)
LEMMA ClaimCasInv ==
  ASSUME RingInv, NEW p \in Threads, ClaimCas(p)
  PROVE  RingInv'
<1> Roles /\ Parking /\ Marking /\ Owning /\ Claiming
  BY Zenon DEF RingInv
<1>0. p \in Publishers /\ p \notin Workers /\ pc[p] = "claim_cas"
  BY PublisherAt, Zenon DEF ClaimCas, At
<1>1. CASE write_cursor = first[p] - 1
  <2>1. /\ Goto(p, "write") /\ write_cursor' = last[p]
        /\ UNCHANGED <<max_read_cursor, worker_claim_cursor, worker_completed_cursor, memory, parking,
                       sb, first, last, waits, reg, probe>>
    BY <1>1, Zenon DEF ClaimCas, locals
  <2>2. /\ first[p] = write_cursor + 1 /\ first[p] <= last[p] /\ last[p] <= MaxSequence
        /\ last[p] <= worker_completed_cursor + Capacity /\ ~waits[p]
        /\ first[p] \in Nat /\ last[p] \in Nat
    BY <1>0, <1>1 DEF Claiming, Roles
  <2>3. Roles'
    BY <1>0, <2>1, ThreadsAssumption DEF Roles, Goto, Labels, PublisherLabels, memory, parking
  <2>4. Parking'
    BY <1>0, <2>1, ParkingFrame, Zenon DEF Roles, Goto, parking, Threads
  <2>5. Marking'
    BY <1>0, <2>1, MarkingKept, Zenon DEF Roles, Goto
  <2>6. Owning'
    <3>1. Unpublished(p)' = (write_cursor + 1)..last[p]
      BY <1>0, <2>1, <2>2, Zenon DEF Roles, Goto, Unpublished
    <3>2. /\ \A q \in Publishers \ {p} : Unpublished(q)' = Unpublished(q)
          /\ \A w \in Workers : Held(w)' = Held(w)
      BY <1>0, <2>1, Zenon DEF Roles, Goto, Unpublished, Held, Threads
    <3>3. last[p] >= write_cursor
      BY <2>2, SMTT(30) DEF Roles
    <3> QED
      BY <1>0, <2>1, <2>2, <3>1, <3>2, <3>3, GrantOwning, Zenon
  <2>7. Claiming'
    BY <1>0, <2>1, <2>2, Zenon DEF Claiming, Roles, Goto, Threads
  <2> QED
    BY <2>3, <2>4, <2>5, <2>6, <2>7, Zenon DEF RingInv
<1>2. CASE write_cursor # first[p] - 1
  <2>1. /\ Goto(p, "idle") /\ Reset(p)
        /\ UNCHANGED <<cursors, memory, parking, sb>>
    BY <1>2, Zenon DEF ClaimCas, cursors
  <2>2. Roles'
    BY <1>0, <2>1, ThreadsAssumption
       DEF Roles, Goto, Reset, Labels, PublisherLabels, cursors, memory, parking
  <2>3. Parking'
    BY <1>0, <2>1, ParkingFrame, Zenon DEF Roles, Goto, Reset, parking, Threads
  <2>4. Marking'
    BY <2>1, MarkingFrame, Zenon DEF Roles, Goto, Reset
  <2>5. Owning'
    BY <1>0, <2>1, OwningFrame, ThreadsAssumption, Zenon DEF Roles, Goto, Reset, Unpublished, Held, Threads
  <2>6. Claiming'
    BY <1>0, <2>1, Zenon DEF Claiming, Roles, Goto, Reset, Threads, cursors
  <2> QED
    BY <2>2, <2>3, <2>4, <2>5, <2>6, Zenon DEF RingInv
<1> QED
  BY <1>1, <1>2, Zenon DEF RingInv

(* The swap of the claim cursor keeps the invariant: when it succeeds the  *)
(* number is visible and nobody else has claimed it.                       *)
LEMMA WorkerCasInv ==
  ASSUME RingInv, NEW w \in Threads, WorkerCas(w)
  PROVE  RingInv'
<1> Roles /\ Parking /\ Marking /\ Owning /\ Claiming
  BY Zenon DEF RingInv
<1>0. w \in Workers /\ w \notin Publishers /\ pc[w] = "worker_cas"
  BY WorkerAt, Zenon DEF WorkerCas, At
<1>1. CASE worker_claim_cursor = reg[w]
  <2>1. /\ Goto(w, IF waits[w] THEN "leave" ELSE "read")
        /\ worker_claim_cursor' = reg[w] + 1
        /\ first' = [first EXCEPT ![w] = reg[w]] /\ last' = [last EXCEPT ![w] = reg[w]]
        /\ reg' = [reg EXCEPT ![w] = 0]
        /\ UNCHANGED <<write_cursor, max_read_cursor, worker_completed_cursor, memory, parking, sb,
                       waits, probe>>
    BY <1>1, Zenon DEF WorkerCas
  <2>2. reg[w] \in Nat /\ reg[w] >= 1 /\ reg[w] <= max_read_cursor
    BY <1>0 DEF Claiming, Roles
  <2>3. Roles'
    <3>1. /\ pc' \in [Threads -> Labels] /\ pc'[w] \in {"leave", "read"}
          /\ \A u \in Threads \ {w} : pc'[u] = pc[u] /\ reg'[u] = reg[u]
      BY <2>1, Zenon DEF Roles, Goto, Labels
    <3>2. 0 \in Nat /\ reg[w] + 1 \in Nat
      BY <2>2
    <3>3. /\ worker_claim_cursor' \in Nat /\ first' \in [Threads -> Nat] /\ last' \in [Threads -> Nat]
          /\ reg' \in [Threads -> Nat]
      BY <2>1, <2>2, <3>2, Zenon DEF Roles
    <3>4. /\ \A q \in Publishers : pc'[q] \in PublisherLabels
          /\ \A v \in Workers : pc'[v] \in WorkerLabels
          /\ \A o \in Stoppers : pc'[o] \in StopperLabels
      BY <1>0, <3>1, ThreadsAssumption, Zenon DEF Roles, WorkerLabels, Threads
    <3>5. \A u \in Threads : pc'[u] \in {"probe", "advance_cas"} => probe'[u] > reg'[u]
      BY <2>1, <3>1, Zenon DEF Roles
    <3> QED
      BY <2>1, <3>1, <3>3, <3>4, <3>5, Zenon DEF Roles, memory, parking
  <2>4. Parking'
    <3>1. Waiting' = Waiting
      BY <2>1, Zenon DEF Waiting
    <3>2. /\ \A v \in Workers \ {w} : pc'[v] = pc[v]
          /\ pc'[w] = IF waits[w] THEN "leave" ELSE "read"
      BY <1>0, <2>1, Zenon DEF Roles, Goto, Threads
    <3> QED
      BY <1>0, <2>1, <3>1, <3>2 DEF Parking, parking
  <2>5. Marking'
    BY <1>0, <2>1, MarkingKept, Zenon DEF Roles, Goto
  <2>6. Owning'
    <3>1. Held(w)' = {worker_claim_cursor}
      BY <1>0, <1>1, <2>1, <2>2, SMTT(30) DEF Roles, Goto, Held
    <3>2. /\ \A q \in Publishers : Unpublished(q)' = Unpublished(q)
          /\ \A v \in Workers \ {w} : Held(v)' = Held(v)
      BY <1>0, <2>1, Zenon DEF Roles, Goto, Unpublished, Held, Threads
    <3> QED
      BY <1>0, <1>1, <2>1, <2>2, <3>1, <3>2, TakeOwning, Zenon
  <2>7. Claiming'
    <3>1. /\ \A u \in Threads \ {w} : pc'[u] = pc[u] /\ first'[u] = first[u] /\ last'[u] = last[u]
                                      /\ reg'[u] = reg[u]
          /\ pc'[w] \in {"leave", "read"} /\ first'[w] = reg[w]
      BY <2>1, Zenon DEF Roles, Goto
    <3>2. \A v \in Workers : reg[v] \in 1..worker_claim_cursor => reg[v] \in 1..worker_claim_cursor'
      <4>1. worker_claim_cursor' \in Nat /\ worker_claim_cursor' = worker_claim_cursor + 1
        BY <1>1, <2>1, <2>2
      <4> QED
        BY <4>1 DEF Roles
    <3>3. reg[w] # 0
      BY <2>2
    <3>4. \A q \in Publishers : pc'[q] = pc[q] /\ first'[q] = first[q] /\ last'[q] = last[q] /\ reg'[q] = reg[q]
      BY <1>0, <3>1, Zenon DEF Threads
    <3>5. \A v \in Workers : v = w \/ (pc'[v] = pc[v] /\ first'[v] = first[v] /\ reg'[v] = reg[v])
      BY <3>1, Zenon DEF Threads
    <3>6. \A v \in Workers :
            /\ pc'[v] \in {"available", "worker_cas"} => reg'[v] \in 1..worker_claim_cursor'
            /\ pc'[v] = "worker_cas" => reg'[v] <= max_read_cursor'
            /\ pc'[v] \in {"idle", "parking", "available", "worker_cas", "keep", "parked", "woken", "stopped"}
                 => first'[v] = 0
            /\ pc'[v] = "read" => first'[v] # 0
      BY <2>1, <3>1, <3>2, <3>3, <3>5, Zenon DEF Claiming
    <3> QED
      BY <2>1, <3>4, <3>6, Zenon DEF Claiming
  <2> QED
    BY <2>3, <2>4, <2>5, <2>6, <2>7, Zenon DEF RingInv
<1>2. CASE worker_claim_cursor # reg[w]
  <2>1. /\ Goto(w, "available") /\ reg' = [reg EXCEPT ![w] = worker_claim_cursor]
        /\ UNCHANGED <<cursors, memory, parking, sb, first, last, waits, probe>>
    BY <1>2, Zenon DEF WorkerCas, cursors
  <2>2. Roles'
    BY <1>0, <2>1, ThreadsAssumption, SMTT(30) DEF Roles, Goto, Labels, WorkerLabels, cursors, memory, parking
  <2>3. Parking'
    BY <1>0, <2>1, WorkerFrame, Zenon DEF Roles, Goto, parking, Threads
  <2>4. Marking'
    BY <2>1, MarkingFrame, Zenon DEF Roles, Goto
  <2>5. Owning'
    BY <1>0, <2>1, OwningFrame, Zenon DEF Roles, Goto, Unpublished, Held, Threads
  <2>6. Claiming'
    BY <1>0, <2>1, SMTT(30) DEF Claiming, Roles, Owning, CursorsOrdered, Goto, Threads, cursors
  <2> QED
    BY <2>2, <2>3, <2>4, <2>5, <2>6, Zenon DEF RingInv
<1> QED
  BY <1>1, <1>2, Zenon DEF RingInv

-----------------------------------------------------------------------------
(* Loads from the own store buffer.                                        *)

(* A bounded set of numbers has a greatest element.                        *)
LEMMA GreatestNatural ==
  ASSUME NEW n \in Nat, NEW S \in SUBSET (0..n), S # {}
  PROVE  \E x \in S : \A y \in S : x >= y
<1> DEFINE R == OpToRel(<, Nat)
           T == {n - i : i \in S}
<1>0. \A i \in S : n - i \in Nat
  BY SMT
<1>1. T \in SUBSET Nat /\ T # {}
  BY <1>0, Zenon
<1>2. PICK x \in T : \A y \in T : ~ (<<y, x>> \in R)
  BY <1>1, WFMin, NatLessThanWellFounded, Zenon
<1>3. ASSUME NEW y \in Nat, y < x PROVE <<y, x>> \in R
  BY <1>3, SMT DEF OpToRel
<1> HIDE DEF R
<1>4. PICK m \in S : x = n - m
  BY Zenon
<1>5. ASSUME NEW i \in S PROVE m >= i
  <2>1. n - i \in T /\ n - i \in Nat
    BY <1>1, Zenon
  <2>2. ~ (n - i < x)
    BY <1>2, <1>3, <2>1, Zenon
  <2> QED
    BY <1>4, <2>2
<1> QED
  BY <1>5, Zenon

(* A load returns what memory holds or what the thread itself stored.      *)
LEMMA LoadReturns ==
  ASSUME Roles, NEW t \in Threads, NEW own \in SUBSET (DOMAIN sb[t]), NEW v
  PROVE  \/ own = {} /\ Load(t, own, v) = v
         \/ \E n \in own : Load(t, own, v) = sb[t][n].seq
<1>1. CASE own = {}
  BY <1>1, Zenon DEF Load
<1>2. CASE own # {}
  <2>1. sb[t] \in Seq(Stores)
    BY Zenon DEF Roles
  <2>2. Len(sb[t]) \in Nat /\ own \in SUBSET (0..Len(sb[t]))
    BY <2>1
  <2>3. Max(own) \in own
    BY <1>2, <2>2, GreatestNatural, Zenon DEF Max
  <2> QED
    BY <1>2, <2>3, Zenon DEF Load
<1> QED
  BY <1>1, <1>2, Zenon

(* The cached slowest reader, wherever it is loaded from, is not ahead of  *)
(* what is complete.                                                       *)
LEMMA SlowestLoaded ==
  ASSUME RingInv, NEW t \in Threads
  PROVE  LoadSlowest(t) \in Nat /\ LoadSlowest(t) <= worker_completed_cursor
<1> DEFINE own == {n \in DOMAIN sb[t] : sb[t][n].loc = "slowest"}
<1>0. own \in SUBSET (DOMAIN sb[t]) /\ LoadSlowest(t) = Load(t, own, slowest_consumer)
  BY Zenon DEF LoadSlowest
<1>1. \/ LoadSlowest(t) = slowest_consumer
      \/ \E n \in own : LoadSlowest(t) = sb[t][n].seq
  <2> HIDE DEF own
  <2> QED
    BY <1>0, LoadReturns DEF RingInv
<1>2. \A n \in own : sb[t][n].seq \in Nat /\ sb[t][n].seq <= worker_completed_cursor
  <2>1. sb[t] \in Seq(Stores)
    BY Zenon DEF RingInv, Roles
  <2>2. \A n \in DOMAIN sb[t] : sb[t][n] \in Stores
    BY <2>1
  <2> QED
    BY <2>2, Zenon DEF Stores, RingInv, Claiming
<1> QED
  BY <1>1, <1>2, Zenon DEF RingInv, Roles, Owning, CursorsOrdered

(* A range found to fit fits: the cached slowest consumer, and the         *)
(* publisher's own buffered update of it, are not ahead of the completed   *)
(* cursor.                                                                 *)
LEMMA CheckCapacityInv ==
  ASSUME RingInv, NEW t \in Threads, CheckCapacity(t)
  PROVE  RingInv'
<1> USE CapacityAssumption
<1> Roles /\ Parking /\ Marking /\ Owning /\ Claiming
  BY Zenon DEF RingInv
<1>0. t \in Publishers /\ t \notin Workers
  BY PublisherAt, Zenon DEF CheckCapacity, At
<1>1. Roles'
  <2>1. /\ pc' \in [Threads -> Labels] /\ pc'[t] \in {"write", "claim_cas", "refresh"}
        /\ \A u \in Threads \ {t} : pc'[u] = pc[u]
    BY Zenon DEF CheckCapacity, Roles, Goto, Granted, Labels
  <2> QED
    BY <1>0, <2>1, ThreadsAssumption, Zenon
       DEF CheckCapacity, Roles, PublisherLabels, Threads, cursors, memory, parking, locals
<1>2. Parking'
  BY <1>0, ParkingFrame, Zenon DEF CheckCapacity, Roles, Goto, parking, locals, Threads
<1>3. Marking'
  BY <1>0, MarkingFrame, Zenon DEF CheckCapacity, Roles, At, Goto, Granted, locals
<1>4. Owning'
  BY <1>0, OwningFrame, ThreadsAssumption, Zenon
     DEF CheckCapacity, Roles, At, Goto, Granted, Unpublished, Held, Threads, locals
<1>5. Claiming'
  <2>1. HasCapacity(last[t], LoadSlowest(t)) => last[t] <= worker_completed_cursor + Capacity
    BY SlowestLoaded, SMTT(30) DEF HasCapacity, Roles
  <2> QED
    BY <1>0, <2>1, ThreadsAssumption, Zenon
       DEF CheckCapacity, Claiming, Roles, At, Goto, Granted, Threads, cursors, locals
<1> QED
  BY <1>1, <1>2, <1>3, <1>4, <1>5, Zenon DEF RingInv

(* A slot found marked is marked in memory or by the thread itself.        *)
LEMMA SlotLoaded ==
  ASSUME Roles, NEW t \in Threads, NEW loc, NEW slots, NEW s \in Nat,
         LoadSlot(t, loc, slots, RingIndex(s)) = s
  PROVE  \/ slots[RingIndex(s)] = s
         \/ \E n \in DOMAIN sb[t] : sb[t][n] = Entry(loc, s)
<1> DEFINE i == RingIndex(s)
           own == {n \in DOMAIN sb[t] : sb[t][n].loc = loc /\ RingIndex(sb[t][n].seq) = i}
<1>1. own \in SUBSET (DOMAIN sb[t]) /\ Load(t, own, slots[i]) = s
  BY Zenon DEF LoadSlot
<1>2. \/ s = slots[i]
      \/ \E n \in own : s = sb[t][n].seq
  <2> HIDE DEF own, i
  <2> QED
    BY <1>1, LoadReturns, Zenon
<1>3. CASE \E n \in own : s = sb[t][n].seq
  <2>1. PICK n \in DOMAIN sb[t] : sb[t][n].loc = loc /\ sb[t][n].seq = s
    BY <1>3, Zenon
  <2>2. sb[t] \in Seq(Stores)
    BY Zenon DEF Roles
  <2>3. sb[t][n] \in Stores
    BY <2>1, <2>2
  <2> QED
    BY <2>1, <2>3, Zenon DEF Stores, Entry
<1> QED
  BY <1>2, <1>3, Zenon

(* One probe more: the range seen grows by the number probed.              *)
LEMMA ProbedOne ==
  ASSUME NEW t, NEW loc, NEW slots, NEW cursor, pc[t] = "probe", probe[t] \in Nat, reg[t] \in Nat,
         Probing(t, sb, loc, slots, cursor), Seen(sb, t, loc, slots, cursor, probe[t]),
         UNCHANGED <<pc, reg, sb>>, probe'[t] = probe[t] + 1,
         NEW slots2, slots2 = slots, NEW cursor2, cursor2 = cursor
  PROVE  /\ reg'[t] <= cursor2
         /\ \A s \in (reg'[t] + 1)..(probe'[t] - 1) : Seen(sb', t, loc, slots2, cursor2, s)
<1>1. \A s \in (reg[t] + 1)..((probe[t] + 1) - 1) : s \in (reg[t] + 1)..(probe[t] - 1) \/ s = probe[t]
  OBVIOUS
<1> QED
  BY <1>1, Zenon DEF Probing, Seen

(* A probe that finds a mark keeps the invariant.                          *)
LEMMA ProbeNextInv ==
  ASSUME RingInv, NEW t \in Threads, ProbeNext(t)
  PROVE  RingInv'
<1> Roles /\ Parking /\ Marking /\ Owning /\ Claiming
  BY Zenon DEF RingInv
<1>0. \/ t \in Publishers /\ t \notin Workers
      \/ t \in Workers /\ t \notin Publishers
  BY ProberAt, Zenon DEF ProbeNext, At
<1>1. Roles'
  BY <1>0, ThreadsAssumption
     DEF ProbeNext, Roles, At, cursors, memory, parking
<1>2. Parking'
  BY ParkingFrame, Zenon DEF ProbeNext, parking
<1>3. Marking'
  <2>1. /\ Lane(sb, "published", published_sequences, max_read_cursor)'
        /\ Lane(sb, "completed", worker_completed_sequences, worker_completed_cursor)'
    <3>1. UNCHANGED <<sb, published_sequences, worker_completed_sequences, max_read_cursor,
                      worker_completed_cursor>>
      BY Zenon DEF ProbeNext, cursors, memory
    <3>2. /\ Lane(sb, "published", published_sequences, max_read_cursor)
          /\ Lane(sb, "completed", worker_completed_sequences, worker_completed_cursor)
      BY Zenon DEF Marking
    <3> QED
      BY <3>1, <3>2 DEF Lane
  <2>2. \A u \in Threads \ {t} : pc'[u] = pc[u] /\ reg'[u] = reg[u] /\ probe'[u] = probe[u]
    BY Zenon DEF ProbeNext, Roles
  <2>3. ASSUME NEW u \in Threads \ {t}
        PROVE  /\ u \in Publishers => Probing(u, sb, "published", published_sequences, max_read_cursor)'
               /\ u \in Workers => Probing(u, sb, "completed", worker_completed_sequences, worker_completed_cursor)'
    <3>1. UNCHANGED <<sb, published_sequences, worker_completed_sequences, max_read_cursor,
                      worker_completed_cursor>>
      BY Zenon DEF ProbeNext, cursors, memory
    <3>2. pc'[u] = pc[u] /\ reg'[u] = reg[u] /\ probe'[u] = probe[u]
      BY <2>2, Zenon
    <3>3. /\ u \in Publishers => Probing(u, sb, "published", published_sequences, max_read_cursor)
          /\ u \in Workers => Probing(u, sb, "completed", worker_completed_sequences, worker_completed_cursor)
      BY Zenon DEF Marking
    <3> QED
      BY <3>1, <3>2, <3>3, Zenon DEF Probing, Seen
  <2>4. probe[t] \in Nat /\ reg[t] \in Nat /\ probe'[t] = probe[t] + 1 /\ reg'[t] = reg[t]
    BY Zenon DEF ProbeNext, Roles
  <2>5. ASSUME t \in Publishers
        PROVE  Probing(t, sb, "published", published_sequences, max_read_cursor)'
    <3>1. \/ published_sequences[RingIndex(probe[t])] = probe[t]
          \/ \E n \in DOMAIN sb[t] : sb[t][n] = Entry("published", probe[t])
      <4>1. LoadSlot(t, "published", published_sequences, RingIndex(probe[t])) = probe[t]
        BY <2>5, Zenon DEF ProbeNext, Probed, ProbePublished
      <4> QED
        BY <2>4, <4>1, SlotLoaded, Zenon
    <3>2. Seen(sb, t, "published", published_sequences, max_read_cursor, probe[t])
      BY <3>1, Zenon DEF Seen
    <3>3. Probing(t, sb, "published", published_sequences, max_read_cursor)
      BY <2>5, Zenon DEF Marking
    <3> QED
      BY <2>4, <3>2, <3>3, ProbedOne, Zenon DEF ProbeNext, At, Probing, cursors, memory
  <2>6. ASSUME t \in Workers
        PROVE  Probing(t, sb, "completed", worker_completed_sequences, worker_completed_cursor)'
    <3>1. \/ worker_completed_sequences[RingIndex(probe[t])] = probe[t]
          \/ \E n \in DOMAIN sb[t] : sb[t][n] = Entry("completed", probe[t])
      <4>1. LoadSlot(t, "completed", worker_completed_sequences, RingIndex(probe[t])) = probe[t]
        BY <1>0, <2>6, Zenon DEF ProbeNext, Probed, ProbeCompleted
      <4> QED
        BY <2>4, <4>1, SlotLoaded, Zenon
    <3>2. Seen(sb, t, "completed", worker_completed_sequences, worker_completed_cursor, probe[t])
      BY <3>1, Zenon DEF Seen
    <3>3. Probing(t, sb, "completed", worker_completed_sequences, worker_completed_cursor)
      BY <2>6, Zenon DEF Marking
    <3> QED
      BY <2>4, <3>2, <3>3, ProbedOne, Zenon DEF ProbeNext, At, Probing, cursors, memory
  <2> QED
    BY <1>0, <2>1, <2>3, <2>5, <2>6, Zenon DEF Marking, Threads
<1>4. Owning'
  BY OwningFrame, ThreadsAssumption, Zenon DEF ProbeNext, Unpublished, Held
<1>5. Claiming'
  BY Zenon DEF ProbeNext, Claiming, cursors
<1> QED
  BY <1>1, <1>2, <1>3, <1>4, <1>5, Zenon DEF RingInv

-----------------------------------------------------------------------------
(* Workers that wait.                                                      *)

(* There are finitely many workers to count.                               *)
LEMMA FiniteWaiting == IsFiniteSet(Waiting) /\ Cardinality(Waiting) \in Nat
<1>1. Waiting \subseteq Workers
  BY Zenon DEF Waiting
<1> QED
  BY <1>1, ThreadsAssumption, FS_Subset, FS_CardinalityType, Zenon

(* Taking worker_wait_mutex and counting oneself keeps the invariant.      *)
LEMMA ParkInv ==
  ASSUME RingInv, NEW w \in Threads, Park(w)
  PROVE  RingInv'
<1> Roles /\ Parking /\ Marking /\ Owning /\ Claiming
  BY Zenon DEF RingInv
<1>0. w \in Workers /\ w \notin Publishers
  BY ThreadsAssumption, Zenon DEF Park
<1>1. /\ pc[w] = "idle" /\ wait_mutex = {} /\ Goto(w, "parking")
      /\ wait_mutex' = {w} /\ worker_waiters' = worker_waiters + 1
      /\ waits' = [waits EXCEPT ![w] = TRUE]
      /\ UNCHANGED <<cursors, memory, keep_running, sb, first, last, reg, probe>>
  BY Zenon DEF Park, At
<1>2. Roles'
  BY <1>0, <1>1, ThreadsAssumption
     DEF Roles, Goto, Labels, WorkerLabels, cursors, memory
<1>3. Parking'
  <2>1. ~waits[w]
    BY <1>0, <1>1, Zenon DEF Parking
  <2>2. /\ \A v \in Workers \ {w} : pc'[v] = pc[v] /\ waits'[v] = waits[v]
        /\ pc'[w] = "parking" /\ waits'[w]
    BY <1>0, <1>1, Zenon DEF Roles, Goto, Threads
  <2>3. Waiting' = Waiting \cup {w} /\ w \notin Waiting
    BY <1>0, <2>1, <2>2, Zenon DEF Waiting
  <2>4. Cardinality(Waiting') = Cardinality(Waiting) + 1
    BY <2>3, FiniteWaiting, FS_AddElement, Zenon
  <2> QED
    BY <1>0, <1>1, <2>2, <2>4 DEF Parking
<1>4. Marking'
  BY <1>1, MarkingFrame, Zenon DEF Roles, Goto
<1>5. Owning'
  BY <1>0, <1>1, OwningFrame, Zenon DEF Roles, Goto, Unpublished, Held, Threads
<1>6. Claiming'
  BY <1>0, <1>1 DEF Claiming, Roles, Goto, Threads, cursors
<1> QED
  BY <1>2, <1>3, <1>4, <1>5, <1>6, Zenon DEF RingInv

(* Giving up the count and worker_wait_mutex keeps the invariant.          *)
LEMMA LeaveInv ==
  ASSUME RingInv, NEW w \in Threads, Leave(w)
  PROVE  RingInv'
<1> Roles /\ Parking /\ Marking /\ Owning /\ Claiming
  BY Zenon DEF RingInv
<1>0. w \in Workers /\ w \notin Publishers
  BY WorkerAt, Zenon DEF Leave, At
<1>1. /\ pc[w] = "leave" /\ Goto(w, IF first[w] = 0 THEN "stopped" ELSE "read")
      /\ wait_mutex' = {} /\ worker_waiters' = worker_waiters - 1
      /\ waits' = [waits EXCEPT ![w] = FALSE]
      /\ UNCHANGED <<cursors, memory, keep_running, sb, first, last, reg, probe>>
  BY Zenon DEF Leave, At
<1>2. Roles'
  BY <1>0, <1>1, ThreadsAssumption
     DEF Roles, Goto, Labels, WorkerLabels, cursors, memory
<1>3. Parking'
  <2>1. waits[w] /\ w \in wait_mutex
    BY <1>0, <1>1, Zenon DEF Parking
  <2>2. /\ \A v \in Workers \ {w} : pc'[v] = pc[v] /\ waits'[v] = waits[v]
        /\ pc'[w] \in {"stopped", "read"} /\ ~waits'[w]
    BY <1>0, <1>1, Zenon DEF Roles, Goto, Threads
  <2>3. Waiting' = Waiting \ {w} /\ w \in Waiting
    BY <1>0, <2>1, <2>2, Zenon DEF Waiting
  <2>4. Cardinality(Waiting') = Cardinality(Waiting) - 1
    BY <2>3, FiniteWaiting, FS_RemoveElement, Zenon
  <2> QED
    BY <1>0, <1>1, <2>1, <2>2, <2>4 DEF Parking
<1>4. Marking'
  BY <1>1, MarkingFrame, Zenon DEF Roles, Goto
<1>5. Owning'
  BY <1>0, <1>1, OwningFrame, Zenon DEF Roles, Goto, Unpublished, Held, Threads
<1>6. Claiming'
  BY <1>0, <1>1, Zenon DEF Claiming, Roles, Goto, Threads, cursors
<1> QED
  BY <1>2, <1>3, <1>4, <1>5, <1>6, Zenon DEF RingInv

-----------------------------------------------------------------------------
(* Sleeping workers.                                                       *)

(* A step that leaves every waker one, makes nothing visible and lets no   *)
(* worker decide to sleep.                                                 *)
LEMMA WakersStay ==
  ASSUME Waking, UNCHANGED <<max_read_cursor, keep_running>>,
         worker_claim_cursor \in Nat, worker_claim_cursor' \in Nat, max_read_cursor \in Nat,
         worker_claim_cursor' >= worker_claim_cursor,
         \A t \in Publishers \cup Stoppers : pc[t] \in Wakers => pc'[t] \in Wakers,
         \A w \in Workers :
           /\ pc'[w] = "keep" /\ waits'[w] => pc[w] = "keep" /\ waits[w]
           /\ pc'[w] = "parked" => \/ pc[w] = "parked" /\ waits[w]
                                   \/ pc[w] = "keep" /\ waits[w] /\ keep_running
  PROVE  Waking'
<1>1. \A w \in Workers :
        waits'[w] /\ pc'[w] \in {"keep", "parked"} /\ worker_claim_cursor' <= max_read_cursor' =>
          waits[w] /\ pc[w] \in {"keep", "parked"} /\ worker_claim_cursor <= max_read_cursor
  OBVIOUS
<1>2. \A w \in Workers : pc'[w] = "parked" /\ ~keep_running' => pc[w] = "parked" /\ ~keep_running
  BY Zenon
<1> QED
  BY <1>1, <1>2, Zenon DEF Waking

(* A quiet step leaves every sleeping worker its waker.                    *)
LEMMA QuietStep ==
  ASSUME RingInv, Waking, NEW t \in Threads, NEW l, Quiet(t, l)
  PROVE  Waking'
<1>1. /\ worker_claim_cursor \in Nat /\ max_read_cursor \in Nat /\ pc \in [Threads -> Labels]
      /\ \A w \in Workers : pc[w] = "parked" => waits[w]
      /\ Workers \subseteq Threads /\ Publishers \cup Stoppers \subseteq Threads
      /\ (Publishers \cup Stoppers) \cap Workers = {}
  BY ThreadsAssumption, Zenon DEF RingInv, Roles, Parking, Threads
<1>2. /\ pc'[t] = l /\ \A u \in Threads \ {t} : pc'[u] = pc[u]
  BY <1>1, Zenon DEF Quiet
<1>3. \A u \in Publishers \cup Stoppers : pc[u] \in Wakers => pc'[u] \in Wakers
  BY <1>1, <1>2, Zenon DEF Quiet
<1>4. ASSUME NEW w \in Workers
      PROVE  /\ pc'[w] = "keep" /\ waits'[w] => pc[w] = "keep" /\ waits[w]
             /\ pc'[w] = "parked" => \/ pc[w] = "parked" /\ waits[w]
                                     \/ pc[w] = "keep" /\ waits[w] /\ keep_running
  BY <1>1, <1>2, Zenon DEF Quiet
<1> QED
  BY <1>1, <1>3, <1>4, WakersStay, Zenon DEF Quiet

(* A publisher that is a waker after the step will look for sleepers.      *)
LEMMA WakerArrives ==
  ASSUME Waking, NEW p \in Publishers, pc'[p] \in Wakers
  PROVE  Waking'
BY Zenon DEF Waking

(* Every step keeps a waker awake; worker_waiters = 0 must mean that no    *)
(* worker waits.                                                           *)
LEMMA NextWaking ==
  ASSUME RingInv, Waking, [Next]_vars, worker_waiters = 0 => Waiting = {}
  PROVE  Waking'
<1>0. /\ worker_claim_cursor \in Nat /\ max_read_cursor \in Nat /\ pc \in [Threads -> Labels]
      /\ waits \in [Threads -> BOOLEAN] /\ keep_running \in BOOLEAN
      /\ Workers \subseteq Threads /\ Publishers \subseteq Threads /\ Stoppers \subseteq Threads
  BY Zenon DEF RingInv, Roles, Threads
<1>1. CASE UNCHANGED vars
  BY <1>1, Zenon DEF vars, Waking, cursors, parking, locals
<1>2. CASE Next
  <2>1. PICK t \in Threads : Flush(t) \/ Step(t) \/ Calls(t) \/ SpuriousWakeup(t)
    BY <1>2, Zenon DEF Next
  <2>2. CASE Flush(t)
    BY <2>2, Zenon DEF Flush, Waking, cursors, parking, locals
  <2>3. CASE SpuriousWakeup(t)
    <3>1. t \in Workers
      BY <2>3, WorkerAt, Zenon DEF RingInv, SpuriousWakeup, At
    <3>2. Quiet(t, "woken")
      BY <1>0, <2>3, <3>1 DEF SpuriousWakeup, Quiet, At, Goto, cursors, parking, locals
    <3> QED
      BY <3>2, QuietStep, Zenon
  <2>4. CASE Calls(t)
    <3>1. ASSUME t \in Publishers, NEW n \in Counts, TryClaim(t, n)
          PROVE  Waking'
      <4>1. Quiet(t, "capacity")
        BY <1>0, <3>1, SMTT(30) DEF TryClaim, Quiet, At, Goto, Wakers, cursors, parking
      <4> QED
        BY <4>1, QuietStep, Zenon
    <3>2. ASSUME t \in Publishers, NEW n \in Counts, ClaimBlocking(t, n)
          PROVE  Waking'
      <4>1. Quiet(t, "capacity")
        BY <1>0, <3>2 DEF ClaimBlocking, Quiet, At, Goto, Wakers, parking
      <4> QED
        BY <4>1, QuietStep, Zenon
    <3>3. CASE Park(t)
      <4>1. Quiet(t, "parking")
        BY <1>0, <3>3 DEF Park, Quiet, At, Goto, Wakers, cursors
      <4> QED
        BY <4>1, QuietStep, Zenon
    <3>4. CASE Stop(t)
      <4>1. /\ t \in Stoppers /\ pc[t] = "idle" /\ pc'[t] = "notify"
            /\ \A u \in Threads \ {t} : pc'[u] = pc[u]
            /\ UNCHANGED <<max_read_cursor, worker_claim_cursor, waits>>
        BY <1>0, <3>4, Zenon DEF Stop, At, Goto, cursors, locals
      <4>2. t \notin Workers /\ t \notin Publishers
        BY <4>1, ThreadsAssumption, Zenon
      <4>3. \A u \in Workers \cup Publishers : pc'[u] = pc[u]
        BY <1>0, <4>1, <4>2, Zenon
      <4> QED
        BY <4>1, <4>3, Zenon DEF Waking, Wakers
    <3> QED
      BY <2>4, <3>1, <3>2, <3>3, <3>4, Zenon DEF Calls
  <2>5. CASE PublisherStep(t)
    <3>1. CASE CheckCapacity(t)
      <4>1. PICK l \in {"write", "claim_cas", "refresh"} : pc' = [pc EXCEPT ![t] = l]
        BY <3>1, Zenon DEF CheckCapacity, Goto, Granted
      <4>2. Quiet(t, l)
        BY <1>0, <3>1, <4>1 DEF CheckCapacity, Quiet, At, Wakers, cursors, parking, locals
      <4> QED
        BY <4>2, QuietStep, Zenon
    <3>2. CASE Refresh(t)
      <4>1. Quiet(t, "refresh_cached")
        BY <1>0, <3>2 DEF Refresh, Quiet, At, Goto, Wakers, cursors, parking
      <4> QED
        BY <4>1, QuietStep, Zenon
    <3>3. CASE RefreshCached(t)
      <4>0. /\ UNCHANGED <<cursors, parking>> /\ pc[t] = "refresh_cached"
            /\ \/ pc' = [pc EXCEPT ![t] = Granted(t)] /\ UNCHANGED waits
               \/ pc' = [pc EXCEPT ![t] = "capacity"] /\ UNCHANGED waits
               \/ pc' = [pc EXCEPT ![t] = "idle"] /\ waits' = [waits EXCEPT ![t] = FALSE]
        BY <3>3, Zenon DEF RefreshCached, At, Goto, Reset
      <4>1. PICK l \in {"write", "claim_cas", "capacity", "idle"} :
              /\ pc' = [pc EXCEPT ![t] = l]
              /\ UNCHANGED waits \/ waits' = [waits EXCEPT ![t] = FALSE]
        BY <4>0, Zenon DEF Granted
      <4>2. \A u \in Threads \ {t} : waits'[u] = waits[u]
        BY <1>0, <4>1, Zenon
      <4>3. Quiet(t, l)
        BY <1>0, <4>0, <4>1, <4>2, SMTT(30) DEF Quiet, Wakers, cursors, parking
      <4> QED
        BY <4>3, QuietStep, Zenon
    <3>4. CASE ClaimCas(t)
      <4>0. /\ UNCHANGED <<max_read_cursor, worker_claim_cursor, keep_running>> /\ pc[t] = "claim_cas"
            /\ \/ pc' = [pc EXCEPT ![t] = "write"] /\ UNCHANGED waits
               \/ pc' = [pc EXCEPT ![t] = "idle"] /\ waits' = [waits EXCEPT ![t] = FALSE]
        BY <3>4, Zenon DEF ClaimCas, At, Goto, Reset, parking, locals
      <4>1. PICK l \in {"write", "idle"} :
              /\ pc' = [pc EXCEPT ![t] = l]
              /\ UNCHANGED waits \/ waits' = [waits EXCEPT ![t] = FALSE]
        BY <4>0, Zenon
      <4>2. \A u \in Threads \ {t} : waits'[u] = waits[u]
        BY <1>0, <4>1, Zenon
      <4>3. Quiet(t, l)
        BY <1>0, <4>0, <4>1, <4>2 DEF Quiet, Wakers
      <4> QED
        BY <4>3, QuietStep, Zenon
    <3>5. ASSUME NEW b \in BOOLEAN, Write(t, b)
          PROVE  Waking'
      <4>1. Quiet(t, "publish")
        BY <1>0, <3>5 DEF Write, Quiet, At, Goto, Wakers, cursors, parking
      <4> QED
        BY <4>1, QuietStep, Zenon
    <3>6. CASE Publish(t)
      <4>0. t \in Publishers /\ pc[t] = "publish"
        BY <3>6, PublisherAt, Zenon DEF RingInv, Publish, At
      <4>1. CASE max_read_cursor = first[t] - 1
        <5>1. pc'[t] = "advance"
          BY <1>0, <3>6, <4>1, Zenon DEF Publish, Goto
        <5> QED
          BY <4>0, <5>1, WakerArrives, Zenon DEF Wakers
      <4>2. CASE max_read_cursor # first[t] - 1
        <5>1. Quiet(t, "mark")
          BY <1>0, <3>6, <4>0, <4>2 DEF Publish, Quiet, Goto, Wakers, parking
        <5> QED
          BY <5>1, QuietStep, Zenon
      <4> QED
        BY <4>1, <4>2, Zenon
    <3>7. CASE MarkPublished(t)
      <4>1. PICK l \in {"visible", "advance"} : pc' = [pc EXCEPT ![t] = l]
        BY <3>7, Zenon DEF MarkPublished, Goto
      <4>2. Quiet(t, l)
        BY <1>0, <3>7, <4>1 DEF MarkPublished, Quiet, At, Wakers, cursors, parking, locals
      <4> QED
        BY <4>2, QuietStep, Zenon
    <3>8. CASE Visible(t)
      <4>1. PICK l \in {"notify", "advance"} : pc' = [pc EXCEPT ![t] = l]
        BY <3>8, Zenon DEF Visible, Goto
      <4>2. Quiet(t, l)
        BY <1>0, <3>8, <4>1 DEF Visible, Quiet, At, Wakers, cursors, parking, locals
      <4> QED
        BY <4>2, QuietStep, Zenon
    <3>9. CASE AdvancePublished(t)
      <4>0. t \in Publishers /\ t \notin Workers
        BY <3>9, ThreadsAssumption, Zenon DEF AdvancePublished
      <4>1. pc'[t] \in {"visible", "notify", "advance"}
        BY <1>0, <3>9, <4>0, Zenon DEF AdvancePublished, Advanced, Goto
      <4> QED
        BY <4>0, <4>1, WakerArrives, Zenon DEF Wakers
    <3> QED
      BY <2>5, <3>1, <3>2, <3>3, <3>4, <3>5, <3>6, <3>7, <3>8, <3>9, Zenon DEF PublisherStep
  <2>6. CASE WorkerStep(t)
    <3>1. CASE LoadClaim(t)
      <4>1. Quiet(t, "available")
        BY <1>0, <3>1 DEF LoadClaim, Quiet, Goto, Wakers, cursors, parking
      <4> QED
        BY <4>1, QuietStep, Zenon
    <3>2. CASE LoadAvailable(t)
      <4>0. t \in Workers /\ t \notin Publishers /\ pc[t] = "available"
        BY <3>2, WorkerAt, Zenon DEF RingInv, LoadAvailable, At
      <4>1. UNCHANGED <<max_read_cursor, worker_claim_cursor, keep_running, waits>>
        BY <3>2, Zenon DEF LoadAvailable, cursors, parking, locals
      <4>2. CASE reg[t] > max_read_cursor
        <5>1. reg[t] \in Nat /\ reg[t] <= worker_claim_cursor
          BY <1>0, <4>0 DEF RingInv, Claiming
        <5>2. ~(worker_claim_cursor' <= max_read_cursor')
          BY <1>0, <4>1, <4>2, <5>1
        <5>3. /\ pc'[t] = "keep" /\ \A u \in Threads \ {t} : pc'[u] = pc[u]
          BY <1>0, <3>2, <4>2, Zenon DEF LoadAvailable, Goto
        <5>4. /\ \A w \in Workers : pc'[w] = "parked" => pc[w] = "parked"
              /\ \A u \in Publishers \cup Stoppers : pc[u] \in Wakers => pc'[u] \in Wakers
          BY <1>0, <4>0, <5>3, Zenon DEF Wakers
        <5> QED
          BY <4>1, <5>2, <5>4, Zenon DEF Waking
      <4>3. CASE ~(reg[t] > max_read_cursor)
        <5>1. pc' = [pc EXCEPT ![t] = "worker_cas"]
          BY <3>2, <4>3, Zenon DEF LoadAvailable, Goto
        <5>2. Quiet(t, "worker_cas")
          BY <1>0, <4>0, <4>1, <5>1 DEF Quiet, Wakers
        <5> QED
          BY <5>2, QuietStep, Zenon
      <4> QED
        BY <4>2, <4>3, Zenon
    <3>3. CASE WorkerCas(t)
      <4>0. t \in Workers /\ pc[t] = "worker_cas" /\ reg[t] \in Nat
        BY <3>3, WorkerAt, Zenon DEF RingInv, Roles, WorkerCas, At
      <4>1. PICK l \in {"leave", "read", "available"} : pc' = [pc EXCEPT ![t] = l]
        BY <3>3, Zenon DEF WorkerCas, Goto
      <4>2. worker_claim_cursor' \in Nat /\ worker_claim_cursor' >= worker_claim_cursor
        BY <1>0, <3>3, <4>0 DEF WorkerCas
      <4>3. Quiet(t, l)
        BY <1>0, <3>3, <4>0, <4>1, <4>2, Zenon DEF WorkerCas, Quiet, Wakers, parking
      <4> QED
        BY <4>3, QuietStep, Zenon
    <3>4. CASE KeepRunning(t)
      <4>0. t \in Workers /\ pc[t] = "keep"
        BY <3>4, WorkerAt, Zenon DEF RingInv, KeepRunning, At
      <4>1. PICK l \in {"parked", "leave", "idle", "stopped"} :
              /\ pc' = [pc EXCEPT ![t] = l]
              /\ l = "parked" => waits[t] /\ keep_running
        BY <3>4, Zenon DEF KeepRunning, Goto
      <4>2. Quiet(t, l)
        BY <1>0, <3>4, <4>0, <4>1 DEF KeepRunning, Quiet, Wakers, cursors
      <4> QED
        BY <4>2, QuietStep, Zenon
    <3>5. CASE Woken(t)
      <4>1. Quiet(t, "parking")
        BY <1>0, <3>5 DEF Woken, Quiet, At, Goto, Wakers, cursors, locals
      <4> QED
        BY <4>1, QuietStep, Zenon
    <3>6. CASE Leave(t)
      <4>1. PICK l \in {"stopped", "read"} : pc' = [pc EXCEPT ![t] = l]
        BY <3>6, Zenon DEF Leave, Goto
      <4>2. Quiet(t, l)
        BY <1>0, <3>6, <4>1 DEF Leave, Quiet, At, Wakers, cursors
      <4> QED
        BY <4>2, QuietStep, Zenon
    <3>7. CASE Release(t)
      <4>1. Quiet(t, "advance")
        BY <1>0, <3>7 DEF Release, Quiet, At, Goto, Wakers, cursors, parking, locals
      <4> QED
        BY <4>1, QuietStep, Zenon
    <3>8. CASE AdvanceCompleted(t)
      <4>0. t \in Workers /\ t \notin Publishers /\ pc[t] = "advance_cas"
        BY <3>8, ThreadsAssumption, Zenon DEF AdvanceCompleted, At
      <4>1. PICK l \in {"idle", "advance"} :
              /\ pc' = [pc EXCEPT ![t] = l]
              /\ UNCHANGED waits \/ waits' = [waits EXCEPT ![t] = FALSE]
        BY <3>8, <4>0, Zenon DEF AdvanceCompleted, Advanced, Goto, Reset, locals
      <4>2. \A u \in Threads \ {t} : waits'[u] = waits[u]
        BY <1>0, <4>1, Zenon
      <4>3. Quiet(t, l)
        BY <1>0, <3>8, <4>0, <4>1, <4>2 DEF AdvanceCompleted, Quiet, Wakers, parking
      <4> QED
        BY <4>3, QuietStep, Zenon
    <3> QED
      BY <2>6, <3>1, <3>2, <3>3, <3>4, <3>5, <3>6, <3>7, <3>8, Zenon DEF WorkerStep
  <2>7. CASE LoadCursor(t)
    <3>1. Quiet(t, "probe")
      BY <1>0, <2>7 DEF LoadCursor, Quiet, At, Goto, Wakers, cursors, parking
    <3> QED
      BY <3>1, QuietStep, Zenon
  <2>8. CASE ProbeNext(t)
    BY <2>8, Zenon DEF ProbeNext, Waking, cursors, parking
  <2>9. CASE ProbeEnd(t)
    <3>0. /\ pc[t] = "probe" /\ UNCHANGED <<cursors, parking>>
          /\ t \in Workers => t \notin Publishers
      BY <2>9, ThreadsAssumption, Zenon DEF ProbeEnd, At
    <3>1. PICK l \in {"idle", "visible", "notify", "advance_cas"} :
            /\ pc' = [pc EXCEPT ![t] = l]
            /\ UNCHANGED waits \/ waits' = [waits EXCEPT ![t] = FALSE]
            /\ l = "idle" => t \in Workers
      BY <2>9, <3>0, Zenon DEF ProbeEnd, Advanced, Goto, Reset, locals
    <3>2. \A u \in Threads \ {t} : waits'[u] = waits[u]
      BY <1>0, <3>1, Zenon
    <3>3. Quiet(t, l)
      BY <1>0, <3>0, <3>1, <3>2 DEF Quiet, Wakers, cursors, parking
    <3> QED
      BY <3>3, QuietStep, Zenon
  <2>10. CASE Notify(t)
    <3>0. t \notin Workers /\ pc[t] = "notify" /\ UNCHANGED <<cursors, parking>>
      BY <2>10, NotifierAt, Zenon DEF RingInv, Notify, At
    <3>1. CASE worker_waiters = 0
      <4>1. Waiting = {}
        BY <3>1, Zenon
      <4>2. \A w \in Workers : waits'[w] = waits[w] /\ pc'[w] = pc[w]
        BY <1>0, <2>10, <3>0, <3>1, Zenon DEF Notify, Goto, Reset
      <4>3. \A w \in Workers : ~waits'[w] /\ pc'[w] # "parked"
        BY <4>1, <4>2, Zenon DEF Waiting, RingInv, Parking
      <4> QED
        BY <4>3, Zenon DEF Waking
    <3>2. CASE worker_waiters # 0
      <4>1. Quiet(t, "broadcast")
        BY <1>0, <2>10, <3>0, <3>2, SMTT(30) DEF Notify, Quiet, Goto, Wakers, cursors, parking, locals
      <4> QED
        BY <4>1, QuietStep, Zenon
    <3> QED
      BY <3>1, <3>2, Zenon
  <2>11. CASE Broadcast(t)
    <3>0. t \notin Workers /\ wait_mutex = {}
      BY <2>11, NotifierAt, Zenon DEF RingInv, Broadcast, At
    <3>1. \A w \in Workers : /\ waits'[w] = waits[w] /\ pc'[w] # "parked"
                             /\ pc'[w] = "keep" => pc[w] = "keep"
      BY <1>0, <2>11, <3>0, Zenon DEF Broadcast, Reset
    <3>2. \A w \in Workers : waits[w] => pc[w] # "keep"
      BY <3>0, Zenon DEF RingInv, Parking
    <3> QED
      BY <3>1, <3>2, Zenon DEF Waking
  <2> QED
    BY <2>1, <2>2, <2>3, <2>4, <2>5, <2>6, <2>7, <2>8, <2>9, <2>10, <2>11, Zenon DEF Step
<1> QED
  BY <1>1, <1>2, Zenon
=============================================================================
