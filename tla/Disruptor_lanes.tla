-------------------------- MODULE Disruptor_lanes ---------------------------
(***************************************************************************)
(* Lanes of Disruptor: marks are stored, reach memory and are advanced     *)
(* over, and the set of marked sequence numbers is what it should be.      *)
(***************************************************************************)
EXTENDS Disruptor_invariant, TLAPS

(* A positive multiple of a number is at least that number.                *)
LEMMA NoSmallMultiple ==
  ASSUME NEW c \in Nat \ {0}, NEW k \in Int, c * k > 0
  PROVE  c * k >= c
<1>1. CASE k <= 0
  BY <1>1
<1>2. CASE k >= 1
  BY <1>2
<1> QED
  BY <1>1, <1>2

(* Numbers with the same remainder are at least a lap apart.               *)
LEMMA LapApart ==
  ASSUME NEW c \in Nat \ {0}, NEW a \in Nat, NEW b \in Nat, a < b, a % c = b % c
  PROVE  a + c <= b
<1>1. /\ a \div c \in Int /\ b \div c \in Int
      /\ a = c * (a \div c) + (a % c) /\ b = c * (b \div c) + (b % c)
  OBVIOUS
<1>2. b - a = c * ((b \div c) - (a \div c))
  BY <1>1
<1>3. c * ((b \div c) - (a \div c)) >= c
  BY <1>1, <1>2, NoSmallMultiple
<1> QED
  BY <1>2, <1>3

(* A sequence number has an entry of the ring.                             *)
LEMMA RingIndexType == \A s \in Nat : RingIndex(s) \in Indexes
BY CapacityAssumption DEF RingIndex, Indexes

(* Buffers hold stores.                                                    *)
LEMMA BufferedStores ==
  ASSUME NEW b \in [Threads -> Seq(Stores)], NEW t \in Threads, NEW n \in DOMAIN b[t]
  PROVE  /\ b[t][n] \in Stores /\ b[t][n] = Entry(b[t][n].loc, b[t][n].seq)
         /\ b[t][n].seq \in Nat /\ b[t][n].loc \in Places
<1>1. b[t] \in Seq(Stores)
  BY Zenon
<1>2. b[t][n] \in Stores
  BY <1>1
<1> QED
  BY <1>2, Zenon DEF Stores, Entry, Places

(* A sequence number is covered by the cursor, marked in its own slot or   *)
(* marked in a buffer.                                                     *)
LEMMA CoveredWhen ==
  ASSUME NEW b \in [Threads -> Seq(Stores)], NEW loc \in Places, NEW slots \in [Indexes -> Nat],
         NEW cursor \in Nat, Lane(b, loc, slots, cursor), NEW s
  PROVE  s \in Covered(b, loc, slots, cursor) <=>
           \/ s \in 1..cursor
           \/ s \in Nat \ {0} /\ slots[RingIndex(s)] = s
           \/ Stored(b, loc, s)
<1>1. s \in Slotted(slots) <=> s \in Nat \ {0} /\ slots[RingIndex(s)] = s
  BY RingIndexType, Zenon DEF Slotted, Lane
<1> DEFINE In(t) == {e.seq : e \in {b[t][i] : i \in DOMAIN b[t]} \cap [loc : {loc}, seq : 1..MaxSequence]}
<1>2. ASSUME NEW t \in Threads
      PROVE  s \in In(t) <=> \E n \in DOMAIN b[t] : b[t][n] = Entry(loc, s)
  <2>1. ASSUME s \in In(t)
        PROVE  \E n \in DOMAIN b[t] : b[t][n] = Entry(loc, s)
    <3>1. PICK e \in {b[t][i] : i \in DOMAIN b[t]} \cap [loc : {loc}, seq : 1..MaxSequence] : s = e.seq
      BY <2>1, Zenon
    <3>2. e = Entry(loc, s)
      BY <3>1, Zenon DEF Entry
    <3> QED
      BY <3>1, <3>2, Zenon
  <2>2. ASSUME NEW n \in DOMAIN b[t], b[t][n] = Entry(loc, s)
        PROVE  s \in In(t)
    <3>1. b[t][n].loc = loc /\ b[t][n].seq = s
      BY <2>2 DEF Entry
    <3>2. s \in 1..MaxSequence
      BY <3>1, BufferedStores DEF Lane
    <3>3. b[t][n] \in {b[t][i] : i \in DOMAIN b[t]} \cap [loc : {loc}, seq : 1..MaxSequence]
      BY <2>2, <3>2 DEF Entry
    <3> QED
      BY <3>1, <3>3, Zenon
  <2> QED
    BY <2>1, <2>2, Zenon
<1>3. s \in UNION {In(t) : t \in Threads} <=> Stored(b, loc, s)
  BY <1>2 DEF Stored
<1>4. Covered(b, loc, slots, cursor) = 1..cursor \cup Slotted(slots) \cup UNION {In(t) : t \in Threads}
  BY Zenon DEF Covered
<1> QED
  BY <1>1, <1>3, <1>4, Zenon

(* Marks that are new to the lane keep it in order.                        *)
LEMMA LaneGrows ==
  ASSUME NEW b \in [Threads -> Seq(Stores)], NEW b2 \in [Threads -> Seq(Stores)],
         NEW loc \in Places, NEW slots \in [Indexes -> Nat],
         NEW cursor \in Nat, Lane(b, loc, slots, cursor),
         NEW t \in Threads, NEW F \in SUBSET (1..MaxSequence),
         F \cap Covered(b, loc, slots, cursor) = {}, Extends(b, b2, t, loc, F)
  PROVE  Grown(loc, b, b2, slots, cursor, F)
<1>e. /\ \A u \in Threads : \A n \in DOMAIN b[u] : n \in DOMAIN b2[u] /\ b2[u][n] = b[u][n]
      /\ \A u \in Threads : \A n \in DOMAIN b2[u] :
           b2[u][n].loc = loc /\ n \notin DOMAIN b[u] => u = t /\ b2[u][n].seq \in F
      /\ \A m, n \in DOMAIN b2[t] \ DOMAIN b[t] : b2[t][m].loc = loc /\ b2[t][m] = b2[t][n] => m = n
      /\ \A s \in F : \E n \in DOMAIN b2[t] : b2[t][n] = Entry(loc, s)
  BY Zenon DEF Extends
<1> USE <1>e
<1>0. ASSUME NEW s \in F
      PROVE  /\ s \in Nat /\ s > cursor /\ s <= MaxSequence
             /\ slots[RingIndex(s)] # s /\ ~Stored(b, loc, s)
  <2>1. s \in 1..MaxSequence /\ s \notin Covered(b, loc, slots, cursor)
    BY Zenon
  <2>2. s \notin 1..cursor /\ ~(s \in Nat \ {0} /\ slots[RingIndex(s)] = s) /\ ~Stored(b, loc, s)
    BY <2>1, CoveredWhen, Zenon
  <2> QED
    BY <2>1, <2>2, BoundAssumption
<1>1. ASSUME NEW u \in Threads, NEW n \in DOMAIN b2[u], b2[u][n].loc = loc
      PROVE  /\ b2[u][n].seq > cursor /\ b2[u][n].seq <= MaxSequence
             /\ slots[RingIndex(b2[u][n].seq)] # b2[u][n].seq
  <2>1. CASE n \in DOMAIN b[u]
    <3>1. b2[u][n] = b[u][n]
      BY <2>1, Zenon
    <3> QED
      BY <1>1, <2>1, <3>1 DEF Lane
  <2>2. CASE n \notin DOMAIN b[u]
    <3>1. b2[u][n].seq \in F
      BY <1>1, <2>2, Zenon
    <3> QED
      BY <1>0, <3>1, Zenon
  <2> QED
    BY <2>1, <2>2, Zenon
<1>2. ASSUME NEW u \in Threads, NEW v \in Threads, NEW m \in DOMAIN b2[u], NEW n \in DOMAIN b2[v],
             b2[u][m].loc = loc, b2[u][m] = b2[v][n]
      PROVE  u = v /\ m = n
  <2>1. CASE m \in DOMAIN b[u] /\ n \in DOMAIN b[v]
    BY <1>2, <2>1 DEF Lane
  <2>2. CASE m \notin DOMAIN b[u] /\ n \notin DOMAIN b[v]
    BY <1>2, <2>2
  <2>3. CASE m \in DOMAIN b[u] /\ n \notin DOMAIN b[v]
    <3>1. b2[v][n].loc = loc /\ b2[v][n].seq \in F
      BY <1>2, <2>3, Zenon
    <3>0. b2[v][n] = Entry(b2[v][n].loc, b2[v][n].seq)
      BY BufferedStores
    <3>2. b2[v][n] = Entry(loc, b2[v][n].seq)
      BY <3>0, <3>1, Zenon
    <3>3. b[u][m] = b2[v][n]
      BY <1>2, <2>3, Zenon
    <3>4. Stored(b, loc, b2[v][n].seq)
      BY <2>3, <3>2, <3>3 DEF Stored
    <3> QED
      BY <1>0, <3>1, <3>4, Zenon
  <2>4. CASE m \notin DOMAIN b[u] /\ n \in DOMAIN b[v]
    <3>1. b2[u][m].loc = loc /\ b2[u][m].seq \in F
      BY <1>2, <2>4, Zenon
    <3>0. b2[u][m] = Entry(b2[u][m].loc, b2[u][m].seq)
      BY BufferedStores
    <3>2. b2[u][m] = Entry(loc, b2[u][m].seq)
      BY <3>0, <3>1, Zenon
    <3>3. b[v][n] = b2[u][m]
      BY <1>2, <2>4
    <3>4. Stored(b, loc, b2[u][m].seq)
      BY <2>4, <3>2, <3>3 DEF Stored
    <3> QED
      BY <1>0, <3>1, <3>4, Zenon
  <2> QED
    BY <2>1, <2>2, <2>3, <2>4, Zenon
<1>3. Lane(b2, loc, slots, cursor)
  BY <1>1, <1>2 DEF Lane
<1>4. ASSUME NEW s
      PROVE  Stored(b2, loc, s) <=> Stored(b, loc, s) \/ s \in F
  <2>1. ASSUME Stored(b2, loc, s), ~Stored(b, loc, s)
        PROVE  s \in F
    <3>0. PICK u \in Threads : \E n \in DOMAIN b2[u] : b2[u][n] = Entry(loc, s)
      BY <2>1, Zenon DEF Stored
    <3>1. PICK n \in DOMAIN b2[u] : b2[u][n] = Entry(loc, s)
      BY <3>0, Zenon
    <3>2. n \notin DOMAIN b[u]
      BY <2>1, <3>1 DEF Stored
    <3>3. b2[u][n].loc = loc /\ b2[u][n].seq = s
      BY <3>1 DEF Entry
    <3> QED
      BY <3>2, <3>3, Zenon
  <2>2. ASSUME Stored(b, loc, s)
        PROVE  Stored(b2, loc, s)
    BY <2>2, Zenon DEF Stored
  <2>3. ASSUME s \in F
        PROVE  Stored(b2, loc, s)
    BY <2>3, Zenon DEF Stored
  <2> QED
    BY <2>1, <2>2, <2>3, Zenon
<1>5. \A s : s \in Covered(b2, loc, slots, cursor) <=> s \in Covered(b, loc, slots, cursor) \cup F
  BY <1>3, <1>4, CoveredWhen, Zenon
<1>6. \A u \in Threads, s \in Nat : Seen(b, u, loc, slots, cursor, s) =>
        Seen(b2, u, loc, slots, cursor, s)
  BY Zenon DEF Seen
<1> QED
  BY <1>3, <1>5, <1>6, Zenon DEF Grown

(* The cursor moves over numbers that are marked in memory, or not at all. *)
LEMMA LaneAdvances ==
  ASSUME NEW b \in [Threads -> Seq(Stores)], NEW loc \in Places, NEW slots \in [Indexes -> Nat],
         NEW cursor \in Nat, Lane(b, loc, slots, cursor), NEW c \in Nat, c >= cursor,
         \A s \in (cursor + 1)..c : slots[RingIndex(s)] = s \/ s \notin Covered(b, loc, slots, cursor)
  PROVE  /\ Lane(b, loc, slots, c)
         /\ Covered(b, loc, slots, c) = Covered(b, loc, slots, cursor) \cup (cursor + 1)..c
<1>1. ASSUME NEW t \in Threads, NEW n \in DOMAIN b[t], b[t][n].loc = loc
      PROVE  b[t][n].seq > c
  <2>1. b[t][n].seq \in Nat /\ b[t][n].seq > cursor /\ slots[RingIndex(b[t][n].seq)] # b[t][n].seq
    BY <1>1, BufferedStores, Zenon DEF Lane
  <2>2. Stored(b, loc, b[t][n].seq)
    BY <1>1, BufferedStores, Zenon DEF Stored
  <2>3. b[t][n].seq \in Covered(b, loc, slots, cursor)
    BY <2>2, CoveredWhen, Zenon
  <2> QED
    BY <2>1, <2>3
<1>2. Lane(b, loc, slots, c)
  BY <1>1, Zenon DEF Lane
<1>3. \A s : s \in 1..c <=> s \in 1..cursor \/ s \in (cursor + 1)..c
  OBVIOUS
<1>4. \A s : s \in Covered(b, loc, slots, c) <=> s \in Covered(b, loc, slots, cursor) \cup (cursor + 1)..c
  BY <1>2, <1>3, CoveredWhen, Zenon
<1> QED
  BY <1>2, <1>4, Zenon

(* The oldest store of t leaves its buffer.                                *)
LEMMA Shifted ==
  ASSUME NEW b \in [Threads -> Seq(Stores)], NEW t \in Threads, b[t] # << >>,
         NEW b2, b2 = [b EXCEPT ![t] = Tail(@)]
  PROVE  /\ b2 \in [Threads -> Seq(Stores)]
         /\ 1 \in DOMAIN b[t] /\ Head(b[t]) = b[t][1]
         /\ \A n \in DOMAIN b2[t] : n \in Nat /\ n >= 1 /\ n + 1 \in DOMAIN b[t] /\ b2[t][n] = b[t][n + 1]
         /\ \A n \in DOMAIN b[t] : n \in Nat /\ (n = 1 \/ (n - 1 \in DOMAIN b2[t] /\ b2[t][n - 1] = b[t][n]))
         /\ \A u \in Threads \ {t} : b2[u] = b[u]
<1>1. b[t] \in Seq(Stores)
  BY Zenon
<1>2. Tail(b[t]) \in Seq(Stores)
  BY <1>1
<1>3. b2[t] = Tail(b[t])
  BY Zenon
<1>4. Len(b[t]) \in Nat /\ Len(b[t]) >= 1
  BY <1>1
<1>5. DOMAIN b[t] = 1..Len(b[t]) /\ DOMAIN b2[t] = 1..(Len(b[t]) - 1)
  BY <1>1, <1>2, <1>3, <1>4
<1>6. \A n \in 1..(Len(b[t]) - 1) : b2[t][n] = b[t][n + 1]
  BY <1>1, <1>3, <1>4
<1> QED
  BY <1>1, <1>2, <1>4, <1>5, <1>6

(* The oldest mark of t reaches memory.  The mark it replaces is of an     *)
(* earlier lap and covered by the cursor: all that is covered lies within  *)
(* Capacity of low, and the cursor is not behind low.                      *)
LEMMA LaneFlushes ==
  ASSUME NEW b \in [Threads -> Seq(Stores)], NEW loc \in Places, NEW slots \in [Indexes -> Nat],
         NEW cursor \in Nat, Lane(b, loc, slots, cursor),
         NEW t \in Threads, b[t] # << >>, Head(b[t]).loc = loc,
         NEW b2, b2 = [b EXCEPT ![t] = Tail(@)],
         NEW slots2, slots2 = [slots EXCEPT ![RingIndex(Head(b[t]).seq)] = Head(b[t]).seq],
         NEW low \in Nat, low <= cursor,
         \A s \in Covered(b, loc, slots, cursor) : s <= low + Capacity
  PROVE  Kept(loc, b, slots, cursor, b2, slots2, cursor)
<1> DEFINE e == b[t][1]
           i == RingIndex(e.seq)
<1>0. /\ b2 \in [Threads -> Seq(Stores)]
      /\ 1 \in DOMAIN b[t] /\ Head(b[t]) = e
      /\ \A n \in DOMAIN b2[t] : n \in Nat /\ n >= 1 /\ n + 1 \in DOMAIN b[t] /\ b2[t][n] = b[t][n + 1]
      /\ \A n \in DOMAIN b[t] : n \in Nat /\ (n = 1 \/ (n - 1 \in DOMAIN b2[t] /\ b2[t][n - 1] = b[t][n]))
      /\ \A u \in Threads \ {t} : b2[u] = b[u]
  BY Shifted
<1>1. /\ e.loc = loc /\ e.seq \in Nat /\ e = Entry(loc, e.seq)
      /\ e.seq > cursor /\ e.seq <= MaxSequence /\ slots[i] # e.seq
  BY <1>0, BufferedStores DEF Lane
<1>2. e.seq \in Covered(b, loc, slots, cursor)
  <2>1. Stored(b, loc, e.seq)
    BY <1>0, <1>1, Zenon DEF Stored
  <2> QED
    BY <2>1, CoveredWhen, Zenon
<1>3. /\ i \in Indexes /\ slots2 \in [Indexes -> Nat]
      /\ slots2[i] = e.seq /\ \A j \in Indexes \ {i} : slots2[j] = slots[j]
  BY <1>0, <1>1, RingIndexType, Zenon
<1>4. slots[i] <= cursor
  <2>1. CASE slots[i] = 0
    BY <2>1
  <2>2. CASE slots[i] # 0
    <3> DEFINE x == slots[i]
    <3>1. x \in Nat \ {0} /\ RingIndex(x) = i /\ slots[RingIndex(x)] = x
      BY <1>3, <2>2, Zenon DEF Lane
    <3>2. x \in Covered(b, loc, slots, cursor)
      BY <3>1, CoveredWhen, Zenon
    <3>3. x <= low + Capacity /\ e.seq <= low + Capacity
      BY <1>2, <3>2, Zenon
    <3>4. x % Capacity = e.seq % Capacity
      BY <3>1, Zenon DEF RingIndex
    <3>5. x < e.seq => x + Capacity <= e.seq
      BY <1>1, <3>1, <3>4, LapApart, CapacityAssumption, Zenon
    <3>6. e.seq < x => e.seq + Capacity <= x
      BY <1>1, <3>1, <3>4, LapApart, CapacityAssumption, Zenon
    <3> QED
      BY <1>1, <3>1, <3>3, <3>5, <3>6, CapacityAssumption
  <2> QED
    BY <2>1, <2>2, Zenon

(* Which marks are left in buffers.                                        *)
<1>5. \A u \in Threads : \A n \in DOMAIN b2[u] :
        \E m \in DOMAIN b[u] : b2[u][n] = b[u][m] /\ ~(u = t /\ m = 1)
                               /\ (u = t => m = n + 1) /\ (u # t => m = n)
  BY <1>0
<1>6. ASSUME NEW u \in Threads, NEW n \in DOMAIN b2[u], b2[u][n].loc = loc
      PROVE  /\ b2[u][n].seq > cursor /\ b2[u][n].seq <= MaxSequence
             /\ slots2[RingIndex(b2[u][n].seq)] # b2[u][n].seq
  <2>1. PICK m \in DOMAIN b[u] : b2[u][n] = b[u][m] /\ ~(u = t /\ m = 1)
    BY <1>5
  <2>2. /\ b[u][m].loc = loc /\ b[u][m].seq \in Nat /\ b[u][m] = Entry(loc, b[u][m].seq)
        /\ b[u][m].seq > cursor /\ b[u][m].seq <= MaxSequence
        /\ slots[RingIndex(b[u][m].seq)] # b[u][m].seq
    <3>1. /\ b[u][m].seq \in Nat /\ b[u][m] = Entry(b[u][m].loc, b[u][m].seq)
      BY BufferedStores, Zenon
    <3>2. b[u][m].loc = loc
      BY <1>6, <2>1, Zenon
    <3> QED
      BY <3>1, <3>2, Zenon DEF Lane
  <2>3. b[u][m] # e
    BY <1>0, <1>1, <2>1 DEF Lane
  <2>4. b[u][m].seq # e.seq
    BY <1>1, <2>2, <2>3, Zenon
  <2>5. RingIndex(b[u][m].seq) \in Indexes
    BY <2>2, RingIndexType, Zenon
  <2> QED
    BY <1>3, <2>1, <2>2, <2>4, <2>5, Zenon
<1>7. ASSUME NEW u \in Threads, NEW v \in Threads, NEW m \in DOMAIN b2[u], NEW n \in DOMAIN b2[v],
             b2[u][m].loc = loc, b2[u][m] = b2[v][n]
      PROVE  u = v /\ m = n
  <2>1. PICK k \in DOMAIN b[u] : b2[u][m] = b[u][k] /\ (u = t => k = m + 1) /\ (u # t => k = m)
    BY <1>5, Zenon
  <2>2. PICK l \in DOMAIN b[v] : b2[v][n] = b[v][l] /\ (v = t => l = n + 1) /\ (v # t => l = n)
    BY <1>5, Zenon
  <2>3. u = v /\ k = l
    <3>1. b[u][k].loc = loc /\ b[u][k] = b[v][l]
      BY <1>7, <2>1, <2>2, Zenon
    <3>2. \A x, y \in Threads : \A f \in DOMAIN b[x], g \in DOMAIN b[y] :
            b[x][f].loc = loc /\ b[x][f] = b[y][g] => x = y /\ f = g
      BY Zenon DEF Lane
    <3> QED
      BY <3>1, <3>2
  <2> QED
    BY <1>0, <2>1, <2>2, <2>3
<1>8. \A j \in Indexes : slots2[j] # 0 => RingIndex(slots2[j]) = j
  BY <1>3, Zenon DEF Lane
<1>9. Lane(b2, loc, slots2, cursor)
  BY <1>6, <1>7, <1>8 DEF Lane
(* What t, or anybody, knew is still known.                                *)
<1>10. ASSUME NEW s \in Nat, slots[RingIndex(s)] = s
       PROVE  s <= cursor \/ slots2[RingIndex(s)] = s
  BY <1>3, <1>4, <1>10, RingIndexType, Zenon
<1>11. ASSUME NEW u \in Threads, NEW s, \E n \in DOMAIN b[u] : b[u][n] = Entry(loc, s)
       PROVE  \/ s \in Nat /\ s > 0 /\ slots2[RingIndex(s)] = s
              \/ \E n \in DOMAIN b2[u] : b2[u][n] = Entry(loc, s)
  <2>1. PICK n \in DOMAIN b[u] : b[u][n] = Entry(loc, s)
    BY <1>11, Zenon
  <2>2. CASE u = t /\ n = 1
    <3>1. s = e.seq
      BY <2>1, <2>2 DEF Entry
    <3> QED
      BY <1>1, <1>3, <3>1
  <2>3. CASE u # t
    BY <1>0, <2>1, <2>3, Zenon
  <2>4. CASE u = t /\ n # 1
    <3>1. n - 1 \in DOMAIN b2[t] /\ b2[t][n - 1] = b[t][n]
      BY <1>0, <2>4, Zenon
    <3> QED
      BY <2>1, <2>4, <3>1, Zenon
  <2> QED
    BY <2>2, <2>3, <2>4, Zenon
<1>12. \A u \in Threads, s \in Nat : Seen(b, u, loc, slots, cursor, s) =>
         Seen(b2, u, loc, slots2, cursor, s)
  BY <1>10, <1>11, Zenon DEF Seen
<1>13. ASSUME NEW s
       PROVE  s \in Covered(b, loc, slots, cursor) => s \in Covered(b2, loc, slots2, cursor)
  <2>1. CASE s \in 1..cursor
    BY <1>0, <1>3, <1>9, <2>1, CoveredWhen, Zenon
  <2>2. CASE s \in Nat \ {0} /\ slots[RingIndex(s)] = s
    <3>1. s \in 1..cursor \/ (s \in Nat \ {0} /\ slots2[RingIndex(s)] = s)
      BY <1>10, <2>2
    <3> QED
      BY <1>0, <1>3, <1>9, <3>1, CoveredWhen, Zenon
  <2>3. CASE Stored(b, loc, s)
    <3>1. (s \in Nat \ {0} /\ slots2[RingIndex(s)] = s) \/ Stored(b2, loc, s)
      BY <1>11, <2>3 DEF Stored
    <3> QED
      BY <1>0, <1>3, <1>9, <3>1, CoveredWhen, Zenon
  <2> QED
    BY <2>1, <2>2, <2>3, CoveredWhen, Zenon
<1>14. ASSUME NEW s
       PROVE  s \in Covered(b2, loc, slots2, cursor) => s \in Covered(b, loc, slots, cursor)
  <2>1. CASE s \in 1..cursor
    BY <2>1, CoveredWhen, Zenon
  <2>2. CASE s \in Nat \ {0} /\ slots2[RingIndex(s)] = s
    <3>1. CASE RingIndex(s) = i
      BY <1>2, <1>3, <2>2, <3>1, Zenon
    <3>2. CASE RingIndex(s) # i
      <4>1. slots[RingIndex(s)] = s
        BY <1>3, <2>2, <3>2, RingIndexType, Zenon
      <4> QED
        BY <2>2, <4>1, CoveredWhen, Zenon
    <3> QED
      BY <3>1, <3>2, Zenon
  <2>3. CASE Stored(b2, loc, s)
    <3>1. Stored(b, loc, s)
      BY <1>5, <2>3 DEF Stored
    <3> QED
      BY <3>1, CoveredWhen, Zenon
  <2>4. s \in 1..cursor \/ (s \in Nat \ {0} /\ slots2[RingIndex(s)] = s) \/ Stored(b2, loc, s)
        \/ s \notin Covered(b2, loc, slots2, cursor)
    BY <1>0, <1>3, <1>9, CoveredWhen, Zenon
  <2> QED
    BY <2>1, <2>2, <2>3, <2>4, Zenon
<1>15. Covered(b2, loc, slots2, cursor) = Covered(b, loc, slots, cursor)
  BY <1>13, <1>14, Zenon
<1> QED
  BY <1>9, <1>12, <1>15, Zenon DEF Kept

(* The oldest store of t belongs to another place.                         *)
LEMMA LaneShifts ==
  ASSUME NEW b \in [Threads -> Seq(Stores)], NEW loc \in Places, NEW slots \in [Indexes -> Nat],
         NEW cursor \in Nat, Lane(b, loc, slots, cursor),
         NEW t \in Threads, b[t] # << >>, Head(b[t]).loc # loc,
         NEW b2, b2 = [b EXCEPT ![t] = Tail(@)]
  PROVE  Kept(loc, b, slots, cursor, b2, slots, cursor)
<1>0. /\ b2 \in [Threads -> Seq(Stores)]
      /\ 1 \in DOMAIN b[t] /\ Head(b[t]) = b[t][1]
      /\ \A n \in DOMAIN b2[t] : n \in Nat /\ n >= 1 /\ n + 1 \in DOMAIN b[t] /\ b2[t][n] = b[t][n + 1]
      /\ \A n \in DOMAIN b[t] : n \in Nat /\ (n = 1 \/ (n - 1 \in DOMAIN b2[t] /\ b2[t][n - 1] = b[t][n]))
      /\ \A u \in Threads \ {t} : b2[u] = b[u]
  BY Shifted
<1>5. \A u \in Threads : \A n \in DOMAIN b2[u] :
        \E m \in DOMAIN b[u] : b2[u][n] = b[u][m] /\ (u = t => m = n + 1) /\ (u # t => m = n)
  BY <1>0
<1>6. ASSUME NEW u \in Threads, NEW n \in DOMAIN b2[u], b2[u][n].loc = loc
      PROVE  /\ b2[u][n].seq > cursor /\ b2[u][n].seq <= MaxSequence
             /\ slots[RingIndex(b2[u][n].seq)] # b2[u][n].seq
  <2>1. PICK m \in DOMAIN b[u] : b2[u][n] = b[u][m]
    BY <1>5, Zenon
  <2> QED
    BY <1>6, <2>1 DEF Lane
<1>7. ASSUME NEW u \in Threads, NEW v \in Threads, NEW m \in DOMAIN b2[u], NEW n \in DOMAIN b2[v],
             b2[u][m].loc = loc, b2[u][m] = b2[v][n]
      PROVE  u = v /\ m = n
  <2>1. PICK k \in DOMAIN b[u] : b2[u][m] = b[u][k] /\ (u = t => k = m + 1) /\ (u # t => k = m)
    BY <1>5, Zenon
  <2>2. PICK l \in DOMAIN b[v] : b2[v][n] = b[v][l] /\ (v = t => l = n + 1) /\ (v # t => l = n)
    BY <1>5, Zenon
  <2>3. u = v /\ k = l
    <3>1. b[u][k].loc = loc /\ b[u][k] = b[v][l]
      BY <1>7, <2>1, <2>2, Zenon
    <3>2. \A x, y \in Threads : \A i \in DOMAIN b[x], j \in DOMAIN b[y] :
            b[x][i].loc = loc /\ b[x][i] = b[y][j] => x = y /\ i = j
      BY Zenon DEF Lane
    <3> QED
      BY <3>1, <3>2
  <2> QED
    BY <1>0, <2>1, <2>2, <2>3
<1>9. Lane(b2, loc, slots, cursor)
  BY <1>6, <1>7 DEF Lane
<1>11. ASSUME NEW u \in Threads, NEW s, \E n \in DOMAIN b[u] : b[u][n] = Entry(loc, s)
       PROVE  \E n \in DOMAIN b2[u] : b2[u][n] = Entry(loc, s)
  <2>1. PICK n \in DOMAIN b[u] : b[u][n] = Entry(loc, s)
    BY <1>11, Zenon
  <2>2. ~(u = t /\ n = 1)
    BY <1>0, <2>1 DEF Entry
  <2>3. CASE u # t
    BY <1>0, <2>1, <2>3, Zenon
  <2>4. CASE u = t
    <3>1. n - 1 \in DOMAIN b2[t] /\ b2[t][n - 1] = b[t][n]
      BY <1>0, <2>2, <2>4, Zenon
    <3> QED
      BY <2>1, <2>4, <3>1, Zenon
  <2> QED
    BY <2>3, <2>4, Zenon
<1>12. \A u \in Threads, s \in Nat : Seen(b, u, loc, slots, cursor, s) =>
         Seen(b2, u, loc, slots, cursor, s)
  BY <1>11, Zenon DEF Seen
<1>13. ASSUME NEW s
       PROVE  Stored(b, loc, s) <=> Stored(b2, loc, s)
  <2>1. Stored(b, loc, s) => Stored(b2, loc, s)
    BY <1>11, Zenon DEF Stored
  <2>2. Stored(b2, loc, s) => Stored(b, loc, s)
    BY <1>5 DEF Stored
  <2> QED
    BY <2>1, <2>2, Zenon
<1>14. \A s : s \in Covered(b2, loc, slots, cursor) <=> s \in Covered(b, loc, slots, cursor)
  BY <1>0, <1>9, <1>13, CoveredWhen, ZenonT(60)
<1> QED
  BY <1>9, <1>12, <1>14, Zenon DEF Kept

(* A cursor only covers more.                                              *)
LEMMA SeenLater ==
  ASSUME NEW b, NEW u, NEW loc, NEW slots, NEW c \in Nat, NEW d \in Nat, c <= d, NEW s \in Nat,
         Seen(b, u, loc, slots, c, s)
  PROVE  Seen(b, u, loc, slots, d, s)
BY DEF Seen

-----------------------------------------------------------------------------
(* Stores.                                                                 *)

(* A store at the end of a buffer.                                         *)
LEMMA Appended ==
  ASSUME NEW b \in [Threads -> Seq(Stores)], NEW t \in Threads, NEW x \in Stores,
         NEW b2, b2 = [b EXCEPT ![t] = Append(@, x)]
  PROVE  /\ b2 \in [Threads -> Seq(Stores)]
         /\ \A u \in Threads : \A n \in DOMAIN b[u] : n \in DOMAIN b2[u] /\ b2[u][n] = b[u][n]
         /\ \A u \in Threads : \A n \in DOMAIN b2[u] :
              n \notin DOMAIN b[u] => u = t /\ n = Len(b[t]) + 1 /\ b2[u][n] = x
         /\ Len(b[t]) + 1 \in DOMAIN b2[t] /\ b2[t][Len(b[t]) + 1] = x
<1>1. b[t] \in Seq(Stores) /\ b2[t] = Append(b[t], x)
  BY Zenon
<1>2. b2[t] \in Seq(Stores) /\ Len(b2[t]) = Len(b[t]) + 1 /\ Len(b[t]) \in Nat
  BY <1>1
<1>3. \A n \in 1..Len(b[t]) : b2[t][n] = b[t][n]
  BY <1>1
<1>4. b2[t][Len(b[t]) + 1] = x
  BY <1>1
<1>5. DOMAIN b[t] = 1..Len(b[t]) /\ DOMAIN b2[t] = 1..(Len(b[t]) + 1)
  BY <1>1, <1>2
<1>6. \A u \in Threads \ {t} : b2[u] = b[u]
  BY Zenon
<1>7. b2 \in [Threads -> Seq(Stores)]
  BY <1>1, <1>2, Zenon
<1>8. ASSUME NEW u \in Threads, NEW n \in DOMAIN b[u]
      PROVE  n \in DOMAIN b2[u] /\ b2[u][n] = b[u][n]
  BY <1>2, <1>3, <1>5, <1>6
<1>9. ASSUME NEW u \in Threads, NEW n \in DOMAIN b2[u], n \notin DOMAIN b[u]
      PROVE  u = t /\ n = Len(b[t]) + 1 /\ b2[u][n] = x
  <2>1. u = t
    BY <1>6, <1>9, Zenon
  <2> QED
    BY <1>2, <1>4, <1>5, <1>9, <2>1
<1> QED
  BY <1>2, <1>4, <1>5, <1>7, <1>8, <1>9

(* A store to another place keeps a lane.                                  *)
LEMMA LaneAside ==
  ASSUME NEW b \in [Threads -> Seq(Stores)], NEW b2 \in [Threads -> Seq(Stores)],
         NEW loc \in Places, NEW slots \in [Indexes -> Nat],
         NEW cursor \in Nat, Lane(b, loc, slots, cursor), NEW t \in Threads, Aside(b, b2, loc)
  PROVE  Kept(loc, b, slots, cursor, b2, slots, cursor)
<1> DEFINE F == {}
<1>1. F \in SUBSET (1..MaxSequence) /\ F \cap Covered(b, loc, slots, cursor) = {}
  BY Zenon
<1>2. Extends(b, b2, t, loc, F)
  BY Zenon DEF Extends, Aside
<1> HIDE DEF F
<1>3. Grown(loc, b, b2, slots, cursor, F)
  BY <1>1, <1>2, LaneGrows, Zenon
<1> QED
  BY <1>3, Zenon DEF Grown, Kept, F

(* A store of slowest_consumer leaves both lanes as they are.              *)
LEMMA SlowestStored ==
  ASSUME NEW b \in [Threads -> Seq(Stores)], NEW t \in Threads, NEW x \in Nat,
         NEW b2, b2 = [b EXCEPT ![t] = Append(@, Entry("slowest", x))],
         NEW loc \in {"published", "completed"}, NEW slots \in [Indexes -> Nat], NEW cursor \in Nat,
         Lane(b, loc, slots, cursor)
  PROVE  b2 \in [Threads -> Seq(Stores)] /\ Kept(loc, b, slots, cursor, b2, slots, cursor)
<1>1. Entry("slowest", x) \in Stores /\ loc \in Places
  BY Zenon DEF Entry, Stores, Places
<1>2. /\ b2 \in [Threads -> Seq(Stores)]
      /\ \A u \in Threads : \A n \in DOMAIN b[u] : n \in DOMAIN b2[u] /\ b2[u][n] = b[u][n]
      /\ \A u \in Threads : \A n \in DOMAIN b2[u] : n \notin DOMAIN b[u] => b2[u][n] = Entry("slowest", x)
  BY <1>1, Appended
<1>3. Aside(b, b2, loc)
  BY <1>2 DEF Aside, Entry
<1> QED
  BY <1>1, <1>2, <1>3, LaneAside, Zenon

(* The marks of a range, as a piece of a store buffer.                     *)
LEMMA MarksType ==
  ASSUME NEW from \in Nat, NEW to \in Nat, NEW loc \in {"slowest", "published", "completed"}, NEW b \in Seq(Stores)
  PROVE  /\ Marks(loc, from, to) \in Seq(Stores)
         /\ b \o Marks(loc, from, to) \in Seq(Stores)
<1> DEFINE n == IF to - from + 1 \in Nat THEN to - from + 1 ELSE 0
<1>1. n \in Nat /\ 1..n = 1..(to - from + 1)
  OBVIOUS
<1>2. \A i \in 1..n : Entry(loc, from + i - 1) \in Stores
  BY <1>1 DEF Entry, Stores
<1>3. Marks(loc, from, to) \in [1..n -> Stores]
  BY <1>1, <1>2, Zenon DEF Marks
<1>4. Marks(loc, from, to) \in Seq(Stores)
  BY <1>1, <1>3, SMT
<1> QED
  BY <1>4, SMT

(* The marks of a range at the end of a buffer.                            *)
LEMMA MarksExtend ==
  ASSUME NEW b \in [Threads -> Seq(Stores)], NEW t \in Threads, NEW loc \in Places,
         NEW f \in Nat, NEW l \in Nat, f <= l,
         NEW b2, b2 = [b EXCEPT ![t] = @ \o Marks(loc, f, l)]
  PROVE  Stacked(b, b2, t, loc, f..l)
<1> DEFINE m == Marks(loc, f, l)
           k == Len(b[t])
<1>1. b[t] \in Seq(Stores) /\ b2[t] = b[t] \o m
  BY Zenon
<1>2. m \in Seq(Stores) /\ b2[t] \in Seq(Stores)
  BY <1>1, MarksType, Zenon DEF Places
<1>3. Len(m) = l - f + 1 /\ \A j \in 1..(l - f + 1) : m[j] = Entry(loc, f + j - 1)
  <2>1. DOMAIN m = 1..(l - f + 1) /\ \A j \in 1..(l - f + 1) : m[j] = Entry(loc, f + j - 1)
    BY Zenon DEF Marks
  <2>2. DOMAIN m = 1..Len(m) /\ Len(m) \in Nat
    BY <1>2
  <2> HIDE DEF m
  <2>3. l - f + 1 \in 1..Len(m)
    BY <2>1, <2>2
  <2>4. Len(m) \in 1..(l - f + 1)
    BY <2>1, <2>2, <2>3
  <2> QED
    <3>1. Len(m) = l - f + 1
      BY <2>2, <2>3, <2>4
    <3> QED
      BY <2>1, <3>1, Zenon
<1> HIDE DEF m
<1>4. k \in Nat /\ Len(b2[t]) = k + (l - f + 1)
  <2>1. Len(b[t] \o m) = Len(b[t]) + Len(m) /\ Len(b[t]) \in Nat
    BY <1>1, <1>2
  <2> QED
    BY <1>1, <1>3, <2>1, Zenon
<1>5. DOMAIN b[t] = 1..k /\ DOMAIN b2[t] = 1..(k + (l - f + 1))
  BY <1>1, <1>2, <1>4
<1>6. \A n \in 1..(k + (l - f + 1)) : b2[t][n] = IF n <= k THEN b[t][n] ELSE m[n - k]
  <2>1. \A n \in 1..(Len(b[t]) + Len(m)) :
          (b[t] \o m)[n] = IF n <= Len(b[t]) THEN b[t][n] ELSE m[n - Len(b[t])]
    BY <1>1, <1>2
  <2> QED
    BY <1>1, <1>3, <2>1, Zenon
<1>7. \A u \in Threads \ {t} : b2[u] = b[u]
  BY Zenon
<1>8. b2 \in [Threads -> Seq(Stores)]
  BY <1>1, <1>2, Zenon
<1> HIDE DEF k
<1>9. ASSUME NEW u \in Threads, NEW n \in DOMAIN b[u]
      PROVE  n \in DOMAIN b2[u] /\ b2[u][n] = b[u][n]
  <2>1. CASE u = t
    BY <1>4, <1>5, <1>6, <2>1
  <2> QED
    BY <1>7, <2>1, Zenon
<1>10. ASSUME NEW u \in Threads, NEW n \in DOMAIN b2[u], n \notin DOMAIN b[u]
       PROVE  /\ u = t /\ n \in Nat /\ n - k \in 1..(l - f + 1)
              /\ b2[u][n] = Entry(loc, f + (n - k) - 1)
  <2>1. u = t
    BY <1>7, <1>10, Zenon
  <2>2. n \in 1..(k + (l - f + 1)) /\ ~(n <= k)
    BY <1>4, <1>5, <1>10, <2>1
  <2>3. n \in Nat /\ n - k \in 1..(l - f + 1)
    BY <1>4, <2>2
  <2> QED
    BY <1>3, <1>6, <2>1, <2>2, <2>3, Zenon
<1>11. ASSUME NEW s \in f..l
       PROVE  \E n \in DOMAIN b2[t] : b2[t][n] = Entry(loc, s)
  <2>1. k + (s - f + 1) \in 1..(k + (l - f + 1)) /\ ~(k + (s - f + 1) <= k)
    BY <1>4
  <2>2. (k + (s - f + 1)) - k = s - f + 1 /\ s - f + 1 \in 1..(l - f + 1) /\ f + (s - f + 1) - 1 = s
    BY <1>4
  <2>3. b2[t][k + (s - f + 1)] = Entry(loc, s)
    BY <1>3, <1>6, <2>1, <2>2, Zenon
  <2> QED
    BY <1>5, <2>1, <2>3, Zenon
<1>12. ASSUME NEW u \in Threads, NEW n \in DOMAIN b2[u], n \notin DOMAIN b[u]
       PROVE  u = t /\ n \in Nat /\ b2[u][n].loc = loc /\ b2[u][n].seq \in f..l
              /\ b2[u][n].seq = f + (n - k) - 1
  <2>1. /\ u = t /\ n \in Nat /\ n - k \in 1..(l - f + 1)
        /\ b2[u][n] = Entry(loc, f + (n - k) - 1)
    BY <1>10, <1>12, Zenon
  <2>2. b2[u][n].loc = loc /\ b2[u][n].seq = f + (n - k) - 1
    BY <2>1 DEF Entry
  <2>3. f + (n - k) - 1 \in f..l
    BY <1>4, <2>1
  <2> QED
    BY <2>1, <2>2, <2>3, Zenon
<1>13. ASSUME NEW i \in DOMAIN b2[t] \ DOMAIN b[t], NEW j \in DOMAIN b2[t] \ DOMAIN b[t],
              b2[t][i] = b2[t][j]
       PROVE  i = j
  <2>1. i \in Nat /\ b2[t][i].seq = f + (i - k) - 1
    BY <1>12, Zenon
  <2>2. j \in Nat /\ b2[t][j].seq = f + (j - k) - 1
    BY <1>12, Zenon
  <2>3. f + (i - k) - 1 = f + (j - k) - 1
    BY <1>13, <2>1, <2>2, Zenon
  <2>4. i \in Nat /\ j \in Nat
    BY <2>1, <2>2, Zenon
  <2> QED
    BY <1>4, <2>3, <2>4
<1>14. Extends(b, b2, t, loc, f..l)
  BY <1>9, <1>11, <1>12, <1>13, Zenon DEF Extends
<1>15. ASSUME NEW o \in Places \ {loc}
       PROVE  Aside(b, b2, o)
  BY <1>9, <1>12 DEF Aside
<1> QED
  BY <1>8, <1>14, <1>15, Zenon DEF Stacked

(* A single mark.                                                          *)
LEMMA MarkExtends ==
  ASSUME NEW b \in [Threads -> Seq(Stores)], NEW t \in Threads, NEW loc \in Places, NEW x \in Nat,
         NEW b2, b2 = [b EXCEPT ![t] = Append(@, Entry(loc, x))]
  PROVE  Stacked(b, b2, t, loc, {x})
<1>1. Entry(loc, x) \in Stores
  BY Zenon DEF Entry, Stores, Places
<1>2. /\ b2 \in [Threads -> Seq(Stores)]
      /\ \A u \in Threads : \A n \in DOMAIN b[u] : n \in DOMAIN b2[u] /\ b2[u][n] = b[u][n]
      /\ \A u \in Threads : \A n \in DOMAIN b2[u] :
           n \notin DOMAIN b[u] => u = t /\ n = Len(b[t]) + 1 /\ b2[u][n] = Entry(loc, x)
      /\ Len(b[t]) + 1 \in DOMAIN b2[t] /\ b2[t][Len(b[t]) + 1] = Entry(loc, x)
  BY <1>1, Appended
<1>3. Entry(loc, x).loc = loc /\ Entry(loc, x).seq = x
  BY Zenon DEF Entry
<1>4. \A m, n \in DOMAIN b2[t] \ DOMAIN b[t] : m = n
  BY <1>2
<1>5. Extends(b, b2, t, loc, {x})
  BY <1>2, <1>3, <1>4, Zenon DEF Extends
<1>6. \A o \in Places \ {loc} : Aside(b, b2, o)
  BY <1>2, <1>3 DEF Aside
<1> QED
  BY <1>2, <1>5, <1>6, Zenon DEF Stacked

(* The stores of slowest_consumer stay in place.                           *)
LEMMA SlowestAside ==
  ASSUME Claiming, Aside(sb, sb', "slowest")
  PROVE  \A u \in Threads : \A n \in DOMAIN sb'[u] :
           sb'[u][n].loc = "slowest" => sb'[u][n].seq <= worker_completed_cursor
BY Zenon DEF Claiming, Aside

(* The slowest reader stored is not ahead of what is complete.             *)
LEMMA SlowestBounded ==
  ASSUME Roles, Claiming, NEW t \in Threads, NEW x \in Nat,
         sb' = [sb EXCEPT ![t] = Append(@, Entry("slowest", x))],
         worker_completed_cursor' \in Nat,
         worker_completed_cursor <= worker_completed_cursor', x <= worker_completed_cursor'
  PROVE  \A u \in Threads : \A n \in DOMAIN sb'[u] :
           sb'[u][n].loc = "slowest" => sb'[u][n].seq <= worker_completed_cursor'
<1>1. sb \in [Threads -> Seq(Stores)] /\ Entry("slowest", x) \in Stores
  BY Zenon DEF Roles, Entry, Stores
<1>2. /\ \A u \in Threads : \A n \in DOMAIN sb[u] : n \in DOMAIN sb'[u] /\ sb'[u][n] = sb[u][n]
      /\ \A u \in Threads : \A n \in DOMAIN sb'[u] : n \notin DOMAIN sb[u] => sb'[u][n] = Entry("slowest", x)
  BY <1>1, Appended
<1>3. ASSUME NEW u \in Threads, NEW n \in DOMAIN sb'[u], sb'[u][n].loc = "slowest"
      PROVE  sb'[u][n].seq <= worker_completed_cursor'
  <2>1. CASE n \in DOMAIN sb[u]
    <3>1. sb[u][n].seq \in Nat
      BY <1>1, <2>1, BufferedStores, Zenon
    <3>2. sb'[u][n] = sb[u][n] /\ sb[u][n].seq <= worker_completed_cursor
      BY <1>2, <1>3, <2>1, Zenon DEF Claiming
    <3>3. worker_completed_cursor \in Nat
      BY Zenon DEF Roles
    <3> QED
      BY <3>1, <3>2, <3>3
  <2>2. CASE n \notin DOMAIN sb[u]
    <3>1. sb'[u][n].seq = x
      BY <1>2, <2>2 DEF Entry
    <3> QED
      BY <3>1, Zenon
  <2> QED
    BY <2>1, <2>2, Zenon
<1> QED
  BY <1>3, Zenon

-----------------------------------------------------------------------------
(* What the lanes say of the published and the completed entries.          *)

(* The published and the completed sequence numbers are what the two lanes *)
(* cover.                                                                  *)
LEMMA SetsCovered ==
  /\ PublishedSet = Covered(sb, "published", published_sequences, max_read_cursor)
  /\ DoneSet = Covered(sb, "completed", worker_completed_sequences, worker_completed_cursor)
BY Zenon DEF PublishedSet, DoneSet, Covered, Buffers

(* The same after a step.                                                  *)
LEMMA SetsCoveredNext ==
  /\ PublishedSet' = Covered(sb', "published", published_sequences', max_read_cursor')
  /\ DoneSet' = Covered(sb', "completed", worker_completed_sequences', worker_completed_cursor')
<1>1. (/\ PublishedSet = Covered(sb, "published", published_sequences, max_read_cursor)
       /\ DoneSet = Covered(sb, "completed", worker_completed_sequences, worker_completed_cursor))'
  BY SetsCovered, PTL
<1> QED
  BY <1>1, Zenon

(* A step after which both lanes are in order and nothing seen is lost.    *)
LEMMA MarkingStep ==
  ASSUME Roles, Marking,
         Lane(sb, "published", published_sequences, max_read_cursor)',
         Lane(sb, "completed", worker_completed_sequences, worker_completed_cursor)',
         max_read_cursor' \in Nat, max_read_cursor' >= max_read_cursor,
         worker_completed_cursor' \in Nat, worker_completed_cursor' >= worker_completed_cursor,
         \A u \in Threads : pc'[u] \in {"probe", "advance_cas"} =>
           pc[u] \in {"probe", "advance_cas"} /\ reg'[u] = reg[u] /\ probe'[u] = probe[u],
         \A u \in Threads, s \in Nat :
           /\ Seen(sb, u, "published", published_sequences, max_read_cursor, s) =>
                Seen(sb', u, "published", published_sequences', max_read_cursor', s)
           /\ Seen(sb, u, "completed", worker_completed_sequences, worker_completed_cursor, s) =>
                Seen(sb', u, "completed", worker_completed_sequences', worker_completed_cursor', s)
  PROVE  Marking'
<1>1. ASSUME NEW u \in Publishers
      PROVE  Probing(u, sb, "published", published_sequences, max_read_cursor)'
  <2>1. u \in Threads /\ reg[u] \in Nat /\ probe[u] \in Nat /\ max_read_cursor \in Nat
    BY Zenon DEF Threads, Roles
  <2>2. Probing(u, sb, "published", published_sequences, max_read_cursor)
    BY Zenon DEF Marking
  <2>3. \A s \in (reg[u] + 1)..(probe[u] - 1) : s \in Nat
    BY <2>1
  <2> QED
    BY <2>1, <2>2, <2>3 DEF Probing
<1>2. ASSUME NEW u \in Workers
      PROVE  Probing(u, sb, "completed", worker_completed_sequences, worker_completed_cursor)'
  <2>1. u \in Threads /\ reg[u] \in Nat /\ probe[u] \in Nat /\ worker_completed_cursor \in Nat
    BY Zenon DEF Threads, Roles
  <2>2. Probing(u, sb, "completed", worker_completed_sequences, worker_completed_cursor)
    BY Zenon DEF Marking
  <2>3. \A s \in (reg[u] + 1)..(probe[u] - 1) : s \in Nat
    BY <2>1
  <2> QED
    BY <2>1, <2>2, <2>3 DEF Probing
<1> QED
  BY <1>1, <1>2, Zenon DEF Marking

(* Room behind a cursor does not shrink when the cursor moves on.          *)
LEMMA RoomGrows ==
  ASSUME NEW c \in Nat, NEW d \in Nat, d >= c, NEW k \in Nat, NEW s \in Nat, s <= c + k
  PROVE  s <= d + k
OBVIOUS

(* Neither what is owned nor what is published or complete changes.        *)
LEMMA SameOwning ==
  ASSUME Owning, Roles, PublishedSet' = PublishedSet, DoneSet' = DoneSet, CursorsOrdered',
         UNCHANGED <<write_cursor, worker_claim_cursor>>,
         worker_completed_cursor' \in Nat, worker_completed_cursor' >= worker_completed_cursor,
         \A p \in Publishers : Unpublished(p)' \subseteq Unpublished(p),
         \A w \in Workers : Held(w)' \subseteq Held(w)
  PROVE  Owning'
<1>1. ASSUME NEW s \in PublishedSet
      PROVE  s <= worker_completed_cursor' + Capacity
  <2>1. /\ s \in 1..write_cursor /\ worker_completed_cursor \in Nat
        /\ s <= worker_completed_cursor + Capacity
    BY Zenon DEF Owning, Roles
  <2>2. s \in Nat /\ Capacity \in Nat
    BY <2>1, CapacityAssumption
  <2> QED
    BY <2>1, <2>2, RoomGrows, Zenon
<1> QED
  BY <1>1, Zenon DEF Owning

(* A cursor that moves over marks alone changes nothing else.              *)
LEMMA LaneOverMarks ==
  ASSUME NEW b \in [Threads -> Seq(Stores)], NEW loc \in Places, NEW slots \in [Indexes -> Nat],
         NEW cursor \in Nat, Lane(b, loc, slots, cursor), NEW c \in Nat, c >= cursor,
         \A s \in (cursor + 1)..c : slots[RingIndex(s)] = s
  PROVE  Kept(loc, b, slots, cursor, b, slots, c)
<1>1. Lane(b, loc, slots, c)
  BY LaneAdvances, Zenon
<1>2. Covered(b, loc, slots, c) = Covered(b, loc, slots, cursor) \cup (cursor + 1)..c
  BY LaneAdvances
<1>3. ASSUME NEW s \in (cursor + 1)..c
      PROVE  s \in Covered(b, loc, slots, cursor)
  <2>1. s \in Nat \ {0} /\ slots[RingIndex(s)] = s
    OBVIOUS
  <2> QED
    BY <2>1, CoveredWhen, Zenon
<1>4. Covered(b, loc, slots, c) = Covered(b, loc, slots, cursor)
  BY <1>2, <1>3, Zenon
<1>5. \A u \in Threads, s \in Nat : Seen(b, u, loc, slots, cursor, s) => Seen(b, u, loc, slots, c, s)
  BY SeenLater, Zenon
<1> QED
  BY <1>1, <1>4, <1>5, Zenon DEF Kept

(* max_read_cursor moves to c.                                             *)
LEMMA PublishedAdvances ==
  ASSUME Roles, Marking, NEW c \in Nat, c >= max_read_cursor,
         \A s \in (max_read_cursor + 1)..c :
           published_sequences[RingIndex(s)] = s \/ s \notin PublishedSet,
         max_read_cursor' = c, UNCHANGED <<memory, sb>>
  PROVE  /\ Lane(sb, "published", published_sequences, max_read_cursor)'
         /\ PublishedSet' = PublishedSet \cup (max_read_cursor + 1)..c
         /\ \A u \in Threads, s \in Nat :
              Seen(sb, u, "published", published_sequences, max_read_cursor, s) =>
                Seen(sb', u, "published", published_sequences', max_read_cursor', s)
<1>1. /\ sb \in [Threads -> Seq(Stores)] /\ published_sequences \in [Indexes -> Nat]
      /\ max_read_cursor \in Nat /\ "published" \in Places
      /\ Lane(sb, "published", published_sequences, max_read_cursor)
      /\ \A s \in (max_read_cursor + 1)..c :
           \/ published_sequences[RingIndex(s)] = s
           \/ s \notin Covered(sb, "published", published_sequences, max_read_cursor)
  BY SetsCovered, Zenon DEF Roles, Marking, Places
<1>2. Lane(sb, "published", published_sequences, c)
  BY <1>1, LaneAdvances, Zenon
<1>3. Covered(sb, "published", published_sequences, c)
        = Covered(sb, "published", published_sequences, max_read_cursor) \cup (max_read_cursor + 1)..c
  BY <1>1, LaneAdvances
<1>4. \A u \in Threads, s \in Nat :
        Seen(sb, u, "published", published_sequences, max_read_cursor, s) =>
          Seen(sb, u, "published", published_sequences, c, s)
  BY <1>1, SeenLater, Zenon
<1>5. PublishedSet' = Covered(sb', "published", published_sequences', max_read_cursor')
  BY SetsCoveredNext, Zenon
<1> QED
  BY <1>2, <1>3, <1>4, <1>5, SetsCovered, Zenon DEF memory

(* A thread whose buffer is empty finds what it has probed in memory.      *)
LEMMA ProbedInMemory ==
  ASSUME NEW t \in Threads, Roles, NEW loc, NEW slots, NEW cursor \in Nat, Probing(t, sb, loc, slots, cursor),
         pc[t] = "advance_cas", Drained(t), cursor = reg[t]
  PROVE  /\ probe[t] - 1 \in Nat /\ probe[t] - 1 >= cursor
         /\ \A s \in (cursor + 1)..(probe[t] - 1) : slots[RingIndex(s)] = s
<1>1. reg[t] \in Nat /\ probe[t] \in Nat /\ probe[t] > reg[t]
  BY Zenon DEF Roles
<1>2. DOMAIN sb[t] = {}
  BY SMTT(30) DEF Drained
<1>3. ASSUME NEW s \in (cursor + 1)..(probe[t] - 1)
      PROVE  slots[RingIndex(s)] = s
  <2>1. Seen(sb, t, loc, slots, cursor, s)
    BY Zenon DEF Probing
  <2> QED
    BY <1>1, <1>2, <2>1, SMTT(30) DEF Seen
<1> QED
  BY <1>1, <1>3, SMTT(30)
=============================================================================
