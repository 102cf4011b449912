-------------------------- MODULE Broadcast_proofs --------------------------
(***************************************************************************)
(* Proofs about Broadcast, for any number of publishers, consumers and     *)
(* slots, any capacity and any dependencies.                               *)
(***************************************************************************)
EXTENDS Broadcast, FiniteSetTheorems, TLAPS

(* Where a thread of each kind can be.                                     *)
Refreshing == {"scan", "raise", "refreshed"}
PublisherLabels == {"idle", "capacity", "cas", "write", "commit"} \cup Refreshing
ConsumerLabels ==
  {"idle", "register", "register_cas", "wait", "process", "drain", "drain_process", "leaving",
   "vacated", "gone"} \cup Refreshing

(* First layer: types and roles.  A cursor is a sequence number that was   *)
(* handed out, or the next one, or Vacant: lap starts reach one past the   *)
(* write cursor.                                                           *)
Handed == 0..MaxSequence
Positions == 0..(MaxSequence + 1)
Readings == Positions \cup {Vacant}

Types ==
  /\ write_cursor \in Handed /\ max_read_cursor \in Handed /\ slowest_consumer \in Positions
  /\ consumer_cursors \in [Slots -> Readings]
  /\ buffer \in [0..(Capacity - 1) -> Handed]
  /\ pc \in [Threads -> PublisherLabels \cup ConsumerLabels]
  /\ waits \in [Threads -> BOOLEAN]
  /\ seq \in [Threads -> Handed] /\ target \in [Threads -> Positions]
  /\ scan \in [Threads -> 0..SlotCount] /\ reg \in [Threads -> Readings]
  /\ next \in [Consumers -> Nat] /\ slot \in [Consumers -> Slots]

Bounded == \A c \in Consumers : next[c] <= Vacant

(* What thread t may be doing, and what it has scanned.                    *)
Role(t) ==
  /\ t \in Publishers => pc[t] \in PublisherLabels
  /\ t \in Consumers => pc[t] \in ConsumerLabels
  /\ t \in Early => pc[t] \notin {"idle", "register", "register_cas"}
  /\ t \in Consumers /\ pc[t] \in {"idle", "register", "register_cas"} => scan[t] \in Slots
  /\ pc[t] \in {"raise", "refreshed", "register_cas"} => reg[t] \in Positions

Roles == \A t \in Threads : Role(t)

(* Second layer: a claimed sequence number has one owner, ahead of what is *)
(* visible.                                                                *)
Owns(p) == pc[p] \in {"write", "commit"} \/ (waits[p] /\ pc[p] \in {"capacity"} \cup Refreshing)

Claims ==
  /\ max_read_cursor <= write_cursor
  /\ \A p \in Publishers :
       /\ pc[p] \in {"idle", "cas"} => ~waits[p]
       /\ pc[p] # "idle" => seq[p] >= 1
       /\ Owns(p) => seq[p] \in (max_read_cursor + 1)..write_cursor
  /\ \A p, q \in Publishers : p # q /\ Owns(p) /\ Owns(q) => seq[p] # seq[q]

(* Third layer: a slot has one owner, and a batch ends with what is        *)
(* visible.                                                                *)
Owned ==
  /\ \A c \in Consumers : Registered(c) =>
       /\ next[c] - 1 \in Positions /\ consumer_cursors[slot[c]] = next[c] - 1
       /\ \A d \in Consumers \ {c} : Registered(d) => slot[d] # slot[c]
       /\ pc[c] \in {"process", "drain_process"} => seq[c] \in next[c]..max_read_cursor

(* Fourth layer: no thread takes an early consumer to be further than it   *)
(* is, neither in the cached minimum nor in a refresh under way.           *)
Behind(c) ==
  /\ slowest_consumer < next[c]
  /\ \A t \in Threads :
       /\ pc[t] = "scan" /\ slot[c] < scan[t] => reg[t] < next[c]
       /\ pc[t] \in {"raise", "refreshed"} => reg[t] < next[c]

(* Fifth layer: what is granted is within a lap of every early consumer,   *)
(* so that a write hits no entry that is still to be read.                 *)
Intact(c) ==
  /\ next[c] <= max_read_cursor + 1
  /\ \A p \in Publishers :
       /\ pc[p] \in {"cas", "write", "commit"} => seq[p] < next[c] + Capacity
       /\ pc[p] = "commit" => buffer[RingIndex(seq[p])] = seq[p]
  /\ \A s \in next[c]..max_read_cursor : buffer[RingIndex(s)] = s

Gating == \A c \in Early : Registered(c) => Behind(c) /\ Intact(c)

(* Sixth layer: a dependency that is still registered is not overtaken.    *)
Following ==
  \A c \in Early : Registered(c) =>
    \A d \in Upstream[c] : Registered(d) =>
      /\ next[c] <= next[d]
      /\ pc[c] \in {"process", "drain_process"} => seq[c] < next[d]

BroadcastInv == Types /\ Bounded /\ Roles /\ Claims /\ Owned /\ Gating /\ Following

-----------------------------------------------------------------------------
(* Constants, minima and the ring.                                         *)

(* What the assumptions say of the constants.                              *)
LEMMA Constants ==
  /\ Capacity \in Nat \ {0} /\ MaxSequence \in Nat /\ SlotCount \in Nat
  /\ Publishers \cap Consumers = {} /\ Early \subseteq Consumers
  /\ Publishers \subseteq Threads /\ Consumers \subseteq Threads
  /\ Threads = Publishers \cup Consumers
BY CapacityAssumption, BoundAssumption, ConsumersAssumption, Zenon DEF Threads

(* The ranges of numbers are ordered; Vacant is outside all positions.     *)
LEMMA Numbers ==
  /\ Handed \subseteq Positions /\ Positions \subseteq Readings /\ Readings \subseteq Nat
  /\ 0 \in Handed /\ Vacant \in Nat /\ Vacant \notin Positions
  /\ \A x \in Handed : x \in Positions
  /\ \A x \in Positions : x \in Nat /\ x + 1 \in Nat /\ x \in Readings
  /\ \A x \in Readings : x \in Nat
  /\ \A x \in Readings : x = Vacant \/ (x \in Positions /\ x < Vacant)
BY Constants DEF Handed, Positions, Readings, Vacant

(* A set of natural numbers has a least element.                           *)
LEMMA LeastNatural ==
  ASSUME NEW T \in SUBSET Nat, T # {}
  PROVE  \E x \in T : \A y \in T : x <= y
<1> DEFINE R == OpToRel(<, Nat)
<1>1. PICK x \in T : \A y \in T : ~ (<<y, x>> \in R)
  BY WFMin, NatLessThanWellFounded, Zenon
<1>2. ASSUME NEW y \in Nat, y < x PROVE <<y, x>> \in R
  BY <1>2, Zenon DEF OpToRel
<1> HIDE DEF R
<1>3. ASSUME NEW y \in T PROVE x <= y
  <2>1. ~ (y < x)
    BY <1>1, <1>2, Zenon
  <2> QED
    BY <2>1
<1> QED
  BY <1>3, Zenon

(* The minimum of a set of natural numbers is one of them.                 *)
LEMMA MinIs ==
  ASSUME NEW S \in SUBSET Nat, S # {}
  PROVE  Min(S) \in S /\ \A y \in S : Min(S) <= y
BY LeastNatural, Zenon DEF Min

(* A positive multiple of a number is at least that number.                *)
LEMMA NoSmallMultiple ==
  ASSUME NEW c \in Nat \ {0}, NEW k \in Int, c * k > 0
  PROVE  c * k >= c
<1>1. CASE k <= 0
  BY <1>1
<1>2. CASE k >= 1
  BY <1>2
<1> QED
  BY <1>1, <1>2

(* Numbers with the same remainder are at least a lap apart.               *)
LEMMA LapApart ==
  ASSUME NEW c \in Nat \ {0}, NEW a \in Nat, NEW b \in Nat, a < b, a % c = b % c
  PROVE  a + c <= b
<1>1. /\ a \div c \in Int /\ b \div c \in Int
      /\ a = c * (a \div c) + (a % c) /\ b = c * (b \div c) + (b % c)
  OBVIOUS
<1>2. b - a = c * ((b \div c) - (a \div c))
  BY <1>1
<1>3. c * ((b \div c) - (a \div c)) >= c
  BY <1>1, <1>2, NoSmallMultiple
<1> QED
  BY <1>2, <1>3

(* A sequence number has an entry of the ring.                             *)
LEMMA RingIndexType == \A s \in Nat : RingIndex(s) \in 0..(Capacity - 1)
BY Constants DEF RingIndex

(* Sequence numbers less than a lap apart have different entries.          *)
LEMMA EntriesApart ==
  ASSUME NEW a \in Nat, NEW b \in Nat, a < b, b < a + Capacity
  PROVE  RingIndex(a) # RingIndex(b)
<1>1. Capacity \in Nat \ {0}
  BY Constants, Zenon
<1>2. a % Capacity = b % Capacity => a + Capacity <= b
  BY <1>1, LapApart, Zenon
<1> QED
  BY <1>1, <1>2 DEF RingIndex

(* The start of a lap is not after any number of the lap.                  *)
LEMMA LapStart == \A s \in Nat : s - RingIndex(s) \in 0..s
<1> SUFFICES ASSUME NEW s \in Nat PROVE s % Capacity \in 0..s
  BY DEF RingIndex
<1>1. /\ Capacity \in Nat \ {0} /\ s \div Capacity \in Int /\ s % Capacity \in 0..(Capacity - 1)
      /\ s = Capacity * (s \div Capacity) + (s % Capacity)
  BY Constants
<1>2. CASE s \div Capacity >= 0
  <2>1. Capacity * (s \div Capacity) >= 0
    BY <1>1, <1>2
  <2> DEFINE x == Capacity * (s \div Capacity)
             r == s % Capacity
  <2>2. x \in Int /\ x >= 0 /\ r \in Nat /\ s = x + r
    BY <1>1, <2>1
  <2> HIDE DEF x, r
  <2>3. r \in 0..s
    BY <2>2
  <2> QED
    BY <2>3, Zenon DEF r
<1>3. CASE s \div Capacity <= -1
  <2>1. Capacity * (s \div Capacity) <= -Capacity
    BY <1>1, <1>3
  <2> DEFINE x == Capacity * (s \div Capacity)
             r == s % Capacity
  <2>2. x \in Int /\ x <= -Capacity /\ r \in 0..(Capacity - 1) /\ s = x + r
    BY <1>1, <2>1
  <2> HIDE DEF x, r
  <2> QED
    BY <1>1, <2>2
<1> QED
  BY <1>1, <1>2, <1>3

(* What is available to a consumer is visible, and not ahead of what it    *)
(* depends on.                                                             *)
LEMMA AvailableBounds ==
  ASSUME Types, NEW c \in Consumers
  PROVE  /\ Available(c) \in Nat /\ Available(c) <= max_read_cursor
         /\ \A d \in Upstream[c] : Available(c) <= consumer_cursors[slot[d]]
<1> DEFINE S == {max_read_cursor} \cup {consumer_cursors[slot[d]] : d \in Upstream[c]}
<1>1. Upstream[c] \subseteq Consumers
  BY ConsumersAssumption, Zenon
<1>2. \A d \in Consumers : consumer_cursors[slot[d]] \in Nat
  BY Numbers, Zenon DEF Types
<1>3. max_read_cursor \in Nat
  BY Numbers, Zenon DEF Types
<1>4. S \in SUBSET Nat
  BY <1>1, <1>2, <1>3, Zenon
<1>5. Min(S) \in S /\ \A y \in S : Min(S) <= y
  BY <1>4, MinIs, Zenon
<1> QED
  BY <1>4, <1>5, Zenon DEF Available

(* A batch is taken from what is visible.                                  *)
LEMMA BatchBounds ==
  ASSUME Types, NEW c \in Consumers, WaitFor(c)
  PROVE  \E end \in Handed :
           /\ seq' = [seq EXCEPT ![c] = end] /\ end \in next[c]..max_read_cursor
           /\ \A d \in Upstream[c] : end <= consumer_cursors[slot[d]]
<1>1. PICK end \in next[c]..Available(c) : seq' = [seq EXCEPT ![c] = end]
  BY Zenon DEF WaitFor
<1>2. /\ Available(c) \in Nat /\ Available(c) <= max_read_cursor
      /\ \A d \in Upstream[c] : Available(c) <= consumer_cursors[slot[d]]
  BY AvailableBounds, Zenon
<1>3. /\ next[c] \in Nat /\ max_read_cursor \in 0..MaxSequence /\ MaxSequence \in Nat
  BY Constants, Zenon DEF Types, Handed
<1>4. \A d \in Upstream[c] : consumer_cursors[slot[d]] \in Nat
  BY ConsumersAssumption, Numbers, Zenon DEF Types
<1>5. end \in 0..MaxSequence /\ end \in next[c]..max_read_cursor
  BY <1>2, <1>3
<1>6. \A d \in Upstream[c] : end <= consumer_cursors[slot[d]]
  BY <1>2, <1>3, <1>4
<1> QED
  BY <1>1, <1>5, <1>6, Zenon DEF Handed

-----------------------------------------------------------------------------
(* First layer.                                                            *)

(* What one reading of a refresh gives.                                    *)
LEMMA ScanReads ==
  ASSUME Types, NEW t \in Threads, ScanSlot(t)
  PROVE  /\ scan[t] \in Slots /\ reg'[t] \in {reg[t], consumer_cursors[scan[t]]}
         /\ reg'[t] <= reg[t] /\ reg'[t] <= consumer_cursors[scan[t]]
         /\ reg' = [reg EXCEPT ![t] = reg'[t]]
<1>1. scan[t] \in Slots
  BY Constants DEF Types, ScanSlot, Slots
<1>2. reg[t] \in Nat /\ consumer_cursors[scan[t]] \in Nat
  BY <1>1, Numbers, Zenon DEF Types
<1> DEFINE S == {reg[t], consumer_cursors[scan[t]]}
<1>3. Min(S) \in S /\ \A y \in S : Min(S) <= y
  BY <1>2, MinIs, Zenon
<1>4. reg' = [reg EXCEPT ![t] = Min(S)] /\ reg'[t] = Min(S)
  BY Zenon DEF ScanSlot, Types
<1> QED
  BY <1>1, <1>3, <1>4, Zenon

(* What a refresh ends with.                                               *)
LEMMA RefreshEnds ==
  ASSUME Types, NEW t \in Threads, LoadCached(t)
  PROVE  /\ reg'[t] \in Positions /\ reg' = [reg EXCEPT ![t] = reg'[t]]
         /\ reg[t] # Vacant => reg'[t] = reg[t]
<1> DEFINE slowest == IF reg[t] = Vacant THEN target[t] - RingIndex(target[t]) ELSE reg[t]
<1>1. target[t] \in 0..(MaxSequence + 1) /\ reg[t] \in Readings /\ MaxSequence \in Nat
  BY Constants, Zenon DEF Types, Positions
<1>2. target[t] - RingIndex(target[t]) \in 0..target[t]
  BY <1>1, LapStart
<1>3. target[t] - RingIndex(target[t]) \in Positions
  BY <1>1, <1>2 DEF Positions
<1>4. slowest \in Positions
  BY <1>1, <1>3, Numbers, Zenon
<1>5. reg' = [reg EXCEPT ![t] = slowest] /\ reg'[t] = slowest
  BY Zenon DEF LoadCached, Types
<1> QED
  BY <1>4, <1>5, Zenon

(* Every step keeps the types.                                             *)
LEMMA TypesNext ==
  ASSUME BroadcastInv, [Next]_vars
  PROVE  Types'
<1>0. Types /\ Roles
  BY Zenon DEF BroadcastInv
<1>1. CASE UNCHANGED vars
  BY <1>0, <1>1, Zenon DEF Types, vars, shared
<1>2. CASE Next
  <2> USE DEF Types
  <2>0. PICK t \in Threads : Step(t) \/ Calls(t)
    BY <1>2, Zenon DEF Next
  <2>a. /\ {"idle", "capacity", "cas", "write", "commit", "scan", "raise", "refreshed", "register",
            "register_cas", "wait", "process", "drain", "drain_process", "leaving", "vacated",
            "gone"} \subseteq PublisherLabels \cup ConsumerLabels
    BY Zenon DEF PublisherLabels, ConsumerLabels, Refreshing
  <2>b. 0 \in Handed /\ 0 \in Positions /\ 0 \in Readings /\ Vacant \in Readings /\ 0 \in 0..SlotCount
        /\ Handed \subseteq Positions /\ Positions \subseteq Readings
    BY Numbers, Constants DEF Readings
  <2>1. CASE ScanSlot(t)
    <3>1. scan[t] \in Slots /\ reg' = [reg EXCEPT ![t] = reg'[t]] /\ reg'[t] \in Readings
      BY <1>0, <2>1, ScanReads, Zenon
    <3>2. scan[t] + 1 \in 0..SlotCount
      BY <3>1, Constants DEF Slots
    <3> QED
      BY <1>0, <2>1, <3>1, <3>2, Zenon DEF ScanSlot, shared
  <2>2. CASE LoadCached(t)
    <3>1. reg' = [reg EXCEPT ![t] = reg'[t]] /\ reg'[t] \in Readings
      BY <1>0, <2>2, <2>b, RefreshEnds, Zenon
    <3>2. reg' \in [Threads -> Readings]
      BY <1>0, <3>1, Zenon
    <3> QED
      BY <1>0, <2>2, <2>a, <3>2, Zenon DEF LoadCached, Goto, shared
  <2>3. CASE RaiseSlowest(t)
    <3>1. reg[t] \in Positions
      BY <1>0, <2>3, Zenon DEF Roles, Role, RaiseSlowest, At
    <3> QED
      BY <1>0, <2>3, <2>a, <3>1, Zenon DEF RaiseSlowest, Goto
  <2>4. CASE t \in Publishers /\ TryClaim(t)
    <3>1. write_cursor + 1 \in Handed
      BY <1>0, <2>4, Constants DEF TryClaim, Handed
    <3> QED
      BY <1>0, <2>4, <2>a, <3>1, Zenon DEF TryClaim, Goto, shared
  <2>5. CASE t \in Publishers /\ ClaimBlocking(t)
    <3>1. write_cursor + 1 \in Handed
      BY <1>0, <2>5, Constants DEF ClaimBlocking, Handed
    <3> QED
      BY <1>0, <2>5, <2>a, <3>1, Zenon DEF ClaimBlocking, Goto
  <2>6. CASE t \in Publishers /\ CheckCapacity(t)
    <3>1. CASE HasCapacity(seq[t], slowest_consumer)
      BY <1>0, <2>6, <2>a, <3>1, Zenon DEF CheckCapacity, Goto, Granted, shared
    <3>2. CASE ~HasCapacity(seq[t], slowest_consumer)
      BY <1>0, <2>6, <2>a, <2>b, <3>2, ZenonT(30) DEF CheckCapacity, StartRefresh, Goto, shared
    <3> QED
      BY <3>1, <3>2, Zenon
  <2>7. CASE t \in Publishers /\ Refreshed(t)
    <3>1. seq' = seq \/ seq' = [seq EXCEPT ![t] = 0]
      BY <2>7, Zenon DEF Refreshed
    <3>2. PICK l \in {"write", "cas", "capacity", "idle"} : pc' = [pc EXCEPT ![t] = l]
      BY <2>7, Zenon DEF Refreshed, Goto, Granted
    <3>3. seq' \in [Threads -> Handed]
      BY <1>0, <2>b, <3>1, Zenon
    <3>4. pc' \in [Threads -> PublisherLabels \cup ConsumerLabels]
      BY <1>0, <2>a, <3>2, Zenon
    <3> QED
      BY <1>0, <2>7, <2>b, <3>3, <3>4, Zenon DEF Refreshed, Forget, shared
  <2>8. CASE t \in Publishers /\ ClaimCas(t)
    <3>1. CASE write_cursor = seq[t] - 1
      <4>1. write_cursor' = seq[t] /\ pc' = [pc EXCEPT ![t] = "write"] /\ UNCHANGED seq
        BY <2>8, <3>1, Zenon DEF ClaimCas, Goto
      <4>2. seq[t] \in Handed
        BY <1>0, Zenon
      <4> QED
        BY <1>0, <2>8, <2>a, <4>1, <4>2, Zenon DEF ClaimCas
    <3>2. CASE write_cursor # seq[t] - 1
      BY <1>0, <2>8, <2>a, <2>b, <3>2, Zenon DEF ClaimCas, Goto
    <3> QED
      BY <3>1, <3>2, Zenon
  <2>9. CASE t \in Publishers /\ Write(t)
    BY <1>0, <2>9, <2>a, Zenon DEF Write, Goto
  <2>10. CASE t \in Publishers /\ Commit(t)
    BY <1>0, <2>10, <2>a, <2>b, Zenon DEF Commit, Goto
  <2>11. CASE t \in Consumers /\ LoadStart(t)
    BY <1>0, <2>11, <2>a, <2>b, Zenon DEF LoadStart, Goto, shared
  <2>12. CASE t \in Consumers /\ RegisterCas(t)
    <3>a. scan[t] \in Slots /\ reg[t] \in Positions
      BY <1>0, <2>12, Zenon DEF RegisterCas, At, Roles, Role
    <3>0. reg[t] + 1 \in Nat /\ reg[t] \in Readings
      BY <3>a, Numbers, Zenon
    <3>1. CASE consumer_cursors[scan[t]] = Vacant
      BY <1>0, <2>12, <2>a, <2>b, <3>a, <3>0, <3>1, ZenonT(30) DEF RegisterCas, Goto
    <3>2. CASE consumer_cursors[scan[t]] # Vacant
      <4>1. (scan[t] + 1) % SlotCount \in 0..SlotCount
        BY <3>a, Constants DEF Slots
      <4> QED
        BY <1>0, <2>12, <2>a, <2>b, <3>a, <3>0, <3>2, <4>1, Zenon DEF RegisterCas, Goto
    <3> QED
      BY <3>1, <3>2, Zenon
  <2>13. CASE t \in Consumers /\ WaitFor(t)
    <3>1. seq' \in [Threads -> Handed]
      BY <1>0, <2>13, BatchBounds, Zenon
    <3> QED
      BY <1>0, <2>13, <2>a, <3>1, Zenon DEF WaitFor, Goto, shared
  <2>14. CASE t \in Consumers /\ ReleaseEntry(t)
    <3>0. seq[t] \in Handed
      BY <1>0, Zenon
    <3>1. seq[t] + 1 \in Nat /\ seq[t] \in Readings
      BY <3>0, Numbers, Zenon
    <3> QED
      BY <1>0, <2>14, <2>a, <2>b, <3>1, Zenon DEF ReleaseEntry, Goto
  <2>15. CASE t \in Consumers /\ StopRunning(t)
    BY <1>0, <2>15, <2>a, Zenon DEF StopRunning, Goto, shared
  <2>16. CASE t \in Consumers /\ DrainNothing(t)
    BY <1>0, <2>16, <2>a, Zenon DEF DrainNothing, Goto, shared
  <2>17. CASE t \in Consumers /\ Unregister(t)
    BY <1>0, <2>17, <2>a, <2>b, Zenon DEF Unregister, Goto
  <2>18. CASE t \in Consumers /\ Vacated(t)
    <3>1. write_cursor + 1 \in Positions
      BY <1>0, Constants DEF Handed, Positions
    <3> QED
      BY <1>0, <2>18, <2>a, <2>b, <3>1, Zenon DEF Vacated, StartRefresh, Goto, shared
  <2>19. CASE t \in Consumers /\ Unregistered(t)
    BY <1>0, <2>19, <2>a, <2>b, Zenon DEF Unregistered, Forget, Goto, shared
  <2> QED
    BY <2>0, <2>1, <2>2, <2>3, <2>4, <2>5, <2>6, <2>7, <2>8, <2>9, <2>10, <2>11, <2>12, <2>13,
       <2>14, <2>15, <2>16, <2>17, <2>18, <2>19, Zenon DEF Step, Calls, PublisherStep, ConsumerStep
<1> QED
  BY <1>1, <1>2, Zenon

(* A step changes the locals of one thread only.                           *)
Alone(t) ==
  /\ \A u \in Threads \ {t} : /\ pc'[u] = pc[u] /\ waits'[u] = waits[u] /\ seq'[u] = seq[u]
                              /\ scan'[u] = scan[u] /\ reg'[u] = reg[u]
  /\ \A d \in Consumers \ {t} : next'[d] = next[d] /\ slot'[d] = slot[d]

(* A step of one thread leaves the locals of the others alone.             *)
LEMMA StepAlone ==
  ASSUME Types, NEW t \in Threads, Step(t) \/ Calls(t)
  PROVE  Alone(t)
<1> USE DEF Types, Alone
<1>1. CASE ScanSlot(t)
  BY <1>1, Zenon DEF ScanSlot, At, Goto
<1>2. CASE LoadCached(t)
  BY <1>2, Zenon DEF LoadCached, At, Goto
<1>3. CASE RaiseSlowest(t)
  BY <1>3, Zenon DEF RaiseSlowest, At, Goto
<1>4. CASE TryClaim(t)
  BY <1>4, Zenon DEF TryClaim, At, Goto
<1>5. CASE ClaimBlocking(t)
  BY <1>5, Zenon DEF ClaimBlocking, At, Goto
<1>6. CASE CheckCapacity(t)
  BY <1>6, Zenon DEF CheckCapacity, StartRefresh, At, Goto
<1>7. CASE Refreshed(t)
  BY <1>7, Zenon DEF Refreshed, Forget, At, Goto
<1>8. CASE ClaimCas(t)
  BY <1>8, Zenon DEF ClaimCas, At, Goto
<1>9. CASE Write(t)
  BY <1>9, Zenon DEF Write, At, Goto
<1>10. CASE Commit(t)
  BY <1>10, Zenon DEF Commit, At, Goto
<1>11. CASE LoadStart(t)
  BY <1>11, Zenon DEF LoadStart, At, Goto
<1>12. CASE RegisterCas(t)
  BY <1>12, Zenon DEF RegisterCas, At, Goto
<1>13. CASE WaitFor(t)
  BY <1>13, Zenon DEF WaitFor, At, Goto
<1>14. CASE ReleaseEntry(t)
  BY <1>14, Zenon DEF ReleaseEntry, At, Goto
<1>15. CASE StopRunning(t)
  BY <1>15, Zenon DEF StopRunning, At, Goto
<1>16. CASE DrainNothing(t)
  BY <1>16, Zenon DEF DrainNothing, At, Goto
<1>17. CASE Unregister(t)
  BY <1>17, Zenon DEF Unregister, At, Goto
<1>18. CASE Vacated(t)
  BY <1>18, Zenon DEF Vacated, StartRefresh, At, Goto
<1>19. CASE Unregistered(t)
  BY <1>19, Zenon DEF Unregistered, Forget, At, Goto
<1> QED
  BY <1>1, <1>2, <1>3, <1>4, <1>5, <1>6, <1>7, <1>8, <1>9, <1>10, <1>11, <1>12, <1>13, <1>14,
     <1>15, <1>16, <1>17, <1>18, <1>19, Zenon DEF Step, Calls, PublisherStep, ConsumerStep

(* Where the step takes the thread.                                        *)
LEMMA StepRole ==
  ASSUME Types, Roles, NEW t \in Threads, Step(t) \/ Calls(t)
  PROVE  Role(t)'
<1>0. Role(t)
  BY Zenon DEF Roles
<1>a. /\ t \notin Publishers \/ t \notin Consumers
      /\ t \in Early => t \in Consumers
  BY Constants, Zenon
<1>b. /\ {"idle", "capacity", "cas", "write", "commit", "scan", "raise", "refreshed"} \subseteq PublisherLabels
      /\ {"register", "register_cas", "wait", "process", "drain", "drain_process", "leaving", "vacated",
          "gone", "scan", "raise", "refreshed"} \subseteq ConsumerLabels
      /\ Positions \subseteq Readings
  BY Numbers, Zenon DEF PublisherLabels, ConsumerLabels, Refreshing
<1> USE DEF Types, Role
<1>1. CASE ScanSlot(t)
  BY <1>0, <1>a, <1>b, <1>1, Zenon DEF ScanSlot, At
<1>2. CASE LoadCached(t)
  <2>1. pc'[t] \in {"raise", "refreshed"} /\ UNCHANGED scan
    BY <1>2, Zenon DEF LoadCached, Goto
  <2> QED
    BY <1>0, <1>a, <1>b, <1>2, <2>1, RefreshEnds, Zenon
<1>3. CASE RaiseSlowest(t)
  BY <1>0, <1>a, <1>b, <1>3, Zenon DEF RaiseSlowest, At, Goto
<1>4. CASE t \in Publishers /\ TryClaim(t)
  BY <1>0, <1>a, <1>b, <1>4, Zenon DEF TryClaim, At, Goto
<1>5. CASE t \in Publishers /\ ClaimBlocking(t)
  BY <1>0, <1>a, <1>b, <1>5, Zenon DEF ClaimBlocking, At, Goto
<1>6. CASE t \in Publishers /\ CheckCapacity(t)
  <2>1. pc'[t] \in {"write", "cas", "scan"}
    BY <1>6, Zenon DEF CheckCapacity, Granted, StartRefresh, Goto
  <2> QED
    BY <1>0, <1>a, <1>b, <1>6, <2>1, Zenon
<1>7. CASE t \in Publishers /\ Refreshed(t)
  <2>1. pc'[t] \in {"write", "cas", "capacity", "idle"}
    BY <1>7, Zenon DEF Refreshed, Granted, Goto
  <2> QED
    BY <1>0, <1>a, <1>b, <1>7, <2>1, Zenon
<1>8. CASE t \in Publishers /\ ClaimCas(t)
  BY <1>0, <1>a, <1>b, <1>8, Zenon DEF ClaimCas, At, Goto
<1>9. CASE t \in Publishers /\ Write(t)
  BY <1>0, <1>a, <1>b, <1>9, Zenon DEF Write, At, Goto
<1>10. CASE t \in Publishers /\ Commit(t)
  BY <1>0, <1>a, <1>b, <1>10, Zenon DEF Commit, At, Goto
<1>11. CASE t \in Consumers /\ LoadStart(t)
  BY <1>0, <1>a, <1>b, <1>11, Zenon DEF LoadStart, At, Goto
<1>12. CASE t \in Consumers /\ RegisterCas(t)
  <2>1. scan[t] \in Slots /\ t \notin Early
    BY <1>0, <1>12, Zenon DEF RegisterCas, At
  <2>2. (scan[t] + 1) % SlotCount \in Slots
    BY <2>1, Constants DEF Slots
  <2> QED
    BY <1>0, <1>a, <1>b, <1>12, <2>1, <2>2 DEF RegisterCas, At, Goto
<1>13. CASE t \in Consumers /\ WaitFor(t)
  BY <1>0, <1>a, <1>b, <1>13, Zenon DEF WaitFor, At, Goto
<1>14. CASE t \in Consumers /\ ReleaseEntry(t)
  BY <1>0, <1>a, <1>b, <1>14, Zenon DEF ReleaseEntry, At, Goto
<1>15. CASE t \in Consumers /\ StopRunning(t)
  BY <1>0, <1>a, <1>b, <1>15, Zenon DEF StopRunning, At, Goto
<1>16. CASE t \in Consumers /\ DrainNothing(t)
  BY <1>0, <1>a, <1>b, <1>16, Zenon DEF DrainNothing, At, Goto
<1>17. CASE t \in Consumers /\ Unregister(t)
  BY <1>0, <1>a, <1>b, <1>17, Zenon DEF Unregister, At, Goto
<1>18. CASE t \in Consumers /\ Vacated(t)
  BY <1>0, <1>a, <1>b, <1>18, Zenon DEF Vacated, StartRefresh, At, Goto
<1>19. CASE t \in Consumers /\ Unregistered(t)
  BY <1>0, <1>a, <1>b, <1>19, Zenon DEF Unregistered, Forget, At, Goto
<1> QED
  BY <1>1, <1>2, <1>3, <1>4, <1>5, <1>6, <1>7, <1>8, <1>9, <1>10, <1>11, <1>12, <1>13, <1>14,
     <1>15, <1>16, <1>17, <1>18, <1>19, Zenon DEF Step, Calls, PublisherStep, ConsumerStep

(* Every step keeps the roles.                                             *)
LEMMA RolesNext ==
  ASSUME Types, Roles, NEW t \in Threads, Step(t) \/ Calls(t)
  PROVE  Roles'
<1>1. Role(t)' /\ Alone(t)
  BY StepAlone, StepRole, Zenon
<1>2. ASSUME NEW u \in Threads \ {t} PROVE Role(u)'
  BY <1>1, Zenon DEF Roles, Role, Alone
<1> QED
  BY <1>1, <1>2, Zenon DEF Roles

-----------------------------------------------------------------------------
(* Second layer.                                                           *)

(* A step that neither claims nor commits.                                 *)
LEMMA ClaimsStay ==
  ASSUME Claims, NEW t \in Threads, Alone(t), UNCHANGED <<write_cursor, max_read_cursor>>,
         t \in Publishers => /\ pc'[t] \in {"idle", "cas"} => ~waits'[t]
                             /\ pc'[t] # "idle" => seq'[t] >= 1
                             /\ Owns(t)' => Owns(t) /\ seq'[t] = seq[t]
  PROVE  Claims'
<1>1. \A p \in Publishers : Owns(p)' => Owns(p) /\ seq'[p] = seq[p]
  BY Constants, Zenon DEF Alone, Owns
<1>2. ASSUME NEW p \in Publishers
      PROVE  /\ pc'[p] \in {"idle", "cas"} => ~waits'[p]
             /\ pc'[p] # "idle" => seq'[p] >= 1
  BY Constants, Zenon DEF Alone, Claims
<1> QED
  BY <1>1, <1>2, Zenon DEF Claims

(* Every step keeps the claims: a claimed number has one owner and is      *)
(* ahead of what is visible.                                               *)
LEMMA ClaimsNext ==
  ASSUME Types, Roles, Claims, NEW t \in Threads, Step(t) \/ Calls(t)
  PROVE  Claims'
<1>0. /\ t \notin Publishers \/ t \notin Consumers
      /\ write_cursor \in Nat /\ max_read_cursor \in Nat /\ seq[t] \in Nat
      /\ \A p \in Publishers : p \in Threads /\ seq[p] \in Nat
  BY StepAlone, Constants, Numbers, Zenon DEF Types
<1>a. Alone(t)
  BY StepAlone, Zenon
<1>1. CASE t \in Publishers /\ (ScanSlot(t) \/ LoadCached(t) \/ RaiseSlowest(t))
  <2>1. /\ pc[t] \in Refreshing /\ pc'[t] \in Refreshing /\ waits'[t] = waits[t] /\ seq'[t] = seq[t]
        /\ UNCHANGED <<write_cursor, max_read_cursor>>
    BY <1>1, Zenon DEF ScanSlot, LoadCached, RaiseSlowest, At, Goto, shared, Types, Refreshing
  <2> QED
    BY <1>a, <1>1, <2>1, ClaimsStay, Zenon DEF Claims, Owns, Refreshing
<1>4. CASE t \in Publishers /\ TryClaim(t)
  <2>1. /\ pc[t] = "idle" /\ pc'[t] = "capacity" /\ waits'[t] = waits[t] /\ seq'[t] >= 1
        /\ UNCHANGED <<write_cursor, max_read_cursor>>
    BY <1>0, <1>4 DEF TryClaim, At, Goto, shared, Types
  <2>2. ~waits[t]
    BY <1>4, <2>1, Zenon DEF Claims
  <2> QED
    BY <1>a, <1>4, <2>1, <2>2, ClaimsStay, Zenon DEF Owns
<1>5. CASE t \in Publishers /\ ClaimBlocking(t)
  <2>1. /\ pc[t] = "idle" /\ pc'[t] = "capacity" /\ waits'[t] /\ seq'[t] = write_cursor + 1
        /\ write_cursor' = write_cursor + 1 /\ UNCHANGED max_read_cursor
    BY <1>5, Zenon DEF ClaimBlocking, At, Goto, Types
  <2>2. \A p \in Publishers \ {t} : Owns(p)' => Owns(p) /\ seq'[p] = seq[p]
    BY <1>a, Constants, Zenon DEF Alone, Owns
  <2>3. \A p \in Publishers \ {t} : Owns(p)' => seq'[p] \in (max_read_cursor + 1)..write_cursor
    BY <2>2, Zenon DEF Claims
  <2>4. ASSUME NEW p \in Publishers
        PROVE  /\ pc'[p] \in {"idle", "cas"} => ~waits'[p]
               /\ pc'[p] # "idle" => seq'[p] >= 1
               /\ Owns(p)' => seq'[p] \in (max_read_cursor' + 1)..write_cursor'
    <3>1. CASE p = t
      BY <1>0, <2>1, <3>1 DEF Claims
    <3>2. CASE p # t
      BY <1>0, <1>a, <2>1, <2>3, <3>2 DEF Claims, Alone
    <3> QED
      BY <3>1, <3>2, Zenon
  <2>5. ASSUME NEW p \in Publishers, NEW q \in Publishers, p # q, Owns(p)', Owns(q)'
        PROVE  seq'[p] # seq'[q]
    BY <1>0, <2>1, <2>2, <2>3, <2>5 DEF Claims
  <2>6. max_read_cursor' <= write_cursor'
    BY <1>0, <2>1 DEF Claims
  <2> QED
    BY <2>4, <2>5, <2>6, Zenon DEF Claims
<1>6. CASE t \in Publishers /\ CheckCapacity(t)
  <2>1. /\ pc[t] = "capacity" /\ waits'[t] = waits[t] /\ seq'[t] = seq[t]
        /\ pc'[t] = Granted(t) \/ pc'[t] = "scan"
        /\ UNCHANGED <<write_cursor, max_read_cursor>>
    BY <1>6, Zenon DEF CheckCapacity, StartRefresh, At, Goto, shared, Types
  <2> QED
    BY <1>a, <1>6, <2>1, ClaimsStay, Zenon DEF Claims, Owns, Granted, Refreshing
<1>7. CASE t \in Publishers /\ Refreshed(t)
  <2>1. /\ pc[t] = "refreshed" /\ waits'[t] = waits[t]
        /\ \/ pc'[t] = Granted(t) /\ seq'[t] = seq[t]
           \/ pc'[t] = "capacity" /\ waits[t] /\ seq'[t] = seq[t]
           \/ pc'[t] = "idle" /\ ~waits[t]
        /\ UNCHANGED <<write_cursor, max_read_cursor>>
    BY <1>7, Zenon DEF Refreshed, At, Goto, shared, Types
  <2> QED
    BY <1>a, <1>7, <2>1, ClaimsStay, Zenon DEF Claims, Owns, Granted, Refreshing
<1>8. CASE t \in Publishers /\ ClaimCas(t)
  <2>0. pc[t] = "cas" /\ waits'[t] = waits[t] /\ ~waits[t] /\ UNCHANGED max_read_cursor
    BY <1>8, Zenon DEF ClaimCas, At, Claims
  <2>1. CASE write_cursor # seq[t] - 1
    <3>1. pc'[t] = "idle" /\ UNCHANGED write_cursor
      BY <1>8, <2>1, Zenon DEF ClaimCas, Goto, Types
    <3> QED
      BY <1>a, <2>0, <3>1, ClaimsStay, Zenon DEF Owns
  <2>2. CASE write_cursor = seq[t] - 1
    <3>1. pc'[t] = "write" /\ write_cursor' = seq[t] /\ seq'[t] = seq[t] /\ seq[t] = write_cursor + 1
      BY <1>0, <1>8, <2>2 DEF ClaimCas, Goto, Types
    <3>2. \A p \in Publishers \ {t} : Owns(p)' => Owns(p) /\ seq'[p] = seq[p]
      BY <1>a, Constants, Zenon DEF Alone, Owns
    <3>3. \A p \in Publishers \ {t} : Owns(p)' => seq'[p] \in (max_read_cursor + 1)..write_cursor
      BY <3>2, Zenon DEF Claims
    <3>4. ASSUME NEW p \in Publishers
          PROVE  /\ pc'[p] \in {"idle", "cas"} => ~waits'[p]
                 /\ pc'[p] # "idle" => seq'[p] >= 1
                 /\ Owns(p)' => seq'[p] \in (max_read_cursor' + 1)..write_cursor'
      <4>1. CASE p = t
        BY <1>0, <2>0, <3>1, <4>1 DEF Claims
      <4>2. CASE p # t
        BY <1>0, <1>a, <2>0, <3>1, <3>3, <4>2 DEF Claims, Alone
      <4> QED
        BY <4>1, <4>2, Zenon
    <3>5. ASSUME NEW p \in Publishers, NEW q \in Publishers, p # q, Owns(p)', Owns(q)'
          PROVE  seq'[p] # seq'[q]
      BY <1>0, <3>1, <3>2, <3>3, <3>5 DEF Claims
    <3>6. max_read_cursor' <= write_cursor'
      BY <1>0, <2>0, <3>1 DEF Claims
    <3> QED
      BY <3>4, <3>5, <3>6, Zenon DEF Claims
  <2> QED
    BY <2>1, <2>2, Zenon
<1>9. CASE t \in Publishers /\ Write(t)
  <2>1. /\ pc[t] = "write" /\ pc'[t] = "commit" /\ waits'[t] = waits[t] /\ seq'[t] = seq[t]
        /\ UNCHANGED <<write_cursor, max_read_cursor>>
    BY <1>9, Zenon DEF Write, At, Goto, Types
  <2> QED
    BY <1>a, <1>9, <2>1, ClaimsStay, Zenon DEF Claims, Owns
<1>10. CASE t \in Publishers /\ Commit(t)
  <2>1. /\ pc[t] = "commit" /\ pc'[t] = "idle" /\ ~waits'[t] /\ max_read_cursor = seq[t] - 1
        /\ max_read_cursor' = seq[t] /\ UNCHANGED write_cursor
    BY <1>10, Zenon DEF Commit, At, Goto, Types
  <2>2. Owns(t) /\ ~Owns(t)'
    BY <2>1, Zenon DEF Owns
  <2>3. ASSUME NEW p \in Publishers, p # t
        PROVE  /\ Owns(p)' => Owns(p) /\ seq'[p] = seq[p]
               /\ Owns(p) => seq[p] # seq[t] /\ seq[p] \in (max_read_cursor + 1)..write_cursor
               /\ pc'[p] \in {"idle", "cas"} => ~waits'[p]
               /\ pc'[p] # "idle" => seq'[p] >= 1
    BY <1>a, <1>10, <2>2, <2>3, Constants, Zenon DEF Alone, Owns, Claims
  <2>4. ASSUME NEW p \in Publishers, Owns(p)'
        PROVE  seq'[p] \in (max_read_cursor' + 1)..write_cursor'
    BY <1>0, <2>1, <2>2, <2>3, <2>4
  <2>5. ASSUME NEW p \in Publishers, NEW q \in Publishers, p # q, Owns(p)', Owns(q)'
        PROVE  seq'[p] # seq'[q]
    BY <2>2, <2>3, <2>5, Zenon DEF Claims
  <2>6. max_read_cursor' <= write_cursor'
    BY <1>0, <1>10, <2>1, <2>2 DEF Claims
  <2> QED
    BY <2>1, <2>3, <2>4, <2>5, <2>6, Zenon DEF Claims
<1>11. CASE t \in Consumers
  <2>1. UNCHANGED <<write_cursor, max_read_cursor>>
    BY <1>0, <1>11, Zenon DEF Step, Calls, ConsumerStep, ScanSlot, LoadCached, RaiseSlowest, LoadStart, RegisterCas, WaitFor,
         ReleaseEntry, StopRunning, DrainNothing, Unregister, Vacated, Unregistered, shared
  <2> QED
    BY <1>0, <1>a, <1>11, <2>1, ClaimsStay, Zenon
<1> QED
  BY <1>1, <1>4, <1>5, <1>6, <1>7, <1>8, <1>9, <1>10, <1>11, Zenon DEF Step, Calls, PublisherStep, Threads

-----------------------------------------------------------------------------
(* Third layer.                                                            *)

Processing == {"process", "drain_process"}

(* A step after which no more consumers are registered than before and     *)
(* that stores to no slot.                                                 *)
LEMMA OwnedStay ==
  ASSUME Types, Types', Owned, NEW t \in Threads, Alone(t), UNCHANGED consumer_cursors,
         max_read_cursor' >= max_read_cursor,
         t \in Consumers /\ Registered(t)' =>
           /\ Registered(t) /\ next'[t] = next[t] /\ slot'[t] = slot[t]
           /\ pc'[t] \in Processing => seq'[t] \in next[t]..max_read_cursor
  PROVE  Owned'
<1>1. ASSUME NEW c \in Consumers
      PROVE  Registered(c)' =>
               /\ Registered(c) /\ next'[c] = next[c] /\ slot'[c] = slot[c]
               /\ pc'[c] \in Processing => seq'[c] \in next[c]..max_read_cursor
  <2>1. CASE c = t
    BY <2>1, Zenon
  <2>2. CASE c # t
    BY <2>2, Constants, Zenon DEF Alone, Owned, Registered, Processing
  <2> QED
    BY <2>1, <2>2, Zenon
<1>2. max_read_cursor \in Nat /\ max_read_cursor' \in Nat /\ \A c \in Consumers : next[c] \in Nat
  BY Numbers, Zenon DEF Types
<1>3. ASSUME NEW c \in Consumers, Registered(c)'
      PROVE  /\ next'[c] - 1 \in Positions /\ consumer_cursors'[slot'[c]] = next'[c] - 1
             /\ \A d \in Consumers \ {c} : Registered(d)' => slot'[d] # slot'[c]
             /\ pc'[c] \in {"process", "drain_process"} => seq'[c] \in next'[c]..max_read_cursor'
  BY <1>1, <1>2, <1>3 DEF Owned, Processing
<1> QED
  BY <1>3, Zenon DEF Owned

(* Every step keeps the slots owned: a slot taken has one registered       *)
(* consumer behind it.                                                     *)
LEMMA OwnedNext ==
  ASSUME Types, Types', Roles, Owned, NEW t \in Threads, Step(t) \/ Calls(t)
  PROVE  Owned'
<1>0. /\ t \notin Publishers \/ t \notin Consumers
      /\ max_read_cursor \in Nat /\ \A d \in Consumers : d \in Threads /\ next[d] \in Nat /\ slot[d] \in Slots
  BY Constants, Numbers, Zenon DEF Types
<1>a. Alone(t)
  BY StepAlone, Zenon
<1>1. CASE t \in Publishers
  <2>1. UNCHANGED consumer_cursors /\ max_read_cursor' >= max_read_cursor
    <3>1. CASE Commit(t)
      <4>1. seq[t] \in Nat
        BY Numbers, Zenon DEF Types
      <4> QED
        BY <1>0, <3>1, <4>1 DEF Commit
    <3>2. CASE ~Commit(t)
      <4>1. UNCHANGED <<consumer_cursors, max_read_cursor>>
        BY <1>0, <1>1, <3>2, Zenon DEF Step, Calls, PublisherStep, ScanSlot, LoadCached, RaiseSlowest, TryClaim, ClaimBlocking,
             CheckCapacity, Refreshed, ClaimCas, Write, shared
      <4> QED
        BY <1>0, <4>1
    <3> QED
      BY <3>1, <3>2, Zenon
  <2> QED
    BY <1>0, <1>a, <1>1, <2>1, OwnedStay, Zenon
<1>2. CASE t \in Consumers /\ (ScanSlot(t) \/ LoadCached(t) \/ RaiseSlowest(t) \/ LoadStart(t) \/ Vacated(t) \/ Unregistered(t))
  <2>1. /\ UNCHANGED <<consumer_cursors, max_read_cursor>>
        /\ pc'[t] \in {"scan", "raise", "refreshed", "register_cas", "gone"}
    BY <1>2, Zenon DEF ScanSlot, LoadCached, RaiseSlowest, LoadStart, Vacated, Unregistered, StartRefresh, At, Goto, shared, Types
  <2> QED
    BY <1>0, <1>a, <2>1, OwnedStay DEF Registered
<1>3. CASE t \in Consumers /\ (StopRunning(t) \/ DrainNothing(t))
  <2>1. /\ UNCHANGED <<consumer_cursors, max_read_cursor>> /\ next'[t] = next[t] /\ slot'[t] = slot[t]
        /\ pc'[t] \in {"drain", "leaving"} /\ Registered(t)
    BY <1>3, Zenon DEF StopRunning, DrainNothing, At, Goto, shared, Types, Registered
  <2> QED
    BY <1>0, <1>a, <2>1, OwnedStay DEF Processing
<1>4. CASE t \in Consumers /\ WaitFor(t)
  <2>1. /\ UNCHANGED <<consumer_cursors, max_read_cursor>> /\ next'[t] = next[t] /\ slot'[t] = slot[t]
        /\ Registered(t)
    BY <1>4, Zenon DEF WaitFor, shared, Registered
  <2>2. seq'[t] \in next[t]..max_read_cursor
    BY <1>4, BatchBounds DEF Types
  <2> QED
    BY <1>0, <1>a, <2>1, <2>2, OwnedStay
<1>5. CASE t \in Consumers /\ RegisterCas(t)
  <2>0. pc[t] = "register_cas" /\ scan[t] \in Slots /\ reg[t] \in Positions
    BY <1>5, Zenon DEF RegisterCas, At, Roles, Role
  <2>1. CASE consumer_cursors[scan[t]] # Vacant
    <3>1. /\ UNCHANGED <<consumer_cursors, max_read_cursor>> /\ pc'[t] = "register"
      BY <1>5, <2>1, Zenon DEF RegisterCas, Goto, Types
    <3> QED
      BY <1>0, <1>a, <3>1, OwnedStay DEF Registered
  <2>2. CASE consumer_cursors[scan[t]] = Vacant
    <3>1. /\ consumer_cursors' = [consumer_cursors EXCEPT ![scan[t]] = reg[t]]
          /\ pc'[t] = "wait" /\ slot'[t] = scan[t] /\ next'[t] = reg[t] + 1 /\ UNCHANGED max_read_cursor
      BY <1>5, <2>2, Zenon DEF RegisterCas, Goto, Types
    <3>2. reg[t] \in Nat /\ next'[t] - 1 = reg[t]
      <4>1. reg[t] \in Nat
        BY <2>0, Numbers, Zenon
      <4>2. (reg[t] + 1) - 1 = reg[t]
        BY <4>1
      <4> QED
        BY <3>1, <4>1, <4>2, Zenon
    <3>3. consumer_cursors'[slot'[t]] = reg[t]
      BY <2>0, <3>1, Zenon DEF Types
    <3>4. ASSUME NEW d \in Consumers, d # t, Registered(d)'
          PROVE  /\ Registered(d) /\ next'[d] = next[d] /\ slot'[d] = slot[d]
                 /\ pc'[d] = pc[d] /\ seq'[d] = seq[d] /\ slot[d] # scan[t]
                 /\ consumer_cursors'[slot[d]] = consumer_cursors[slot[d]]
      <4>1. /\ Registered(d) /\ next'[d] = next[d] /\ slot'[d] = slot[d]
            /\ pc'[d] = pc[d] /\ seq'[d] = seq[d]
        BY <1>0, <1>a, <3>4, Zenon DEF Alone, Registered
      <4>2. consumer_cursors[slot[d]] # Vacant
        BY <4>1, Numbers, Zenon DEF Owned
      <4> QED
        BY <1>0, <2>2, <3>1, <4>1, <4>2, Zenon DEF Types
    <3>5. ASSUME NEW c \in Consumers, Registered(c)'
          PROVE  /\ next'[c] - 1 \in Positions /\ consumer_cursors'[slot'[c]] = next'[c] - 1
                 /\ \A d \in Consumers \ {c} : Registered(d)' => slot'[d] # slot'[c]
                 /\ pc'[c] \in {"process", "drain_process"} => seq'[c] \in next'[c]..max_read_cursor'
      <4>1. CASE c = t
        BY <2>0, <3>1, <3>2, <3>3, <3>4, <4>1, Zenon
      <4>2. CASE c # t
        BY <3>1, <3>4, <3>5, <4>2 DEF Owned
      <4> QED
        BY <4>1, <4>2, Zenon
    <3> QED
      BY <3>5, Zenon DEF Owned
  <2> QED
    BY <2>1, <2>2, Zenon
<1>6. CASE t \in Consumers /\ ReleaseEntry(t)
  <2>0. /\ pc[t] \in Processing /\ Registered(t) /\ slot[t] \in Slots
        /\ seq[t] \in Handed /\ seq[t] \in Nat /\ seq[t] \in Positions
    <3>1. seq[t] \in Handed
      BY Zenon DEF Types
    <3> QED
      BY <1>0, <1>6, <3>1, Numbers, Zenon DEF ReleaseEntry, Processing, Registered
  <2>1. /\ consumer_cursors' = [consumer_cursors EXCEPT ![slot[t]] = seq[t]]
        /\ pc'[t] \in {"wait", "leaving"} /\ slot'[t] = slot[t] /\ next'[t] = seq[t] + 1 /\ UNCHANGED max_read_cursor
    BY <1>6, Zenon DEF ReleaseEntry, Goto, Types
  <2>a. next'[t] - 1 = seq[t]
    BY <2>0, <2>1
  <2>b. consumer_cursors'[slot'[t]] = seq[t]
    BY <2>0, <2>1, Zenon DEF Types
  <2>2. next'[t] - 1 = seq[t] /\ consumer_cursors'[slot'[t]] = seq[t]
    BY <2>a, <2>b, Zenon
  <2>3. ASSUME NEW d \in Consumers, d # t, Registered(d)'
        PROVE  /\ Registered(d) /\ next'[d] = next[d] /\ slot'[d] = slot[d]
               /\ pc'[d] = pc[d] /\ seq'[d] = seq[d] /\ slot[d] # slot[t]
               /\ consumer_cursors'[slot[d]] = consumer_cursors[slot[d]]
    <3>1. /\ Registered(d) /\ next'[d] = next[d] /\ slot'[d] = slot[d]
          /\ pc'[d] = pc[d] /\ seq'[d] = seq[d]
      BY <1>0, <1>a, <2>3, Zenon DEF Alone, Registered
    <3>2. slot[d] # slot[t]
      BY <1>6, <2>0, <2>3, <3>1, Zenon DEF Owned
    <3> QED
      BY <1>0, <2>1, <3>1, <3>2, Zenon DEF Types
  <2>4. ASSUME NEW c \in Consumers, Registered(c)'
        PROVE  /\ next'[c] - 1 \in Positions /\ consumer_cursors'[slot'[c]] = next'[c] - 1
               /\ \A d \in Consumers \ {c} : Registered(d)' => slot'[d] # slot'[c]
               /\ pc'[c] \in {"process", "drain_process"} => seq'[c] \in next'[c]..max_read_cursor'
    <3>1. CASE c = t
      BY <2>0, <2>1, <2>2, <2>3, <3>1, Zenon
    <3>2. CASE c # t
      BY <2>1, <2>3, <2>4, <3>2 DEF Owned
    <3> QED
      BY <3>1, <3>2, Zenon
  <2> QED
    BY <2>4, Zenon DEF Owned
<1>7. CASE t \in Consumers /\ Unregister(t)
  <2>0. Registered(t) /\ slot[t] \in Slots
    BY <1>0, <1>7, Zenon DEF Unregister, At, Registered
  <2>1. /\ consumer_cursors' = [consumer_cursors EXCEPT ![slot[t]] = Vacant]
        /\ pc'[t] = "vacated" /\ UNCHANGED max_read_cursor
    BY <1>7, Zenon DEF Unregister, Goto, Types
  <2>2. ASSUME NEW d \in Consumers, Registered(d)'
        PROVE  /\ Registered(d) /\ next'[d] = next[d] /\ slot'[d] = slot[d]
               /\ pc'[d] = pc[d] /\ seq'[d] = seq[d]
               /\ consumer_cursors'[slot[d]] = consumer_cursors[slot[d]]
    <3>0. d # t
      BY <2>1, <2>2, Zenon DEF Registered
    <3>1. /\ Registered(d) /\ next'[d] = next[d] /\ slot'[d] = slot[d]
          /\ pc'[d] = pc[d] /\ seq'[d] = seq[d]
      BY <1>0, <1>a, <2>2, <3>0, Zenon DEF Alone, Registered
    <3>2. slot[d] # slot[t]
      BY <1>7, <2>0, <3>0, <3>1, Zenon DEF Owned
    <3> QED
      BY <1>0, <2>1, <3>1, <3>2, Zenon DEF Types
  <2>3. ASSUME NEW c \in Consumers, Registered(c)'
        PROVE  /\ next'[c] - 1 \in Positions /\ consumer_cursors'[slot'[c]] = next'[c] - 1
               /\ \A d \in Consumers \ {c} : Registered(d)' => slot'[d] # slot'[c]
               /\ pc'[c] \in {"process", "drain_process"} => seq'[c] \in next'[c]..max_read_cursor'
    BY <2>1, <2>2, <2>3 DEF Owned
  <2> QED
    BY <2>3, Zenon DEF Owned
<1> QED
  BY <1>1, <1>2, <1>3, <1>4, <1>5, <1>6, <1>7, Zenon DEF Step, Calls, ConsumerStep, Threads

-----------------------------------------------------------------------------
(* Fourth to sixth layer.                                                  *)

(* An early consumer never registers again, keeps its slot, and its next   *)
(* sequence number only grows.                                             *)
LEMMA EarlyStays ==
  ASSUME Types, Roles, Owned, NEW t \in Threads, Step(t) \/ Calls(t), NEW c \in Early, Registered(c)'
  PROVE  /\ Registered(c) /\ slot'[c] = slot[c] /\ next'[c] \in Nat /\ next'[c] >= next[c]
         /\ next[c] \in Nat
<1>0. c \in Consumers /\ c \in Threads /\ c \notin Publishers /\ next[c] \in Nat /\ Alone(t)
      /\ pc[c] \notin {"idle", "register", "register_cas"}
  BY StepAlone, Constants, Zenon DEF Types, Roles, Role
<1>1. CASE c # t
  BY <1>0, <1>1 DEF Alone, Registered
<1>2. CASE c = t /\ ReleaseEntry(t)
  <2>1. Registered(c) /\ seq[c] \in next[c]..max_read_cursor
    BY <1>0, <1>2, Zenon DEF ReleaseEntry, Registered, Owned
  <2>2. max_read_cursor \in Nat
    BY Numbers, Zenon DEF Types
  <2>3. slot'[c] = slot[c] /\ next'[c] = seq[c] + 1
    BY <1>0, <1>2, Zenon DEF ReleaseEntry, Types
  <2> QED
    BY <1>0, <2>1, <2>2, <2>3
<1>3. CASE c = t /\ (WaitFor(t) \/ StopRunning(t) \/ DrainNothing(t))
  BY <1>0, <1>3 DEF WaitFor, StopRunning, DrainNothing, At, Registered
<1>4. CASE c = t /\ ~(ReleaseEntry(t) \/ WaitFor(t) \/ StopRunning(t) \/ DrainNothing(t))
  <2>1. pc'[c] \in {"vacated", "scan", "raise", "refreshed", "gone"}
    BY <1>0, <1>4, Zenon DEF Step, Calls, ConsumerStep, ScanSlot, LoadCached, RaiseSlowest, LoadStart, RegisterCas,
         Unregister, Vacated, Unregistered, StartRefresh, At, Goto, Types
  <2> QED
    BY <2>1, Zenon DEF Registered
<1> QED
  BY <1>1, <1>2, <1>3, <1>4, Zenon

(* Every step keeps the slowest consumer, and every minimum a scan has     *)
(* found so far, behind the early consumers.                               *)
LEMMA BehindNext ==
  ASSUME Types, Roles, Owned, Gating, NEW t \in Threads, Step(t) \/ Calls(t),
         NEW c \in Early, Registered(c)'
  PROVE  Behind(c)'
<1>0. /\ Registered(c) /\ slot'[c] = slot[c] /\ next'[c] \in Nat /\ next'[c] >= next[c] /\ next[c] \in Nat
      /\ Behind(c) /\ Alone(t) /\ c \in Consumers
  BY EarlyStays, StepAlone, Constants, Zenon DEF Gating
<1>1. /\ slot[c] \in Nat /\ slot[c] < SlotCount /\ SlotCount \in Nat
      /\ next[c] - 1 \in Positions /\ consumer_cursors[slot[c]] = next[c] - 1
  BY <1>0, Constants DEF Types, Owned, Slots
<1>2. /\ slowest_consumer \in Nat /\ slowest_consumer < next[c]
      /\ \A u \in Threads : reg[u] \in Nat /\ scan[u] \in Nat /\ scan[u] <= SlotCount
  <2>1. slowest_consumer \in Positions /\ reg \in [Threads -> Readings] /\ scan \in [Threads -> 0..SlotCount]
    BY Zenon DEF Types
  <2>2. \A u \in Threads : scan[u] \in Nat /\ scan[u] <= SlotCount
    BY <2>1, Constants
  <2> QED
    BY <1>0, <2>1, <2>2, Numbers, Zenon DEF Behind
<1>3. slowest_consumer' < next'[c]
  <2>1. CASE RaiseSlowest(t)
    BY <1>0, <1>2, <2>1, Zenon DEF RaiseSlowest, At, Behind
  <2>2. CASE ~RaiseSlowest(t)
    <3>1. UNCHANGED slowest_consumer
      BY <2>2, Zenon DEF Step, Calls, PublisherStep, ConsumerStep, ScanSlot, LoadCached, TryClaim, ClaimBlocking,
             CheckCapacity, Refreshed, ClaimCas, Write, Commit, LoadStart, RegisterCas, WaitFor,
             ReleaseEntry, StopRunning, DrainNothing, Unregister, Vacated, Unregistered, shared
    <3> QED
      BY <1>0, <1>2, <3>1
  <2> QED
    BY <2>1, <2>2, Zenon
<1>4. ASSUME NEW u \in Threads, u # t
      PROVE  /\ pc'[u] = "scan" /\ slot'[c] < scan'[u] => reg'[u] < next'[c]
             /\ pc'[u] \in {"raise", "refreshed"} => reg'[u] < next'[c]
  <2>1. pc'[u] = pc[u] /\ scan'[u] = scan[u] /\ reg'[u] = reg[u] /\ reg[u] \in Nat
    BY <1>0, <1>2, <1>4, Zenon DEF Alone
  <2>2. /\ pc[u] = "scan" /\ slot[c] < scan[u] => reg[u] < next[c]
        /\ pc[u] \in {"raise", "refreshed"} => reg[u] < next[c]
    BY <1>0, Zenon DEF Behind
  <2> QED
    BY <1>0, <2>1, <2>2
<1>5. /\ pc'[t] = "scan" /\ slot'[c] < scan'[t] => reg'[t] < next'[c]
      /\ pc'[t] \in {"raise", "refreshed"} => reg'[t] < next'[c]
  <2>0. /\ pc[t] = "scan" /\ slot[c] < scan[t] => reg[t] < next[c]
        /\ pc[t] \in {"raise", "refreshed"} => reg[t] < next[c]
    BY <1>0, Zenon DEF Behind
  <2>1. CASE ScanSlot(t)
    <3>1. /\ pc[t] = "scan" /\ pc'[t] = "scan" /\ scan'[t] = scan[t] + 1 /\ scan[t] \in Nat
      BY <1>2, <2>1, Zenon DEF ScanSlot, At, Types
    <3>2. /\ reg'[t] \in {reg[t], consumer_cursors[scan[t]]} /\ reg'[t] <= reg[t]
          /\ reg'[t] <= consumer_cursors[scan[t]] /\ scan[t] \in Slots
      BY <2>1, ScanReads, Zenon
    <3>3. reg[t] \in Nat /\ consumer_cursors[scan[t]] \in Nat
      BY <1>2, <3>2, Numbers, Zenon DEF Types
    <3>4. reg'[t] \in Nat
      BY <3>2, <3>3, Zenon
    <3>5. slot'[c] < scan'[t] => slot[c] < scan[t] \/ slot[c] = scan[t]
      BY <1>0, <1>1, <3>1
    <3>6. CASE slot[c] < scan[t]
      BY <1>0, <2>0, <3>1, <3>2, <3>3, <3>4, <3>6
    <3>7. CASE slot[c] = scan[t]
      BY <1>0, <1>1, <3>1, <3>2, <3>3, <3>4, <3>7
    <3> QED
      BY <3>1, <3>5, <3>6, <3>7, Zenon
  <2>2. CASE LoadCached(t)
    <3>1. pc[t] = "scan" /\ scan[t] = SlotCount /\ pc'[t] \in {"raise", "refreshed"}
      BY <2>2, Zenon DEF LoadCached, At, Goto, Types
    <3>2. reg[t] < next[c]
      BY <1>1, <2>0, <3>1, Zenon
    <3>3. reg[t] # Vacant
      BY <1>0, <1>1, <1>2, <3>2, Numbers
    <3>4. reg'[t] = reg[t]
      BY <2>2, <3>3, RefreshEnds, Zenon
    <3> QED
      BY <1>0, <1>2, <3>1, <3>2, <3>4
  <2>3. CASE RaiseSlowest(t)
    <3>1. pc[t] = "raise" /\ pc'[t] = "refreshed" /\ reg'[t] = reg[t]
      BY <2>3, Zenon DEF RaiseSlowest, At, Goto, Types
    <3> QED
      BY <1>0, <1>2, <2>0, <3>1
  <2>4. CASE CheckCapacity(t) \/ Vacated(t)
    <3>1. pc'[t] \in {"write", "cas"} \/ (pc'[t] = "scan" /\ scan'[t] = 0)
      BY <2>4, Zenon DEF CheckCapacity, Vacated, Granted, StartRefresh, Goto, Types
    <3> QED
      BY <1>0, <1>1, <3>1
  <2>5. CASE ~(ScanSlot(t) \/ LoadCached(t) \/ RaiseSlowest(t) \/ CheckCapacity(t) \/ Vacated(t))
    <3>1. CASE TryClaim(t) \/ ClaimBlocking(t) \/ ClaimCas(t) \/ Write(t) \/ Commit(t)
      BY <3>1, Zenon DEF TryClaim, ClaimBlocking, ClaimCas, Write, Commit, Goto, Types
    <3>2. CASE Refreshed(t)
      BY <3>2, Zenon DEF Refreshed, Granted, Goto, Types
    <3>3. CASE LoadStart(t) \/ RegisterCas(t) \/ WaitFor(t) \/ ReleaseEntry(t)
      BY <3>3 DEF LoadStart, RegisterCas, WaitFor, ReleaseEntry, Goto, Types
    <3>4. CASE StopRunning(t) \/ DrainNothing(t) \/ Unregister(t) \/ Unregistered(t)
      BY <3>4, Zenon DEF StopRunning, DrainNothing, Unregister, Unregistered, Goto, Types
    <3> QED
      BY <2>5, <3>1, <3>2, <3>3, <3>4, Zenon DEF Step, Calls, PublisherStep, ConsumerStep
  <2> QED
    BY <2>1, <2>2, <2>3, <2>4, <2>5, Zenon
<1> QED
  BY <1>3, <1>4, <1>5, Zenon DEF Behind

(* A step that is no write, grants nothing and makes nothing visible.      *)
LEMMA IntactStay ==
  ASSUME Types, NEW c \in Early, Intact(c), NEW t \in Threads, Alone(t), UNCHANGED <<buffer, max_read_cursor>>,
         next[c] \in Nat, next'[c] \in Nat, next'[c] >= next[c], next'[c] <= max_read_cursor + 1,
         t \in Publishers => /\ pc'[t] \in {"cas", "write", "commit"} => seq'[t] < next[c] + Capacity
                             /\ seq'[t] \in Nat /\ pc'[t] # "commit"
  PROVE  Intact(c)'
<1>0. max_read_cursor \in Nat /\ Capacity \in Nat
  BY Numbers, Constants, Zenon DEF Types
<1>1. ASSUME NEW p \in Publishers
      PROVE  /\ pc'[p] \in {"cas", "write", "commit"} => seq'[p] < next'[c] + Capacity
             /\ pc'[p] = "commit" => buffer'[RingIndex(seq'[p])] = seq'[p]
  <2>1. CASE p = t
    BY <1>0, <2>1
  <2>2. CASE p # t
    <3>1. pc'[p] = pc[p] /\ seq'[p] = seq[p] /\ seq[p] \in Nat
      BY <2>2, Constants, Numbers, Zenon DEF Alone, Types
    <3> QED
      BY <1>0, <3>1 DEF Intact
  <2> QED
    BY <2>1, <2>2, Zenon
<1>2. \A s \in next'[c]..max_read_cursor : buffer'[RingIndex(s)] = s
  BY <1>0 DEF Intact
<1> QED
  BY <1>1, <1>2, Zenon DEF Intact

(* Every step keeps the entries an early consumer has not read.            *)
LEMMA IntactNext ==
  ASSUME Types, Roles, Claims, Owned, Gating, NEW t \in Threads, Step(t) \/ Calls(t),
         NEW c \in Early, Registered(c)'
  PROVE  Intact(c)'
<1>0. /\ Registered(c) /\ slot'[c] = slot[c] /\ next'[c] \in Nat /\ next'[c] >= next[c] /\ next[c] \in Nat
      /\ Behind(c) /\ Intact(c) /\ Alone(t) /\ c \in Consumers /\ c \notin Publishers
      /\ t \notin Publishers \/ t \notin Consumers
  BY EarlyStays, StepAlone, Constants, Zenon DEF Gating
<1>1. /\ max_read_cursor \in Nat /\ slowest_consumer \in Nat /\ seq[t] \in Nat /\ reg[t] \in Nat
      /\ Capacity \in Nat \ {0} /\ next[c] <= max_read_cursor + 1
      /\ \A p \in Publishers : p \in Threads /\ seq[p] \in Nat
  BY <1>0, Numbers, Constants, Zenon DEF Types, Intact
<1>a. t \in Publishers => next'[c] = next[c]
  BY <1>0, Zenon DEF Alone
<1>2. CASE t \in Publishers /\ (ScanSlot(t) \/ LoadCached(t) \/ RaiseSlowest(t) \/ TryClaim(t) \/ ClaimBlocking(t))
  <2>1. /\ pc'[t] \in {"scan", "raise", "refreshed", "capacity"} /\ UNCHANGED <<buffer, max_read_cursor>>
    BY <1>2, Zenon DEF ScanSlot, LoadCached, RaiseSlowest, TryClaim, ClaimBlocking, At, Goto, shared, Types
  <2>2. seq'[t] \in Nat
    <3>1. CASE TryClaim(t) \/ ClaimBlocking(t)
      <4>1. seq'[t] = write_cursor + 1 /\ write_cursor \in Nat
        BY <3>1, Numbers, Zenon DEF TryClaim, ClaimBlocking, Types
      <4> QED
        BY <4>1
    <3>2. CASE ~(TryClaim(t) \/ ClaimBlocking(t))
      BY <1>1, <1>2, <3>2, Zenon DEF ScanSlot, LoadCached, RaiseSlowest
    <3> QED
      BY <3>1, <3>2, Zenon
  <2> QED
    BY <1>0, <1>1, <1>a, <1>2, <2>1, <2>2, IntactStay, Zenon
<1>3. CASE t \in Publishers /\ CheckCapacity(t)
  <2>1. /\ seq'[t] = seq[t] /\ UNCHANGED <<buffer, max_read_cursor>>
        /\ \/ pc'[t] = "scan"
           \/ pc'[t] \in {"write", "cas"} /\ HasCapacity(seq[t], slowest_consumer)
    BY <1>3, Zenon DEF CheckCapacity, StartRefresh, Granted, Goto, shared, Types
  <2>2. HasCapacity(seq[t], slowest_consumer) => seq[t] < next[c] + Capacity
    BY <1>0, <1>1 DEF HasCapacity, Behind
  <2> QED
    BY <1>0, <1>1, <1>a, <1>3, <2>1, <2>2, IntactStay, Zenon
<1>4. CASE t \in Publishers /\ Refreshed(t)
  <2>1. /\ UNCHANGED <<buffer, max_read_cursor>> /\ pc[t] = "refreshed"
        /\ \/ pc'[t] \in {"capacity", "idle"} /\ seq'[t] \in Nat
           \/ pc'[t] \in {"write", "cas"} /\ HasCapacity(seq[t], reg[t]) /\ seq'[t] = seq[t]
    BY <1>1, <1>4 DEF Refreshed, Granted, At, Goto, shared, Types
  <2>2. HasCapacity(seq[t], reg[t]) => seq[t] < next[c] + Capacity
    BY <1>0, <1>1, <2>1 DEF HasCapacity, Behind
  <2> QED
    BY <1>0, <1>1, <1>a, <1>4, <2>1, <2>2, IntactStay, Zenon
<1>5. CASE t \in Publishers /\ ClaimCas(t)
  <2>1. /\ UNCHANGED <<buffer, max_read_cursor>> /\ pc[t] = "cas"
        /\ \/ pc'[t] = "idle" /\ seq'[t] \in Nat
           \/ pc'[t] = "write" /\ seq'[t] = seq[t]
    BY <1>5 DEF ClaimCas, At, Goto, Types
  <2>2. seq[t] < next[c] + Capacity
    BY <1>0, <1>5, <2>1, Zenon DEF Intact
  <2> QED
    BY <1>0, <1>1, <1>a, <1>5, <2>1, <2>2, IntactStay, Zenon
<1>6. CASE t \in Publishers /\ Write(t)
  <2>1. /\ pc[t] = "write" /\ pc'[t] = "commit" /\ UNCHANGED <<seq, max_read_cursor>>
        /\ buffer' = [buffer EXCEPT ![RingIndex(seq[t])] = seq[t]]
    BY <1>6, Zenon DEF Write, At, Goto, Types
  <2>2. /\ seq[t] < next[c] + Capacity /\ seq[t] > max_read_cursor /\ Owns(t)
    BY <1>0, <1>1, <1>6, <2>1 DEF Intact, Claims, Owns
  <2>3. \A s \in Nat : RingIndex(s) \in 0..(Capacity - 1)
    BY RingIndexType, Zenon
  <2>4. ASSUME NEW s \in Nat, s # seq[t], s >= next[c], s < next[c] + Capacity
        PROVE  buffer'[RingIndex(s)] = buffer[RingIndex(s)]
    <3>1. RingIndex(s) # RingIndex(seq[t])
      <4>1. CASE s < seq[t]
        BY <1>0, <1>1, <2>2, <2>4, <4>1, EntriesApart
      <4>2. CASE seq[t] < s
        BY <1>0, <1>1, <2>2, <2>4, <4>2, EntriesApart
      <4>3. s < seq[t] \/ seq[t] < s
        <5>1. seq[t] \in Nat
          BY <1>1, Zenon
        <5> QED
          BY <2>4, <5>1
      <4> QED
        BY <4>1, <4>2, <4>3, Zenon
    <3> QED
      BY <1>1, <2>1, <2>3, <3>1, Zenon DEF Types
  <2>5. ASSUME NEW p \in Publishers
        PROVE  /\ pc'[p] \in {"cas", "write", "commit"} => seq'[p] < next'[c] + Capacity
               /\ pc'[p] = "commit" => buffer'[RingIndex(seq'[p])] = seq'[p]
    <3>1. CASE p = t
      <4>1. buffer'[RingIndex(seq[t])] = seq[t]
        BY <1>1, <2>1, <2>3, Zenon DEF Types
      <4> QED
        BY <1>6, <1>a, <2>1, <2>2, <3>1, <4>1, Zenon
    <3>2. CASE p # t
      <4>1. pc'[p] = pc[p] /\ seq'[p] = seq[p]
        BY <1>0, <1>1, <3>2, Zenon DEF Alone
      <4>2. pc[p] \in {"cas", "write", "commit"} => seq[p] < next[c] + Capacity
        BY <1>0, Zenon DEF Intact
      <4>3. ASSUME pc[p] = "commit"
            PROVE  buffer'[RingIndex(seq[p])] = seq[p]
        <5>1. Owns(p) /\ buffer[RingIndex(seq[p])] = seq[p]
          BY <1>0, <4>3, Zenon DEF Owns, Intact
        <5>2. seq[p] # seq[t] /\ seq[p] > max_read_cursor
          BY <1>1, <1>6, <2>2, <3>2, <5>1 DEF Claims
        <5> QED
          BY <1>0, <1>1, <2>4, <4>2, <4>3, <5>1, <5>2
      <4> QED
        BY <1>6, <1>a, <4>1, <4>2, <4>3, Zenon
    <3> QED
      BY <3>1, <3>2, Zenon
  <2>6. ASSUME NEW s \in next[c]..max_read_cursor
        PROVE  buffer'[RingIndex(s)] = s
    BY <1>0, <1>1, <2>2, <2>4 DEF Intact
  <2> QED
    BY <1>1, <1>6, <1>a, <2>1, <2>5, <2>6, Zenon DEF Intact
<1>7. CASE t \in Publishers /\ Commit(t)
  <2>1. /\ pc[t] = "commit" /\ pc'[t] = "idle" /\ max_read_cursor = seq[t] - 1 /\ max_read_cursor' = seq[t]
        /\ UNCHANGED buffer
    BY <1>7, Zenon DEF Commit, At, Goto, Types
  <2>2. buffer[RingIndex(seq[t])] = seq[t]
    BY <1>0, <1>7, <2>1, Zenon DEF Intact
  <2>3. ASSUME NEW p \in Publishers
        PROVE  /\ pc'[p] \in {"cas", "write", "commit"} => seq'[p] < next'[c] + Capacity
               /\ pc'[p] = "commit" => buffer'[RingIndex(seq'[p])] = seq'[p]
    <3>1. CASE p = t
      BY <2>1, <3>1, Zenon
    <3>2. CASE p # t
      <4>1. pc'[p] = pc[p] /\ seq'[p] = seq[p]
        BY <1>0, <1>1, <3>2, Zenon DEF Alone
      <4> QED
        BY <1>0, <1>7, <1>a, <2>1, <4>1, Zenon DEF Intact
    <3> QED
      BY <3>1, <3>2, Zenon
  <2>4. ASSUME NEW s \in next[c]..seq[t]
        PROVE  buffer[RingIndex(s)] = s
    <3>1. s \in next[c]..max_read_cursor \/ s = seq[t]
      BY <1>0, <1>1, <2>1
    <3> QED
      BY <1>0, <2>2, <3>1, Zenon DEF Intact
  <2>5. next[c] <= seq[t] + 1
    BY <1>0, <1>1, <2>1
  <2> QED
    BY <1>7, <1>a, <2>1, <2>3, <2>4, <2>5, Zenon DEF Intact
<1>8. CASE t \in Consumers
  <2>1. UNCHANGED <<buffer, max_read_cursor>>
    BY <1>0, <1>8, Zenon DEF Step, Calls, ConsumerStep, ScanSlot, LoadCached, RaiseSlowest, LoadStart, RegisterCas, WaitFor,
         ReleaseEntry, StopRunning, DrainNothing, Unregister, Vacated, Unregistered, shared
  <2>2. next'[c] <= max_read_cursor + 1
    <3>1. CASE c = t /\ ReleaseEntry(t)
      <4>1. seq[c] \in next[c]..max_read_cursor /\ next'[c] = seq[c] + 1
        BY <1>0, <3>1, Zenon DEF ReleaseEntry, Owned, Types
      <4> QED
        BY <1>0, <1>1, <4>1
    <3>2. CASE c = t /\ ~ReleaseEntry(t)
      <4>1. next'[c] = next[c]
        BY <1>0, <3>2, Zenon DEF Step, Calls, ConsumerStep, ScanSlot, LoadCached, RaiseSlowest, LoadStart, RegisterCas, WaitFor,
             StopRunning, DrainNothing, Unregister, Vacated, Unregistered, At, Goto, Registered, Types
      <4> QED
        BY <1>1, <4>1, Zenon
    <3>3. CASE c # t
      BY <1>0, <1>1, <3>3, Zenon DEF Alone
    <3> QED
      BY <3>1, <3>2, <3>3, Zenon
  <2> QED
    BY <1>0, <1>8, <2>1, <2>2, IntactStay, Zenon
<1> QED
  BY <1>2, <1>3, <1>4, <1>5, <1>6, <1>7, <1>8, Zenon DEF Step, Calls, PublisherStep, Threads

(* Every step keeps a consumer behind those it depends on.                 *)
LEMMA FollowingNext ==
  ASSUME Types, Roles, Owned, Following, NEW t \in Threads, Step(t) \/ Calls(t)
  PROVE  Following'
<1> SUFFICES ASSUME NEW c \in Early, Registered(c)', NEW d \in Upstream[c], Registered(d)'
             PROVE  /\ next'[c] <= next'[d]
                    /\ pc'[c] \in {"process", "drain_process"} => seq'[c] < next'[d]
  BY Zenon DEF Following
<1>0. c \in Consumers /\ d \in Consumers /\ d \in Early /\ c \in Threads /\ c \notin Publishers /\ Alone(t)
      /\ pc[c] \notin {"idle", "register", "register_cas"}
  BY StepAlone, ConsumersAssumption, Constants, Zenon DEF Roles, Role
<1>1. /\ Registered(c) /\ next[c] \in Nat /\ next'[c] \in Nat
      /\ Registered(d) /\ next[d] \in Nat /\ next'[d] \in Nat /\ next'[d] >= next[d]
      /\ consumer_cursors[slot[d]] = next[d] - 1
  BY <1>0, EarlyStays, Zenon DEF Owned
<1>2. /\ next[c] <= next[d]
      /\ pc[c] \in {"process", "drain_process"} => seq[c] < next[d]
  BY <1>1, Zenon DEF Following
<1>3. seq[c] \in Nat
  BY <1>0, Numbers, Zenon DEF Types
<1>4. CASE c # t
  <2>1. next'[c] = next[c] /\ pc'[c] = pc[c] /\ seq'[c] = seq[c]
    BY <1>0, <1>4, Zenon DEF Alone
  <2> QED
    BY <1>1, <1>2, <1>3, <2>1
<1>5. CASE c = t /\ WaitFor(t)
  <2>1. PICK end \in Handed : /\ seq' = [seq EXCEPT ![c] = end]
                              /\ \A e \in Upstream[c] : end <= consumer_cursors[slot[e]]
    BY <1>0, <1>5, BatchBounds, Zenon
  <2>2. seq'[c] = end /\ end \in Nat /\ end <= next[d] - 1 /\ next'[c] = next[c]
    BY <1>0, <1>1, <1>5, <2>1, Numbers, Zenon DEF Types, WaitFor
  <2> QED
    BY <1>1, <1>2, <2>2
<1>6. CASE c = t /\ ReleaseEntry(t)
  <2>1. /\ pc[c] \in {"process", "drain_process"} /\ pc'[c] \in {"wait", "leaving"} /\ next'[c] = seq[c] + 1
    BY <1>0, <1>6, Zenon DEF ReleaseEntry, Goto, Types
  <2> QED
    BY <1>1, <1>2, <1>3, <2>1
<1>7. CASE c = t /\ (StopRunning(t) \/ DrainNothing(t))
  <2>1. pc'[c] \in {"drain", "leaving"} /\ next'[c] = next[c]
    BY <1>0, <1>7, Zenon DEF StopRunning, DrainNothing, Goto, Types
  <2> QED
    BY <1>1, <1>2, <2>1
<1>8. CASE c = t /\ ~(ReleaseEntry(t) \/ WaitFor(t) \/ StopRunning(t) \/ DrainNothing(t))
  <2>1. pc'[c] \in {"vacated", "scan", "raise", "refreshed", "gone"}
    BY <1>0, <1>8, Zenon DEF Step, Calls, ConsumerStep, ScanSlot, LoadCached, RaiseSlowest, LoadStart, RegisterCas,
         Unregister, Vacated, Unregistered, StartRefresh, At, Goto, Types
  <2> QED
    BY <2>1, Zenon DEF Registered
<1> QED
  BY <1>4, <1>5, <1>6, <1>7, <1>8, Zenon

(* No consumer expects a number past the bound.                            *)
LEMMA BoundedNext ==
  ASSUME Types, Roles, Bounded, NEW t \in Threads, Step(t) \/ Calls(t)
  PROVE  Bounded'
<1>0. Alone(t) /\ (t \in Publishers => t \notin Consumers)
  BY StepAlone, Constants, Zenon
<1>1. ASSUME t \in Consumers PROVE next'[t] <= Vacant
  <2>1. CASE RegisterCas(t)
    <3>1. next'[t] = next[t] \/ (next'[t] = reg[t] + 1 /\ reg[t] \in Positions)
      BY <1>1, <2>1, Zenon DEF RegisterCas, At, Roles, Role, Types
    <3> QED
      BY <1>1, <3>1, Constants DEF Bounded, Positions, Vacant
  <2>2. CASE ReleaseEntry(t)
    <3>1. next'[t] = seq[t] + 1 /\ seq[t] \in Handed
      BY <1>1, <2>2, Zenon DEF ReleaseEntry, Types
    <3> QED
      BY <3>1, Constants DEF Handed, Vacant
  <2>3. CASE Unregister(t)
    <3>1. next'[t] = 0
      BY <1>1, <2>3, Zenon DEF Unregister, Types
    <3> QED
      BY <3>1, Numbers
  <2>4. CASE ~(RegisterCas(t) \/ ReleaseEntry(t) \/ Unregister(t))
    <3>1. UNCHANGED next
      BY <1>0, <1>1, <2>4, Zenon DEF Step, Calls, ConsumerStep, ScanSlot, LoadCached, RaiseSlowest, LoadStart, WaitFor,
           StopRunning, DrainNothing, Vacated, Unregistered
    <3> QED
      BY <1>1, <3>1, Zenon DEF Bounded
  <2> QED
    BY <2>1, <2>2, <2>3, <2>4, Zenon
<1> QED
  BY <1>0, <1>1, Zenon DEF Bounded, Alone

-----------------------------------------------------------------------------
(* The invariant.                                                          *)

(* Registering before the start gives every early consumer its own slot:   *)
(* the first slots are as many as the consumers.                           *)
LEMMA EarlySlots ==
  ASSUME Init, NEW c \in Early, NEW d \in Early, c # d
  PROVE  slot[c] # slot[d]
<1> DEFINE n == Cardinality(Early)
           f == [e \in Early |-> slot[e]]
<1>1. IsFiniteSet(Early) /\ n \in Nat
  BY ConsumersAssumption, FS_CardinalityType, Zenon
<1>2. {slot[e] : e \in Early} = 0..(n - 1)
  BY Zenon DEF Init
<1>3. f \in Surjection(Early, 0..(n - 1))
  BY <1>2, Zenon DEF Surjection
<1>4. Cardinality(0..(n - 1)) = n
  <2>1. Cardinality(0..(n - 1)) = IF 0 > n - 1 THEN 0 ELSE (n - 1) - 0 + 1
    BY <1>1, FS_Interval
  <2> QED
    BY <1>1, <2>1
<1>5. f \in Injection(Early, 0..(n - 1))
  BY <1>1, <1>3, <1>4, FS_SurjSameCardinalityImpliesInj, Zenon
<1> QED
  BY <1>5, Zenon DEF Injection, IsInjective

(* The invariant holds at the start.                                       *)
LEMMA InitBroadcast == Init => BroadcastInv
<1> SUFFICES ASSUME Init PROVE BroadcastInv
  BY Zenon
<1>0. /\ slot \in [Consumers -> Slots] /\ Early \subseteq Consumers /\ Publishers \cap Consumers = {}
      /\ Consumers \subseteq Threads /\ Publishers \subseteq Threads
  BY Constants, Zenon DEF Init
<1>1. /\ \A t \in Threads : pc[t] = (IF t \in Early THEN "wait" ELSE "idle")
      /\ \A t \in Threads : scan[t] = 0 /\ ~waits[t]
      /\ \A c \in Consumers : next[c] = (IF c \in Early THEN 1 ELSE 0)
  BY <1>0, Zenon DEF Init
<1>2. Types
  <2>1. 0 \in Handed /\ 0 \in Positions /\ 0 \in Readings /\ Vacant \in Readings /\ 0 \in 0..SlotCount
    BY Numbers, Constants DEF Readings
  <2>2. "wait" \in ConsumerLabels /\ "idle" \in ConsumerLabels
    BY Zenon DEF ConsumerLabels
  <2> QED
    BY <1>0, <2>1, <2>2, Zenon DEF Init, Types
<1>3. Bounded
  BY <1>1, Constants DEF Bounded, Vacant
<1>4. Roles
  <2>1. \A c \in Consumers : 0 \in Slots
    BY <1>0, Constants DEF Slots
  <2>2. "wait" \in ConsumerLabels /\ "idle" \in ConsumerLabels /\ "idle" \in PublisherLabels
    BY Zenon DEF ConsumerLabels, PublisherLabels
  <2> QED
    BY <1>0, <1>1, <2>1, <2>2, Zenon DEF Roles, Role
<1>5. Claims
  <2>1. \A p \in Publishers : pc[p] = "idle" /\ ~waits[p]
    BY <1>0, <1>1, Zenon
  <2>2. max_read_cursor <= write_cursor
    BY DEF Init
  <2> QED
    BY <2>1, <2>2, Zenon DEF Claims, Owns
<1>6. ASSUME NEW c \in Consumers
      PROVE  Registered(c) <=> c \in Early
  BY <1>0, <1>1, Zenon DEF Registered
<1>7. Owned
  <2>1. ASSUME NEW c \in Early
        PROVE  next[c] - 1 = 0 /\ consumer_cursors[slot[c]] = 0 /\ pc[c] = "wait"
    BY <1>0, <1>1 DEF Init
  <2> QED
    BY <1>0, <1>6, <2>1, EarlySlots, Numbers DEF Owned
<1>8. Gating
  <2>1. ASSUME NEW c \in Early PROVE Behind(c)
    BY <1>0, <1>1 DEF Behind, Init
  <2>2. ASSUME NEW c \in Early PROVE Intact(c)
    <3>1. next[c] = 1 /\ max_read_cursor = 0 /\ \A p \in Publishers : pc[p] = "idle"
      BY <1>0, <1>1, Zenon DEF Init
    <3> QED
      BY <3>1 DEF Intact
  <2> QED
    BY <2>1, <2>2, Zenon DEF Gating
<1>9. Following
  BY <1>0, <1>1, ConsumersAssumption DEF Following
<1> QED
  BY <1>2, <1>3, <1>4, <1>5, <1>7, <1>8, <1>9, Zenon DEF BroadcastInv

(* Every step keeps the invariant.                                         *)
LEMMA NextBroadcast == BroadcastInv /\ [Next]_vars => BroadcastInv'
<1> SUFFICES ASSUME BroadcastInv, [Next]_vars PROVE BroadcastInv'
  BY Zenon
<1>0. Types /\ Bounded /\ Roles /\ Claims /\ Owned /\ Gating /\ Following
  BY Zenon DEF BroadcastInv
<1>1. Types'
  BY TypesNext, Zenon
<1>2. CASE UNCHANGED vars
  BY <1>0, <1>1, <1>2, Zenon DEF vars, shared, BroadcastInv, Bounded, Roles, Role, Claims, Owns, Owned, Registered, Gating, Behind,
       Intact, Following
<1>3. CASE Next
  <2>1. PICK t \in Threads : Step(t) \/ Calls(t)
    BY <1>3, Zenon DEF Next
  <2>2. Bounded' /\ Roles' /\ Claims'
    BY <1>0, <2>1, BoundedNext, RolesNext, ClaimsNext, Zenon
  <2>3. Owned'
    BY <1>0, <1>1, <2>1, OwnedNext, Zenon
  <2>4. Gating'
    BY <1>0, <2>1, BehindNext, IntactNext, Zenon DEF Gating
  <2>5. Following'
    BY <1>0, <2>1, FollowingNext, Zenon
  <2> QED
    BY <1>1, <2>2, <2>3, <2>4, <2>5, Zenon DEF BroadcastInv
<1> QED
  BY <1>2, <1>3, Zenon

(* The invariant always holds.                                             *)
LEMMA BroadcastAlways == Spec => []BroadcastInv
BY InitBroadcast, NextBroadcast, PTL DEF Spec

-----------------------------------------------------------------------------
(* The theorems.                                                           *)

(* Whoever registers, reads and leaves in whatever order, a slot of        *)
(* consumer_cursors belongs to one registered consumer and holds its       *)
(* cursor, and no field leaves its type: lap starts stay below             *)
(* DISRUPTOR_VACANT.                                                       *)
THEOREM SlotsAlwaysOwned == Spec => []SlotsOwned
<1>1. BroadcastInv => SlotsOwned
  <2> SUFFICES ASSUME BroadcastInv PROVE SlotsOwned
    BY Zenon
  <2>1. Handed \subseteq 0..Vacant /\ Positions \subseteq 0..Vacant /\ Readings = Positions \cup {Vacant} /\ Vacant \in 0..Vacant
    BY Constants DEF Handed, Positions, Readings, Vacant
  <2>2. TypeOK
    <3>1. /\ {write_cursor, max_read_cursor, slowest_consumer} \subseteq 0..Vacant
          /\ consumer_cursors \in [Slots -> 0..Vacant]
          /\ {seq, target, reg} \subseteq [Threads -> 0..Vacant]
      BY <2>1, Zenon DEF BroadcastInv, Types
    <3>2. next \in [Consumers -> 0..Vacant]
      BY Numbers DEF BroadcastInv, Types, Bounded
    <3>3. pc \in [Threads -> {"idle", "capacity", "scan", "raise", "refreshed", "cas", "write",
                              "commit", "register", "register_cas", "wait", "process", "drain",
                              "drain_process", "leaving", "vacated", "gone"}]
      <4>1. PublisherLabels \cup ConsumerLabels \subseteq
              {"idle", "capacity", "scan", "raise", "refreshed", "cas", "write",
               "commit", "register", "register_cas", "wait", "process", "drain",
               "drain_process", "leaving", "vacated", "gone"}
        BY Zenon DEF PublisherLabels, ConsumerLabels, Refreshing
      <4> QED
        BY <4>1, Zenon DEF BroadcastInv, Types
    <3> QED
      BY <3>1, <3>2, <3>3, Zenon DEF BroadcastInv, Types, TypeOK, Handed
  <2> QED
    BY <2>2, Zenon DEF BroadcastInv, Owned, SlotsOwned
<1> QED
  BY <1>1, BroadcastAlways, PTL

(* The cached slowest_consumer, whoever stores it and however late, is     *)
(* never ahead of a consumer that was registered from the start.           *)
THEOREM SlowestAlwaysBehind == Spec => []SlowestBehind
<1>1. BroadcastInv => SlowestBehind
  <2> SUFFICES ASSUME BroadcastInv, NEW c \in Early, Registered(c)
               PROVE  slowest_consumer <= consumer_cursors[slot[c]]
    BY Zenon DEF SlowestBehind
  <2>1. slowest_consumer < next[c] /\ consumer_cursors[slot[c]] = next[c] - 1
    BY Constants, Zenon DEF BroadcastInv, Gating, Behind, Owned
  <2>2. slowest_consumer \in Nat /\ next[c] \in Nat
    BY Numbers, Constants, Zenon DEF BroadcastInv, Types
  <2> QED
    BY <2>1, <2>2
<1> QED
  BY <1>1, BroadcastAlways, PTL

(* No publisher overwrites an entry that a consumer registered from the    *)
(* start has not released: the reader finds in every visible entry the     *)
(* sequence number it asks for, for any number of publishers and of        *)
(* consumers that come and go.                                             *)
THEOREM UnreadAlwaysIntact == Spec => []UnreadIntact
<1>1. BroadcastInv => UnreadIntact
  BY Zenon DEF BroadcastInv, Gating, Intact, UnreadIntact, Unread
<1> QED
  BY <1>1, BroadcastAlways, PTL

(* A consumer is never ahead of a registered consumer it depends on,       *)
(* whatever the graph of dependencies.                                     *)
THEOREM DependenciesAlwaysFirst == Spec => []DependenciesFirst
<1>1. BroadcastInv => DependenciesFirst
  <2> SUFFICES ASSUME BroadcastInv, NEW c \in Consumers, Registered(c), NEW d \in Upstream[c], Registered(d)
               PROVE  /\ consumer_cursors[slot[c]] <= consumer_cursors[slot[d]]
                      /\ pc[c] \in {"process", "drain_process"} => seq[c] <= consumer_cursors[slot[d]]
    BY Zenon DEF DependenciesFirst
  <2>1. c \in Early /\ d \in Consumers /\ c \in Threads
    BY ConsumersAssumption, Constants, Zenon
  <2>2. /\ next[c] <= next[d]
        /\ pc[c] \in {"process", "drain_process"} => seq[c] < next[d]
    BY <2>1, Zenon DEF BroadcastInv, Following
  <2>3. consumer_cursors[slot[c]] = next[c] - 1 /\ consumer_cursors[slot[d]] = next[d] - 1
    BY <2>1, Zenon DEF BroadcastInv, Owned
  <2>4. next[c] \in Nat /\ next[d] \in Nat /\ seq[c] \in Nat
    BY <2>1, Numbers, Zenon DEF BroadcastInv, Types
  <2> QED
    BY <2>2, <2>3, <2>4
<1> QED
  BY <1>1, BroadcastAlways, PTL
=============================================================================
