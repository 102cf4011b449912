----------------------------- MODULE Disruptor -----------------------------
(***************************************************************************)
(* concurrency/src/disruptor.c in worker-pool mode.                        *)
(*                                                                         *)
(* A thread takes one step per access to shared memory.  Atomic stores     *)
(* that are not read-modify-writes pass through the thread's store buffer  *)
(* sb[t], as on the x86 the code is built for: they reach memory in order  *)
(* and at any later moment, the thread's own loads see them at once, and a *)
(* read-modify-write or a mutex operation waits until the buffer is empty. *)
(* With Buffered = FALSE a store reaches memory before anything else       *)
(* happens: sequential consistency.                                        *)
(***************************************************************************)
EXTENDS Integers, Sequences, FiniteSetsExt

CONSTANTS
  Publishers,   \* threads that claim and publish
  Workers,      \* threads that loop over claim, process, release
  Parkers,      \* the workers that use worker_claim_wait; the others spin
  Stoppers,     \* threads that clear keep_running and call worker_wake_all
  Capacity,     \* the number of entries of the ring
  Counts,       \* how many entries one claim asks for
  MaxSequence,  \* bound on the sequence numbers handed out
  Buffered      \* whether stores may be delayed

ASSUME CapacityAssumption == Capacity \in Nat \ {0}
ASSUME MaskAssumption == \E n \in 0..Capacity : Capacity = 2^n
ASSUME CountsAssumption == Counts \subseteq 1..Capacity
ASSUME BoundAssumption == MaxSequence \in Nat
ASSUME ThreadsAssumption ==
  /\ IsFiniteSet(Workers) /\ Parkers \subseteq Workers
  /\ Publishers \cap Workers = {} /\ Stoppers \cap (Publishers \cup Workers) = {}

Threads == Publishers \cup Workers \cup Stoppers
Indexes == 0..(Capacity - 1)

VARIABLES
  write_cursor, max_read_cursor, slowest_consumer,
  worker_claim_cursor, worker_completed_cursor,
  published_sequences, worker_completed_sequences,
  worker_waiters,
  wait_mutex,    \* the workers that hold worker_wait_mutex: at most one
  keep_running,  \* what keep_running(ctx) answers
  sb,            \* sb[t]: the stores of t that have not reached memory
  pc,
  first, last,   \* the range of sequence numbers t is working on
  waits,         \* waits[t]: a blocking claim or commit; a parked worker
  reg,           \* reg[t]: the cursor value t loaded last
  probe          \* probe[t]: the sequence number t looks at next

cursors == <<write_cursor, max_read_cursor, worker_claim_cursor, worker_completed_cursor>>
memory  == <<slowest_consumer, published_sequences, worker_completed_sequences>>
parking == <<worker_waiters, wait_mutex, keep_running>>
locals  == <<first, last, waits, reg, probe>>
vars    == <<cursors, memory, parking, sb, pc, locals>>

Init ==
  /\ write_cursor = 0 /\ max_read_cursor = 0 /\ slowest_consumer = 0
  /\ worker_claim_cursor = 1 /\ worker_completed_cursor = 0
  /\ published_sequences = [i \in Indexes |-> 0]
  /\ worker_completed_sequences = [i \in Indexes |-> 0]
  /\ worker_waiters = 0 /\ wait_mutex = {} /\ keep_running = TRUE
  /\ sb = [t \in Threads |-> << >>]
  /\ pc = [t \in Threads |-> "idle"]
  /\ first = [t \in Threads |-> 0] /\ last = [t \in Threads |-> 0]
  /\ waits = [t \in Threads |-> FALSE]
  /\ reg = [t \in Threads |-> 0] /\ probe = [t \in Threads |-> 0]

-----------------------------------------------------------------------------
(* Control and memory.                                                     *)

At(t, l) == pc[t] = l
Goto(t, l) == pc' = [pc EXCEPT ![t] = l]

(* Back to the caller, the locals forgotten.                               *)
Reset(t) ==
  /\ first' = [first EXCEPT ![t] = 0] /\ last' = [last EXCEPT ![t] = 0]
  /\ waits' = [waits EXCEPT ![t] = FALSE]
  /\ reg' = [reg EXCEPT ![t] = 0] /\ probe' = [probe EXCEPT ![t] = 0]

RingIndex(s) == s % Capacity

\* Mutant: one entry too many.
HasCapacity_OffByOne(writer, slowest) == writer - slowest \in 0..(Capacity + 1)

(* writer_sequence - slowest_sequence is unsigned: a slowest reader ahead  *)
(* of the writer counts as no capacity.                                    *)
HasCapacity(writer, slowest) == writer - slowest \in 0..Capacity

(* A store waiting in a buffer; slowest_consumer has no index.             *)
Entry(loc, s) == [loc |-> loc, seq |-> s]
Marks(loc, from, to) == [n \in 1..(to - from + 1) |-> Entry(loc, from + n - 1)]

Drained(t) == sb[t] = << >>

(* What t loads: its own latest buffered store to the place, own holding   *)
(* the positions of such stores in its buffer, or memory.                  *)
Load(t, own, value) == IF own = {} THEN value ELSE sb[t][Max(own)].seq

LoadSlowest(t) ==
  Load(t, {n \in DOMAIN sb[t] : sb[t][n].loc = "slowest"}, slowest_consumer)

LoadSlot(t, loc, slots, i) ==
  Load(t, {n \in DOMAIN sb[t] : sb[t][n].loc = loc /\ RingIndex(sb[t][n].seq) = i}, slots[i])

Flush(t) ==
  /\ ~Drained(t)
  /\ sb' = [sb EXCEPT ![t] = Tail(@)]
  /\ LET e == Head(sb[t]) IN
       \/ /\ e.loc = "slowest"
          /\ slowest_consumer' = e.seq
          /\ UNCHANGED <<published_sequences, worker_completed_sequences>>
       \/ /\ e.loc = "published"
          /\ published_sequences' = [published_sequences EXCEPT ![RingIndex(e.seq)] = e.seq]
          /\ UNCHANGED <<slowest_consumer, worker_completed_sequences>>
       \/ /\ e.loc = "completed"
          /\ worker_completed_sequences' =
               [worker_completed_sequences EXCEPT ![RingIndex(e.seq)] = e.seq]
          /\ UNCHANGED <<slowest_consumer, published_sequences>>
  /\ UNCHANGED <<cursors, parking, pc, locals>>

-----------------------------------------------------------------------------
(* Claiming: try_claim_range_internal loads the write cursor and swaps it  *)
(* in the end; claim_range_blocking_internal adds to it first.             *)

TryClaim(p, n) ==
  /\ At(p, "idle") /\ write_cursor + n <= MaxSequence
  /\ Goto(p, "capacity")
  /\ first' = [first EXCEPT ![p] = write_cursor + 1]
  /\ last' = [last EXCEPT ![p] = write_cursor + n]
  /\ UNCHANGED <<cursors, memory, parking, sb, waits, reg, probe>>

ClaimBlocking(p, n) ==
  /\ At(p, "idle") /\ write_cursor + n <= MaxSequence /\ Drained(p)
  /\ Goto(p, "capacity")
  /\ write_cursor' = write_cursor + n
  /\ first' = [first EXCEPT ![p] = write_cursor + 1]
  /\ last' = [last EXCEPT ![p] = write_cursor + n]
  /\ waits' = [waits EXCEPT ![p] = TRUE]
  /\ UNCHANGED <<max_read_cursor, worker_claim_cursor, worker_completed_cursor, memory, parking,
                 sb, reg, probe>>

Granted(p) == IF waits[p] THEN "write" ELSE "claim_cas"

CheckCapacity(p) ==
  /\ At(p, "capacity")
  /\ Goto(p, IF HasCapacity(last[p], LoadSlowest(p)) THEN Granted(p) ELSE "refresh")
  /\ UNCHANGED <<cursors, memory, parking, sb, locals>>

\* Mutant: what workers have claimed counts as free.
Refresh_Claimed(p) ==
  /\ At(p, "refresh")
  /\ Goto(p, "refresh_cached")
  /\ reg' = [reg EXCEPT ![p] = worker_claim_cursor - 1]
  /\ UNCHANGED <<cursors, memory, parking, sb, first, last, waits, probe>>

(* refresh_slowest_reader: the completed cursor is loaded, the cached one  *)
(* raised.                                                                 *)
Refresh(p) ==
  /\ At(p, "refresh")
  /\ Goto(p, "refresh_cached")
  /\ reg' = [reg EXCEPT ![p] = worker_completed_cursor]
  /\ UNCHANGED <<cursors, memory, parking, sb, first, last, waits, probe>>

RefreshCached(p) ==
  /\ At(p, "refresh_cached")
  /\ sb' = IF reg[p] > LoadSlowest(p)
             THEN [sb EXCEPT ![p] = Append(@, Entry("slowest", reg[p]))] ELSE sb
  /\ \/ /\ HasCapacity(last[p], reg[p])
        /\ Goto(p, Granted(p))
        /\ reg' = [reg EXCEPT ![p] = 0]
        /\ UNCHANGED <<first, last, waits, probe>>
     \/ /\ ~HasCapacity(last[p], reg[p]) /\ waits[p]
        /\ Goto(p, "capacity")
        /\ reg' = [reg EXCEPT ![p] = 0]
        /\ UNCHANGED <<first, last, waits, probe>>
     \/ /\ ~HasCapacity(last[p], reg[p]) /\ ~waits[p]
        /\ Goto(p, "idle") /\ Reset(p)
  /\ UNCHANGED <<cursors, memory, parking>>

ClaimCas(p) ==
  /\ At(p, "claim_cas") /\ Drained(p)
  /\ IF write_cursor = first[p] - 1
       THEN Goto(p, "write") /\ write_cursor' = last[p] /\ UNCHANGED locals
       ELSE Goto(p, "idle") /\ Reset(p) /\ UNCHANGED write_cursor
  /\ UNCHANGED <<max_read_cursor, worker_claim_cursor, worker_completed_cursor, memory, parking,
                 sb>>

-----------------------------------------------------------------------------
(* Publishing: publish_range_internal, b saying whether the caller waits   *)
(* until the range is visible.                                             *)

Write(p, b) ==
  /\ At(p, "write")
  /\ Goto(p, "publish")
  /\ waits' = [waits EXCEPT ![p] = b]
  /\ UNCHANGED <<cursors, memory, parking, sb, first, last, reg, probe>>

\* Mutant: the fast path does not look for marked successors.
Publish_NoAdvance(p) ==
  /\ At(p, "publish") /\ Drained(p)
  /\ IF max_read_cursor = first[p] - 1
       THEN /\ Goto(p, "notify")
            /\ max_read_cursor' = last[p]
            /\ waits' = [waits EXCEPT ![p] = FALSE]
       ELSE Goto(p, "mark") /\ UNCHANGED <<max_read_cursor, waits>>
  /\ UNCHANGED <<write_cursor, worker_claim_cursor, worker_completed_cursor, memory, parking, sb,
                 first, last, reg, probe>>

Publish(p) ==
  /\ At(p, "publish") /\ Drained(p)
  /\ IF max_read_cursor = first[p] - 1
       THEN /\ Goto(p, "advance")
            /\ max_read_cursor' = last[p]
            /\ waits' = [waits EXCEPT ![p] = FALSE]
       ELSE Goto(p, "mark") /\ UNCHANGED <<max_read_cursor, waits>>
  /\ UNCHANGED <<write_cursor, worker_claim_cursor, worker_completed_cursor, memory, parking, sb,
                 first, last, reg, probe>>

MarkPublished(p) ==
  /\ At(p, "mark")
  /\ Goto(p, IF waits[p] THEN "visible" ELSE "advance")
  /\ sb' = [sb EXCEPT ![p] = @ \o Marks("published", first[p], last[p])]
  /\ UNCHANGED <<cursors, memory, parking, locals>>

Visible(p) ==
  /\ At(p, "visible")
  /\ Goto(p, IF max_read_cursor >= last[p] THEN "notify" ELSE "advance")
  /\ UNCHANGED <<cursors, memory, parking, sb, locals>>

(* try_advance_published_cursor, and try_advance_worker_completed_cursor   *)
(* for a worker: load the cursor, probe, swap.                             *)
LoadCursor(t) ==
  /\ At(t, "advance")
  /\ LET c == IF t \in Publishers THEN max_read_cursor ELSE worker_completed_cursor
     IN  reg' = [reg EXCEPT ![t] = c] /\ probe' = [probe EXCEPT ![t] = c + 1]
  /\ Goto(t, "probe")
  /\ UNCHANGED <<cursors, memory, parking, sb, first, last, waits>>

\* Mutant: a slot counts as marked whichever lap marked it.
ProbePublished_AnyLap(t) ==
  LoadSlot(t, "published", published_sequences, RingIndex(probe[t])) \in 1..probe[t]

\* Mutant: whatever a worker has claimed counts as complete.
ProbeCompleted_Claimed(t) == probe[t] < worker_claim_cursor

ProbePublished(t) == LoadSlot(t, "published", published_sequences, RingIndex(probe[t])) = probe[t]
ProbeCompleted(t) ==
  LoadSlot(t, "completed", worker_completed_sequences, RingIndex(probe[t])) = probe[t]
Probed(t) == IF t \in Publishers THEN ProbePublished(t) ELSE ProbeCompleted(t)

ProbeNext(t) ==
  /\ At(t, "probe") /\ Probed(t)
  /\ probe' = [probe EXCEPT ![t] = @ + 1]
  /\ UNCHANGED <<cursors, memory, parking, sb, pc, first, last, waits, reg>>

(* The caller goes on: a publisher looks whether its range is visible, or  *)
(* notifies; a worker has released its entry.                              *)
Advanced(t) ==
  \/ /\ t \in Publishers
     /\ Goto(t, IF waits[t] THEN "visible" ELSE "notify")
     /\ reg' = [reg EXCEPT ![t] = 0] /\ probe' = [probe EXCEPT ![t] = 0]
     /\ UNCHANGED <<first, last, waits>>
  \/ /\ t \in Workers
     /\ Goto(t, "idle") /\ Reset(t)

ProbeEnd(t) ==
  /\ At(t, "probe") /\ ~Probed(t)
  /\ IF probe[t] = reg[t] + 1 THEN Advanced(t) ELSE Goto(t, "advance_cas") /\ UNCHANGED locals
  /\ UNCHANGED <<cursors, memory, parking, sb>>

AdvancePublished(p) ==
  /\ At(p, "advance_cas") /\ p \in Publishers /\ Drained(p)
  /\ IF max_read_cursor = reg[p]
       THEN Advanced(p) /\ max_read_cursor' = probe[p] - 1
       ELSE Goto(p, "advance") /\ UNCHANGED <<max_read_cursor, locals>>
  /\ UNCHANGED <<write_cursor, worker_claim_cursor, worker_completed_cursor, memory, parking, sb>>

(* worker_notify.                                                          *)
Notify(t) ==
  /\ At(t, "notify")
  /\ IF worker_waiters = 0
       THEN Goto(t, "idle") /\ Reset(t)
       ELSE Goto(t, "broadcast") /\ UNCHANGED locals
  /\ UNCHANGED <<cursors, memory, parking, sb>>

Broadcast(t) ==
  /\ At(t, "broadcast") /\ wait_mutex = {} /\ Drained(t)
  /\ pc' = [s \in Threads |-> IF s = t THEN "idle" ELSE IF pc[s] = "parked" THEN "woken" ELSE pc[s]]
  /\ Reset(t)
  /\ UNCHANGED <<cursors, memory, parking, sb>>

-----------------------------------------------------------------------------
(* Workers: worker_try_claim, in the spinning rounds of worker_claim_wait  *)
(* and of worker_claim_blocking and again, under worker_wait_mutex, before *)
(* the worker sleeps.                                                      *)

\* Mutant: no further attempt to claim between worker_waiters and the wait.
Park_NoRetry(w) ==
  /\ At(w, "idle") /\ w \in Parkers /\ wait_mutex = {} /\ Drained(w)
  /\ Goto(w, "keep")
  /\ wait_mutex' = {w} /\ worker_waiters' = worker_waiters + 1
  /\ waits' = [waits EXCEPT ![w] = TRUE]
  /\ UNCHANGED <<cursors, memory, keep_running, sb, first, last, reg, probe>>

Park(w) ==
  /\ At(w, "idle") /\ w \in Parkers /\ wait_mutex = {} /\ Drained(w)
  /\ Goto(w, "parking")
  /\ wait_mutex' = {w} /\ worker_waiters' = worker_waiters + 1
  /\ waits' = [waits EXCEPT ![w] = TRUE]
  /\ UNCHANGED <<cursors, memory, keep_running, sb, first, last, reg, probe>>

LoadClaim(w) ==
  /\ pc[w] \in {"idle", "parking"} /\ w \in Workers
  /\ Goto(w, "available")
  /\ reg' = [reg EXCEPT ![w] = worker_claim_cursor]
  /\ UNCHANGED <<cursors, memory, parking, sb, first, last, waits, probe>>

LoadAvailable(w) ==
  /\ At(w, "available")
  /\ Goto(w, IF reg[w] > max_read_cursor THEN "keep" ELSE "worker_cas")
  /\ UNCHANGED <<cursors, memory, parking, sb, locals>>

\* Mutant: a store where the code compares and swaps.
WorkerCas_NoCompare(w) ==
  /\ At(w, "worker_cas") /\ Drained(w)
  /\ Goto(w, IF waits[w] THEN "leave" ELSE "read")
  /\ worker_claim_cursor' = reg[w] + 1
  /\ first' = [first EXCEPT ![w] = reg[w]] /\ last' = [last EXCEPT ![w] = reg[w]]
  /\ reg' = [reg EXCEPT ![w] = 0]
  /\ UNCHANGED <<write_cursor, max_read_cursor, worker_completed_cursor, memory, parking, sb,
                 waits, probe>>

WorkerCas(w) ==
  /\ At(w, "worker_cas") /\ Drained(w)
  /\ IF worker_claim_cursor = reg[w]
       THEN /\ Goto(w, IF waits[w] THEN "leave" ELSE "read")
            /\ worker_claim_cursor' = reg[w] + 1
            /\ first' = [first EXCEPT ![w] = reg[w]] /\ last' = [last EXCEPT ![w] = reg[w]]
            /\ reg' = [reg EXCEPT ![w] = 0]
       ELSE /\ Goto(w, "available")
            /\ reg' = [reg EXCEPT ![w] = worker_claim_cursor]
            /\ UNCHANGED <<worker_claim_cursor, first, last>>
  /\ UNCHANGED <<write_cursor, max_read_cursor, worker_completed_cursor, memory, parking, sb,
                 waits, probe>>

\* Mutant: worker_waiters is given back at every wait, and again at the end.
KeepRunning_Decrement(w) ==
  /\ At(w, "keep")
  /\ Goto(w, IF waits[w] THEN IF keep_running THEN "parked" ELSE "leave"
                         ELSE IF keep_running THEN "idle" ELSE "stopped")
  /\ wait_mutex' = IF waits[w] /\ keep_running THEN {} ELSE wait_mutex
  /\ worker_waiters' = IF waits[w] THEN worker_waiters - 1 ELSE worker_waiters
  /\ reg' = [reg EXCEPT ![w] = 0]
  /\ UNCHANGED <<cursors, memory, keep_running, sb, first, last, waits, probe>>

(* Nothing to claim: keep_running decides between giving up, another round *)
(* and, once parked, the wait on worker_wait_cond.                         *)
KeepRunning(w) ==
  /\ At(w, "keep")
  /\ Goto(w, IF waits[w] THEN IF keep_running THEN "parked" ELSE "leave"
                         ELSE IF keep_running THEN "idle" ELSE "stopped")
  /\ wait_mutex' = IF waits[w] /\ keep_running THEN {} ELSE wait_mutex
  /\ reg' = [reg EXCEPT ![w] = 0]
  /\ UNCHANGED <<cursors, memory, worker_waiters, keep_running, sb, first, last, waits, probe>>

Woken(w) ==
  /\ At(w, "woken") /\ wait_mutex = {}
  /\ Goto(w, "parking")
  /\ wait_mutex' = {w}
  /\ UNCHANGED <<cursors, memory, worker_waiters, keep_running, sb, locals>>

Leave(w) ==
  /\ At(w, "leave")
  /\ Goto(w, IF first[w] = 0 THEN "stopped" ELSE "read")
  /\ wait_mutex' = {} /\ worker_waiters' = worker_waiters - 1
  /\ waits' = [waits EXCEPT ![w] = FALSE]
  /\ UNCHANGED <<cursors, memory, keep_running, sb, first, last, reg, probe>>

(* salts_cond_wait may return without a signal.                            *)
SpuriousWakeup(w) ==
  /\ At(w, "parked") /\ Goto(w, "woken")
  /\ UNCHANGED <<cursors, memory, parking, sb, locals>>

\* Mutant: the entry is marked and the completed cursor left alone.
Release_NoAdvance(w) ==
  /\ At(w, "read")
  /\ Goto(w, "idle") /\ Reset(w)
  /\ sb' = [sb EXCEPT ![w] = Append(@, Entry("completed", first[w]))]
  /\ UNCHANGED <<cursors, memory, parking>>

Release(w) ==
  /\ At(w, "read")
  /\ Goto(w, "advance")
  /\ sb' = [sb EXCEPT ![w] = Append(@, Entry("completed", first[w]))]
  /\ UNCHANGED <<cursors, memory, parking, locals>>

AdvanceCompleted(w) ==
  /\ At(w, "advance_cas") /\ w \in Workers /\ Drained(w)
  /\ IF worker_completed_cursor = reg[w]
       THEN /\ Advanced(w)
            /\ worker_completed_cursor' = probe[w] - 1
            /\ sb' = [sb EXCEPT ![w] = Append(@, Entry("slowest", probe[w] - 1))]
       ELSE Goto(w, "advance") /\ UNCHANGED <<worker_completed_cursor, sb, locals>>
  /\ UNCHANGED <<write_cursor, max_read_cursor, worker_claim_cursor, memory, parking>>


(* The owner of the workers: keep_running turns false, then wake_all.      *)
Stop(t) ==
  /\ At(t, "idle") /\ t \in Stoppers /\ keep_running
  /\ Goto(t, "notify")
  /\ keep_running' = FALSE
  /\ UNCHANGED <<cursors, memory, worker_waiters, wait_mutex, sb, locals>>

-----------------------------------------------------------------------------
PublisherStep(p) ==
  \/ CheckCapacity(p) \/ Refresh(p) \/ RefreshCached(p) \/ ClaimCas(p)
  \/ \E b \in BOOLEAN : Write(p, b)
  \/ Publish(p) \/ MarkPublished(p) \/ Visible(p) \/ AdvancePublished(p)

WorkerStep(w) ==
  \/ LoadClaim(w) \/ LoadAvailable(w) \/ WorkerCas(w) \/ KeepRunning(w) \/ Woken(w) \/ Leave(w)
  \/ Release(w) \/ AdvanceCompleted(w)

Step(t) ==
  \/ PublisherStep(t) \/ WorkerStep(t)
  \/ LoadCursor(t) \/ ProbeNext(t) \/ ProbeEnd(t) \/ Notify(t) \/ Broadcast(t)

Calls(t) ==
  \/ t \in Publishers /\ \E n \in Counts : TryClaim(t, n) \/ ClaimBlocking(t, n)
  \/ Park(t) \/ Stop(t)

(* With unbuffered stores nothing happens between a store and its effect.  *)
Ordered == Buffered \/ \A t \in Threads : Drained(t)

Next ==
  \E t \in Threads : \/ Flush(t)
                     \/ Ordered /\ (Step(t) \/ Calls(t) \/ SpuriousWakeup(t))

Spec == Init /\ [][Next]_vars

(* A store buffer drains, a thread inside an operation goes on, a worker   *)
(* keeps asking for entries.                                               *)
Fairness == \A t \in Threads : WF_vars(Flush(t)) /\ WF_vars(Ordered /\ Step(t))

FairSpec == Spec /\ Fairness

-----------------------------------------------------------------------------
Labels ==
  {"idle", "capacity", "refresh", "refresh_cached", "claim_cas", "write", "publish", "mark",
   "visible", "advance", "probe", "advance_cas", "notify", "broadcast", "parking",
   "available", "worker_cas", "keep", "parked", "woken", "leave", "stopped", "read"}

(* The types of the ring's fields and of the threads' locals.              *)
TypeOK ==
  /\ {write_cursor, max_read_cursor, slowest_consumer, worker_claim_cursor,
      worker_completed_cursor, worker_waiters} \subseteq Nat
  /\ published_sequences \in [Indexes -> Nat] /\ worker_completed_sequences \in [Indexes -> Nat]
  /\ wait_mutex \in SUBSET Workers /\ keep_running \in BOOLEAN
  /\ sb \in [Threads -> Seq([loc : {"slowest", "published", "completed"}, seq : Nat])]
  /\ pc \in [Threads -> Labels]
  /\ {first, last, reg, probe} \subseteq [Threads -> Nat] /\ waits \in [Threads -> BOOLEAN]

(* A publisher owns its range from the claim until it starts to publish.   *)
Unpublished(p) ==
  IF p \notin Publishers THEN {}
  ELSE IF pc[p] \in {"write", "publish", "mark"}
          \/ (waits[p] /\ pc[p] \in {"capacity", "refresh", "refresh_cached"})
  THEN first[p]..last[p] ELSE {}

Held(w) == IF w \in Workers /\ pc[w] \in {"leave", "read"} THEN {first[w]} \ {0} ELSE {}

(* What reads and writes of entries need: a sequence number has one owner, *)
(* a worker never holds one whose publisher has not published it, and two  *)
(* threads never touch the same entry of the ring.                         *)
EntryExclusive ==
  \A t, u \in Threads : t # u =>
    /\ Unpublished(t) \cap Unpublished(u) = {}
    /\ Held(t) \cap Held(u) = {}
    /\ Unpublished(t) \cap Held(u) = {}
    /\ pc[t] = "write" => \A s \in Unpublished(t) :
         /\ \A r \in Held(u) : RingIndex(r) # RingIndex(s)
         /\ pc[u] = "write" => \A r \in Unpublished(u) : RingIndex(r) # RingIndex(s)

(* The cursors never cross: completion follows claiming by workers, that   *)
(* follows visibility, that follows claiming by publishers; the cached     *)
(* slowest reader never runs ahead of completion.                          *)
CursorsOrdered ==
  /\ slowest_consumer <= worker_completed_cursor
  /\ worker_completed_cursor < worker_claim_cursor
  /\ worker_claim_cursor <= max_read_cursor + 1
  /\ max_read_cursor <= write_cursor

(* Visible means published, complete means released: the cursors are in    *)
(* order, and what a cursor covers is no longer owned by anybody.          *)
CursorsCover ==
  /\ TypeOK /\ CursorsOrdered
  /\ \A p \in Publishers : \A s \in Unpublished(p) : s > max_read_cursor
  /\ \A w \in Workers : \A s \in Held(w) : s > worker_completed_cursor

(* A worker sleeps only while a thread that made an entry visible, or the  *)
(* one that stopped the workers, is still to wake it.                      *)
SleepersWoken ==
  \A w \in Workers :
    pc[w] = "parked" /\ (worker_claim_cursor <= max_read_cursor \/ ~keep_running) =>
      \E t \in Publishers \cup Stoppers :
        pc[t] \in {"advance", "probe", "advance_cas", "visible", "notify", "broadcast"}

-----------------------------------------------------------------------------
(* The abstract queue: an entry is published when it is covered by the     *)
(* cursor or marked, in memory or in a store buffer.                       *)
Buffers(loc) == UNION {{e.seq : e \in {sb[t][i] : i \in DOMAIN sb[t]} \cap
                                        [loc : {loc}, seq : 1..MaxSequence]} : t \in Threads}
Slotted(slots) == {slots[i] : i \in Indexes} \ {0}
PublishedSet == 1..max_read_cursor \cup Slotted(published_sequences) \cup Buffers("published")
DoneSet == 1..worker_completed_cursor \cup Slotted(worker_completed_sequences) \cup Buffers("completed")

Queue == INSTANCE WorkQueue WITH
  claimed <- write_cursor, published <- PublishedSet,
  taken <- worker_claim_cursor - 1, done <- DoneSet

(* The cursors and arrays implement the abstract queue: entries are handed *)
(* out once each, in order, after being filled, and reused only when done. *)
ImplementsQueue == Queue!Spec

-----------------------------------------------------------------------------
(* A published entry becomes visible and is claimed by a worker.           *)
PublishedClaimed ==
  \A s \in 1..MaxSequence : s \in PublishedSet ~> s < worker_claim_cursor

=============================================================================
