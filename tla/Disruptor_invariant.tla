------------------------- MODULE Disruptor_invariant ------------------------
(***************************************************************************)
(* The inductive invariant of Disruptor, in layers, and the vocabulary of  *)
(* its proof.                                                              *)
(***************************************************************************)
EXTENDS Disruptor

(* Where a thread of each kind can be.                                     *)
PublisherLabels ==
  {"idle", "capacity", "refresh", "refresh_cached", "claim_cas", "write", "publish", "mark",
   "visible", "advance", "probe", "advance_cas", "notify", "broadcast"}

WorkerLabels ==
  {"idle", "parking", "available", "worker_cas", "keep", "parked", "woken", "leave", "stopped",
   "read", "advance", "probe", "advance_cas"}

StopperLabels == {"idle", "notify", "broadcast"}

Stores == [loc : {"slowest", "published", "completed"}, seq : Nat]

(* First layer: types and roles.                                           *)
Roles ==
  /\ write_cursor \in Nat /\ max_read_cursor \in Nat /\ slowest_consumer \in Nat
  /\ worker_claim_cursor \in Nat /\ worker_completed_cursor \in Nat
  /\ published_sequences \in [Indexes -> Nat] /\ worker_completed_sequences \in [Indexes -> Nat]
  /\ keep_running \in BOOLEAN
  /\ sb \in [Threads -> Seq(Stores)]
  /\ pc \in [Threads -> Labels]
  /\ first \in [Threads -> Nat] /\ last \in [Threads -> Nat]
  /\ reg \in [Threads -> Nat] /\ probe \in [Threads -> Nat]
  /\ waits \in [Threads -> BOOLEAN]
  /\ \A p \in Publishers : pc[p] \in PublisherLabels
  /\ \A w \in Workers : pc[w] \in WorkerLabels
  /\ \A o \in Stoppers : pc[o] \in StopperLabels
  /\ \A t \in Threads : pc[t] \in {"probe", "advance_cas"} => probe[t] > reg[t]

(* Second layer: worker_wait_mutex has one holder, and worker_waiters      *)
(* counts the workers between Park and Leave.                              *)
Waiting == {w \in Workers : waits[w]}

Parking ==
  /\ worker_waiters = Cardinality(Waiting)
  /\ wait_mutex = {w \in Workers : waits[w] /\ pc[w] \in {"parking", "available", "worker_cas",
                                                          "keep", "leave"}}
  /\ \A v, w \in wait_mutex : v = w
  /\ \A w \in Workers : pc[w] \in {"parking", "parked", "woken", "leave"} => waits[w]
  /\ \A w \in Workers :
       pc[w] \in {"idle", "stopped", "read", "advance", "probe", "advance_cas"} => ~waits[w]

(* Third layer: marks.  A mark lies in the slot of its sequence number; a  *)
(* mark still in a store buffer b[t] is there once, is not in memory yet   *)
(* and is ahead of the cursor, since the thread that would advance past it *)
(* has to drain its buffer first.                                          *)
Lane(b, loc, slots, cursor) ==
  /\ \A i \in Indexes : slots[i] # 0 => RingIndex(slots[i]) = i
  /\ \A t \in Threads : \A n \in DOMAIN b[t] : b[t][n].loc = loc =>
       /\ b[t][n].seq > cursor /\ b[t][n].seq <= MaxSequence
       /\ slots[RingIndex(b[t][n].seq)] # b[t][n].seq
  /\ \A t, u \in Threads : \A m \in DOMAIN b[t], n \in DOMAIN b[u] :
       b[t][m].loc = loc /\ b[t][m] = b[u][n] => t = u /\ m = n

(* What t can know of s: the cursor covers it now, or it is marked in      *)
(* memory, or in the thread's own buffer.                                  *)
Seen(b, t, loc, slots, cursor, s) ==
  \/ s <= cursor
  \/ slots[RingIndex(s)] = s
  \/ \E n \in DOMAIN b[t] : b[t][n] = Entry(loc, s)

(* What a thread has probed since it loaded the cursor.                    *)
Probing(t, b, loc, slots, cursor) ==
  pc[t] \in {"probe", "advance_cas"} =>
    /\ reg[t] <= cursor
    /\ \A s \in (reg[t] + 1)..(probe[t] - 1) : Seen(b, t, loc, slots, cursor, s)

Marking ==
  /\ Lane(sb, "published", published_sequences, max_read_cursor)
  /\ Lane(sb, "completed", worker_completed_sequences, worker_completed_cursor)
  /\ \A p \in Publishers : Probing(p, sb, "published", published_sequences, max_read_cursor)
  /\ \A w \in Workers : Probing(w, sb, "completed", worker_completed_sequences, worker_completed_cursor)

(* Fourth layer: who owns which sequence number.                           *)
Owning ==
  /\ CursorsOrdered /\ write_cursor <= MaxSequence
  /\ \A p \in Publishers : Unpublished(p) \subseteq (1..write_cursor) \ PublishedSet
  /\ \A p, q \in Publishers : p # q => Unpublished(p) \cap Unpublished(q) = {}
  /\ PublishedSet \subseteq 1..write_cursor
  /\ \A s \in PublishedSet : s <= worker_completed_cursor + Capacity
  /\ \A w \in Workers : Held(w) \subseteq (1..(worker_claim_cursor - 1)) \ DoneSet
  /\ \A v, w \in Workers : v # w => Held(v) \cap Held(w) = {}
  /\ DoneSet \subseteq 1..(worker_claim_cursor - 1)

(* What the locals say: a range asked for is not empty, a range granted    *)
(* fits in the ring, and what was loaded from a cursor is not ahead of it. *)
Claiming ==
  /\ \A p \in Publishers :
       /\ pc[p] \in {"capacity", "refresh", "refresh_cached", "claim_cas", "write", "publish", "mark"} =>
            first[p] \in 1..last[p] /\ last[p] <= MaxSequence
       /\ pc[p] \in {"claim_cas", "write", "publish", "mark"} =>
            last[p] <= worker_completed_cursor + Capacity
       /\ pc[p] \in {"idle", "claim_cas"} => ~waits[p]
       /\ pc[p] = "refresh_cached" => reg[p] <= worker_completed_cursor
  /\ \A t \in Threads : \A n \in DOMAIN sb[t] :
       sb[t][n].loc = "slowest" => sb[t][n].seq <= worker_completed_cursor
  /\ \A w \in Workers :
       /\ pc[w] \in {"available", "worker_cas"} => reg[w] \in 1..worker_claim_cursor
       /\ pc[w] = "worker_cas" => reg[w] <= max_read_cursor
       /\ pc[w] \in {"idle", "parking", "available", "worker_cas", "keep", "parked", "woken", "stopped"}
            => first[w] = 0
       /\ pc[w] = "read" => first[w] # 0

RingInv == Roles /\ Parking /\ Marking /\ Owning /\ Claiming

-----------------------------------------------------------------------------
(* Lanes: the published and the completed sequence numbers.                *)

Places == {"slowest", "published", "completed"}

Covered(b, loc, slots, cursor) ==
  1..cursor \cup Slotted(slots)
    \cup UNION {{e.seq : e \in {b[t][i] : i \in DOMAIN b[t]} \cap
                                 [loc : {loc}, seq : 1..MaxSequence]} : t \in Threads}

Stored(b, loc, s) == \E t \in Threads : \E n \in DOMAIN b[t] : b[t][n] = Entry(loc, s)

(* b2 is b with the marks of F appended to the buffer of t; other places   *)
(* may be stored to as well.                                               *)
Extends(b, b2, t, loc, F) ==
  /\ \A u \in Threads : \A n \in DOMAIN b[u] : n \in DOMAIN b2[u] /\ b2[u][n] = b[u][n]
  /\ \A u \in Threads : \A n \in DOMAIN b2[u] :
       b2[u][n].loc = loc /\ n \notin DOMAIN b[u] => u = t /\ b2[u][n].seq \in F
  /\ \A m, n \in DOMAIN b2[t] \ DOMAIN b[t] : b2[t][m].loc = loc /\ b2[t][m] = b2[t][n] => m = n
  /\ \A s \in F : \E n \in DOMAIN b2[t] : b2[t][n] = Entry(loc, s)

(* The lane is in order, covers F in addition, and loses nothing seen.     *)
Grown(loc, b, b2, slots, cursor, F) ==
  /\ Lane(b2, loc, slots, cursor)
  /\ Covered(b2, loc, slots, cursor) = Covered(b, loc, slots, cursor) \cup F
  /\ \A u \in Threads, s \in Nat : Seen(b, u, loc, slots, cursor, s) =>
       Seen(b2, u, loc, slots, cursor, s)

(* A lane stays in order, covers what it covered, and loses nothing seen.  *)
Kept(loc, b, slots, cursor, b2, slots2, cursor2) ==
  /\ Lane(b2, loc, slots2, cursor2)
  /\ Covered(b2, loc, slots2, cursor2) = Covered(b, loc, slots, cursor)
  /\ \A u \in Threads, s \in Nat : Seen(b, u, loc, slots, cursor, s) =>
       Seen(b2, u, loc, slots2, cursor2, s)

(* A store to another place leaves a lane as it is.                        *)
Aside(b, b2, loc) ==
  /\ \A u \in Threads : \A n \in DOMAIN b[u] : n \in DOMAIN b2[u] /\ b2[u][n] = b[u][n]
  /\ \A u \in Threads : \A n \in DOMAIN b2[u] : n \notin DOMAIN b[u] => b2[u][n].loc # loc

(* Marks of F, and nothing else, are appended to the buffer of t.          *)
Stacked(b, b2, t, loc, F) ==
  /\ b2 \in [Threads -> Seq(Stores)] /\ Extends(b, b2, t, loc, F)
  /\ \A o \in Places \ {loc} : Aside(b, b2, o)

-----------------------------------------------------------------------------
(* Sleeping workers.                                                       *)

(* Where a thread still is to find out whether a worker sleeps.            *)
Wakers == {"advance", "probe", "advance_cas", "visible", "notify", "broadcast"}

(* A worker that found nothing to claim under worker_wait_mutex has in     *)
(* worker_waiters announced that it may sleep; as long as it is about to,  *)
(* or does, an entry made visible keeps its publisher among the wakers.    *)
Waking ==
  /\ \A w \in Workers :
       waits[w] /\ pc[w] \in {"keep", "parked"} /\ worker_claim_cursor <= max_read_cursor =>
         \E t \in Publishers : pc[t] \in Wakers
  /\ \A w \in Workers :
       pc[w] = "parked" /\ ~keep_running => \E t \in Publishers \cup Stoppers : pc[t] \in Wakers

(* A step of t to l that makes nothing visible, lets no worker decide to   *)
(* sleep and takes no thread out of the wakers.                            *)
Quiet(t, l) ==
  /\ UNCHANGED <<max_read_cursor, keep_running>>
  /\ worker_claim_cursor' \in Nat /\ worker_claim_cursor' >= worker_claim_cursor
  /\ pc' = [pc EXCEPT ![t] = l]
  /\ \A u \in Threads \ {t} : waits'[u] = waits[u]
  /\ pc[t] \in Wakers /\ t \notin Workers => l \in Wakers
  /\ l = "keep" => ~waits'[t]
  /\ l = "parked" => pc[t] = "keep" /\ waits[t] /\ keep_running

-----------------------------------------------------------------------------
(* The abstract queue.                                                     *)

(* Nothing the queue speaks of changes.                                    *)
QueueStutters == UNCHANGED <<write_cursor, worker_claim_cursor, PublishedSet, DoneSet>>
=============================================================================
