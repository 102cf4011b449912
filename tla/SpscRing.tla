------------------------------ MODULE SpscRing ------------------------------
(***************************************************************************)
(* concurrency/src/spsc_ring.c: a byte ring for one producer and one       *)
(* consumer that hands out contiguous spans.  A span that does not fit     *)
(* before the end of the storage starts again at its beginning; the bytes  *)
(* left over are a gap, [wrap_pos, wrap_pos + wrap_len), that the consumer *)
(* skips.                                                                  *)
(*                                                                         *)
(* One step per load or store of a field the other side writes.  A byte is *)
(* its number in the stream.                                               *)
(***************************************************************************)
EXTENDS Integers

CONSTANTS
  Size,          \* bytes of storage, a power of two
  MaxPosition    \* bound on write_pos

ASSUME SizeAssumption == Size \in Nat \ {0} /\ MaxPosition \in Nat

VARIABLES
  write_pos, read_pos, wrap_pos, wrap_len, pending_wrap_len, data,
  sent, received,   \* how many bytes have been published, released
  ppc, span,        \* the producer's step; the span acquired, and filled
  cpc, seen         \* the consumer's step; the values it loaded, its span

shared == <<write_pos, read_pos, wrap_pos, wrap_len>>
producer == <<pending_wrap_len, ppc, span>>
consumer == <<cpc, seen>>
ring_vars == <<shared, data, sent, received, producer, consumer>>

NoSpan == [available |-> 0, offset |-> 0, length |-> 0, filled |-> 0]
NothingSeen == [write |-> 0, wrap_len |-> 0, available |-> 0]

RingInit ==
  /\ write_pos = 0 /\ read_pos = 0 /\ wrap_pos = 0 /\ wrap_len = 0 /\ pending_wrap_len = 0
  /\ data = [i \in 0..(Size - 1) |-> 0]
  /\ sent = 0 /\ received = 0
  /\ ppc = "idle" /\ span = NoSpan /\ cpc = "idle" /\ seen = NothingSeen

Offset(position) == position % Size
Linear(position) == Size - Offset(position)

-----------------------------------------------------------------------------
(* The producer.  An acquisition that returns NULL changes nothing.        *)

WriteAvailable == Size - (write_pos - read_pos) - 1

Wraps(required) == required > Linear(write_pos)

LoadRead(required) ==
  /\ ppc = "idle" /\ required < Size /\ required <= WriteAvailable
  /\ write_pos + Size + required <= MaxPosition
  /\ pending_wrap_len' = 0
  /\ ppc' = IF Wraps(required) THEN "wrap" ELSE "fill"
  /\ span' = [NoSpan EXCEPT !.available = WriteAvailable, !.length = required,
                            !.offset = IF Wraps(required) THEN 0 ELSE Offset(write_pos)]
  /\ UNCHANGED <<shared, data, sent, received, consumer>>

(* Mutant: the gap is not counted.                                         *)
GapFits_Ungapped(required, available) == required <= available

(* Mutant: off by one.                                                     *)
GapFits_Strict(required, available) == required + Linear(write_pos) < available

(* The room left after the gap, by the read position loaded before.        *)
GapFits(required, available) == required + Linear(write_pos) <= available

LoadWrapLen ==
  /\ ppc = "wrap"
  /\ IF wrap_len = 0 /\ GapFits(span.length, span.available)
       THEN /\ pending_wrap_len' = Linear(write_pos)
            /\ ppc' = "fill" /\ UNCHANGED span
       ELSE ppc' = "idle" /\ span' = NoSpan /\ UNCHANGED pending_wrap_len
  /\ UNCHANGED <<shared, data, sent, received, consumer>>

(* The caller fills part of its span and releases it.                      *)
Fill(n) ==
  /\ ppc = "fill" /\ n <= span.length
  /\ data' = [i \in DOMAIN data |-> IF i - span.offset \in 0..(n - 1)
                                      THEN sent + 1 + i - span.offset ELSE data[i]]
  /\ span' = [span EXCEPT !.filled = n]
  /\ ppc' = IF pending_wrap_len # 0 THEN "wrap_pos" ELSE "write_pos"
  /\ UNCHANGED <<shared, sent, received, pending_wrap_len, consumer>>

StoreWrapPos ==
  /\ ppc = "wrap_pos"
  /\ ppc' = "wrap_len" /\ wrap_pos' = write_pos
  /\ UNCHANGED <<write_pos, read_pos, wrap_len, data, sent, received, pending_wrap_len, span, consumer>>

StoreWrapLen ==
  /\ ppc = "wrap_len"
  /\ ppc' = "write_pos" /\ wrap_len' = pending_wrap_len
  /\ UNCHANGED <<write_pos, read_pos, wrap_pos, data, sent, received, pending_wrap_len, span, consumer>>

(* Mutant: the gap is not added to the position.                           *)
StoreWritePos_Ungapped ==
  /\ ppc = "write_pos"
  /\ ppc' = "idle" /\ span' = NoSpan /\ pending_wrap_len' = 0
  /\ write_pos' = write_pos + span.filled
  /\ sent' = sent + span.filled
  /\ UNCHANGED <<read_pos, wrap_pos, wrap_len, data, received, consumer>>

StoreWritePos ==
  /\ ppc = "write_pos"
  /\ ppc' = "idle" /\ span' = NoSpan /\ pending_wrap_len' = 0
  /\ write_pos' = write_pos + pending_wrap_len + span.filled
  /\ sent' = sent + span.filled
  /\ UNCHANGED <<read_pos, wrap_pos, wrap_len, data, received, consumer>>

-----------------------------------------------------------------------------
(* The consumer.                                                           *)

LoadWrite ==
  /\ cpc = "idle"
  /\ cpc' = "wrap_len" /\ seen' = [seen EXCEPT !.write = write_pos]
  /\ UNCHANGED <<shared, data, sent, received, producer>>

LoadGap ==
  /\ cpc = "wrap_len"
  /\ cpc' = "wrap_pos" /\ seen' = [seen EXCEPT !.wrap_len = wrap_len]
  /\ UNCHANGED <<shared, data, sent, received, producer>>

(* Mutant: the gap does not end what is readable.                          *)
View_ThroughGap(read, gap) ==
  /\ cpc' = IF seen.write = read THEN "idle" ELSE "view"
  /\ seen' = IF seen.write = read THEN NothingSeen
             ELSE [seen EXCEPT !.available = IF seen.write - read < Linear(read)
                                               THEN seen.write - read ELSE Linear(read)]

(* Whatever is readable from a position on, up to the gap or to the end of *)
(* the storage.                                                            *)
View(read, gap) ==
  LET readable == IF seen.wrap_len # 0 /\ read < gap THEN gap - read ELSE seen.write - read
      available == IF readable < Linear(read) THEN readable ELSE Linear(read)
  IN  /\ cpc' = IF readable = 0 THEN "idle" ELSE "view"
      /\ seen' = IF readable = 0 THEN NothingSeen ELSE [seen EXCEPT !.available = available]

(* Mutant: a consumer at the gap waits for more than the gap's end.        *)
LoadWrapPos_Stuck ==
  /\ cpc = "wrap_pos"
  /\ IF seen.wrap_len # 0 /\ read_pos = wrap_pos
       THEN cpc' = "idle" /\ seen' = NothingSeen
       ELSE View(read_pos, wrap_pos)
  /\ UNCHANGED <<shared, data, sent, received, producer>>

LoadWrapPos ==
  /\ cpc = "wrap_pos"
  /\ IF seen.wrap_len # 0 /\ read_pos = wrap_pos
       THEN IF seen.write < read_pos + seen.wrap_len
              THEN cpc' = "idle" /\ seen' = NothingSeen
              ELSE cpc' = "skip" /\ UNCHANGED seen
       ELSE View(read_pos, wrap_pos)
  /\ UNCHANGED <<shared, data, sent, received, producer>>

SkipGap ==
  /\ cpc = "skip"
  /\ cpc' = "clear" /\ read_pos' = read_pos + seen.wrap_len
  /\ UNCHANGED <<write_pos, wrap_pos, wrap_len, data, sent, received, producer, seen>>

ClearGap ==
  /\ cpc = "clear"
  /\ wrap_len' = 0
  /\ View(read_pos, read_pos)
  /\ UNCHANGED <<write_pos, read_pos, wrap_pos, data, sent, received, producer>>

ReadRelease(n) ==
  /\ cpc = "view" /\ n <= seen.available
  /\ cpc' = "idle" /\ seen' = NothingSeen
  /\ read_pos' = read_pos + n
  /\ received' = received + n
  /\ UNCHANGED <<write_pos, wrap_pos, wrap_len, data, sent, producer>>

-----------------------------------------------------------------------------
ProducerStep == LoadWrapLen \/ StoreWrapPos \/ StoreWrapLen \/ StoreWritePos

ConsumerStep ==
  \/ LoadWrite \/ LoadGap \/ LoadWrapPos \/ SkipGap \/ ClearGap
  \/ \E n \in 1..Size : ReadRelease(n)

RingNext ==
  \/ \E n \in 1..Size : LoadRead(n)
  \/ \E n \in 0..Size : Fill(n)
  \/ ProducerStep \/ ConsumerStep

RingSpec == RingInit /\ [][RingNext]_ring_vars

-----------------------------------------------------------------------------
(* The types of the ring's fields and of the two sides' locals.            *)
RingTypes ==
  /\ {write_pos, read_pos, wrap_pos, sent, received} \subseteq 0..MaxPosition
  /\ {wrap_len, pending_wrap_len} \subseteq 0..(Size - 1)
  /\ data \in [0..(Size - 1) -> 0..MaxPosition]
  /\ span \in [{"available", "offset", "length", "filled"} -> 0..(Size - 1)]
  /\ seen \in [write : 0..MaxPosition, wrap_len : 0..(Size - 1), available : 0..Size]
  /\ ppc \in {"idle", "wrap", "fill", "wrap_pos", "wrap_len", "write_pos"}
  /\ cpc \in {"idle", "wrap_len", "wrap_pos", "skip", "clear", "view"}

ReadAvailable ==
  IF wrap_len # 0 /\ read_pos = wrap_pos /\ write_pos >= read_pos + wrap_len
    THEN write_pos - read_pos - wrap_len
    ELSE IF wrap_len # 0 /\ read_pos < wrap_pos /\ write_pos >= wrap_pos + wrap_len
           THEN (wrap_pos - read_pos) + (write_pos - wrap_pos - wrap_len)
           ELSE write_pos - read_pos

(* Neither side spoils the other's bytes.  read_acquire hands out the next *)
(* bytes of the stream, contiguous and in order, never a byte of the gap   *)
(* or one not yet published, and they stay in place until they are         *)
(* released; read_available counts the unread bytes and not the gap,       *)
(* whatever the other side is in the middle of.  write_acquire never hands *)
(* out a span over bytes published and not yet released, and an empty ring *)
(* grants any span of up to half its size, wherever the positions stand.   *)
(* (It may refuse a larger one for ever.)                                  *)
ViewInOrder ==
  /\ RingTypes
  /\ ReadAvailable = sent - received
  /\ cpc = "view" =>
       /\ received + seen.available <= sent
       /\ \A i \in 0..(seen.available - 1) : data[Offset(read_pos) + i] = received + 1 + i
  /\ ppc = "fill" =>
       \A i \in span.offset..(span.offset + span.length - 1) : data[i] \notin (received + 1)..sent
  /\ read_pos = write_pos /\ wrap_len = 0 /\ ppc = "idle" =>
       \A required \in 1..(Size \div 2) :
         Wraps(required) => GapFits(required, WriteAvailable)

(* A poll that loaded the current write position comes back empty only     *)
(* when every published byte has been received: no gap, and no release     *)
(* racing with a poll, hides one from a consumer that goes on polling.     *)
PollsSeeAll ==
  [][(LoadWrapPos \/ ClearGap) /\ cpc' = "idle" /\ seen.write = write_pos =>
       received = sent]_ring_vars
=============================================================================
