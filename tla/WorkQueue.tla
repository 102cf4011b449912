----------------------------- MODULE WorkQueue -----------------------------
(***************************************************************************)
(* What the disruptor promises in worker-pool mode, whatever its cursors   *)
(* and arrays do: sequence numbers are claimed by publishers, filled in    *)
(* any order, handed to workers once each and in order, and completed in   *)
(* any order.  A ring of Capacity entries is reused only after completion. *)
(***************************************************************************)
EXTENDS Integers

CONSTANT Capacity

VARIABLES
  claimed,    \* sequence numbers 1..claimed belong to publishers
  published,  \* the set of those whose entry has been filled
  taken,      \* sequence numbers 1..taken have been given to workers
  done        \* the set of those that workers have completed

vars == <<claimed, published, taken, done>>

Init == claimed = 0 /\ published = {} /\ taken = 0 /\ done = {}

Claim ==
  /\ claimed' \in Nat /\ claimed' > claimed
  /\ UNCHANGED <<published, taken, done>>

(* Entry s is free once everything up to s - Capacity is complete.         *)
Free(s) == 1..(s - Capacity) \subseteq done

Publish ==
  /\ \E first, last \in 1..claimed :
       /\ first..last \cap published = {}
       /\ Free(last)
       /\ published' = published \cup first..last
  /\ UNCHANGED <<claimed, taken, done>>

Take ==
  /\ taken + 1 \in published
  /\ taken' = taken + 1
  /\ UNCHANGED <<claimed, published, done>>

Complete ==
  /\ \E s \in (1..taken) \ done : done' = done \cup {s}
  /\ UNCHANGED <<claimed, published, taken>>

(* A worker that takes and completes under one lock.                       *)
TakeComplete ==
  /\ taken + 1 \in published
  /\ taken' = taken + 1 /\ done' = done \cup {taken + 1}
  /\ UNCHANGED <<claimed, published>>

Next == Claim \/ Publish \/ Take \/ Complete \/ TakeComplete

Spec == Init /\ [][Next]_vars
=============================================================================
