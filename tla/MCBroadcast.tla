---------------------------- MODULE MCBroadcast ----------------------------
(***************************************************************************)
(* Instances of Broadcast for TLC.                                         *)
(***************************************************************************)
EXTENDS Broadcast, TLC

CONSTANTS c1, c2

Chain == (c1 :> {}) @@ (c2 :> {c1})
Independent == [c \in Consumers |-> {}]

PublisherSymmetry == Permutations(Publishers)
=============================================================================
