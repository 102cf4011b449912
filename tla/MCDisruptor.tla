---------------------------- MODULE MCDisruptor ----------------------------
(***************************************************************************)
(* Instances of Disruptor for TLC.                                         *)
(***************************************************************************)
EXTENDS Disruptor, TLC

WorkerSymmetry == Permutations(Workers)
PublisherSymmetry == Permutations(Publishers)
=============================================================================
