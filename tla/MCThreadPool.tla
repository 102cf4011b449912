---------------------------- MODULE MCThreadPool ----------------------------
(***************************************************************************)
(* Instances of ThreadPool for TLC.                                        *)
(***************************************************************************)
EXTENDS ThreadPool, TLC

(* salts_threadpool_round_up_pow2, for the ring of a given queue.          *)
RoundUpPow2(value) ==
  CHOOSE r \in {2^n : n \in 0..value} :
    /\ r >= value
    /\ \A n \in 0..value : 2^n >= value => r <= 2^n

MCRingCapacity == RoundUpPow2(QueueCapacity)

TaskSymmetry == Permutations(Tasks)

(* Nothing is submitting from outside the pool at the moment admission     *)
(* closes: what a caller that stops its producers first guarantees.        *)
QuietShutdown ==
  accepting /\ ~accepting' =>
    \A t \in Submitters \ Workers : pc[t] \in {"idle", "check", "park_space", "wait_space"}

(* Tasks are only names, so TLC need only look at the behaviours that hand  *)
(* them out in one order.                                                  *)
InOrder == \A k \in Tasks : k > 1 /\ result'[k] # "new" => result'[k - 1] # "new"

LiveSpec == Spec /\ Fairness /\ WaitMutexFairness
=============================================================================
