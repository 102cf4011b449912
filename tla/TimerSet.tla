----------------------------- MODULE TimerSet ------------------------------
(***************************************************************************)
(* What a deadline queue promises: a set of timers, each with an id that   *)
(* is never issued twice; the timer taken is the first of the ready ones   *)
(* by deadline and, among equal deadlines, by scheduling; an id cancels    *)
(* its own timer or nothing.                                               *)
(***************************************************************************)
EXTENDS Integers

CONSTANTS Ids, Deadlines, MaxOrder

NoTimer == -1

VARIABLES
  pending, issued, next_order,
  out    \* the last call: its name, its argument, and the id or order it returned

vars == <<pending, issued, next_order, out>>

Before(a, b) == a.deadline < b.deadline \/ (a.deadline = b.deadline /\ a.order < b.order)

Init == pending = {} /\ issued = {} /\ next_order = 0 /\ out = <<"init">>

Schedule(d, id) ==
  /\ out' = <<"schedule", d, id>>
  /\ id \notin issued /\ next_order < MaxOrder
  /\ issued' = issued \cup {id}
  /\ pending' = pending \cup {[id |-> id, deadline |-> d, order |-> next_order]}
  /\ next_order' = next_order + 1

Drop(t) == pending' = pending \ {t} /\ UNCHANGED <<issued, next_order>>

TakeReady(now) ==
  \/ \E t \in pending :
       /\ out' = <<"take_ready", now, t.order>>
       /\ t.deadline <= now /\ \A u \in pending \ {t} : Before(t, u)
       /\ Drop(t)
  \/ /\ out' = <<"take_ready", now, NoTimer>>
     /\ \A t \in pending : t.deadline > now
     /\ UNCHANGED <<pending, issued, next_order>>

Cancel(id) ==
  \/ \E t \in pending : t.id = id /\ out' = <<"cancel", id, t.order>> /\ Drop(t)
  \/ /\ out' = <<"cancel", id, NoTimer>>
     /\ \A t \in pending : t.id # id
     /\ UNCHANGED <<pending, issued, next_order>>

Next ==
  \/ \E d \in Deadlines, id \in Ids : Schedule(d, id)
  \/ \E now \in Deadlines : TakeReady(now)
  \/ \E id \in Ids : Cancel(id)

Spec == Init /\ [][Next]_vars
=============================================================================
