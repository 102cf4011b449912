-------------------------- MODULE DisruptorTopology -------------------------
(***************************************************************************)
(* concurrency/src/disruptor.c: which consumer of a broadcast ring waits   *)
(* for which.  Dependencies are set one consumer at a time, or committed   *)
(* from a topology of stages, groups and edges.  Module Broadcast models   *)
(* what the ring does with them; here the calls are those of one owner     *)
(* before the consumers run.  The failures of calloc are left out.         *)
(***************************************************************************)
EXTENDS Integers, SequencesExt

CONSTANTS
  SlotCount,    \* consumer_capacity, also the most stages a topology has
  MaxGroups,    \* bound on the groups, group_capacity
  MaxArguments  \* bound on the stages passed in a list, after the first

ASSUME TopologyAssumption == {SlotCount, MaxGroups, MaxArguments} \subseteq Nat

ConsumerSlots == 0..(SlotCount - 1)

VARIABLES
  registered,     \* the slots in use
  dependencies,   \* slot -> the slots in its dependency list
  stages,         \* the slot of each stage; stage i is stages[i + 1]
  groups,         \* the members of each group
  edges           \* <<stage, dependency>>

topology == <<stages, groups, edges>>
topology_vars == <<registered, dependencies, topology>>

TopologyInit ==
  /\ registered = {}
  /\ dependencies = [s \in ConsumerSlots |-> {}]
  /\ stages = <<>> /\ groups = <<>> /\ edges = {}

Stages == 0..(Len(stages) - 1)

-----------------------------------------------------------------------------
(* Kahn's algorithm: whether a node of a graph is left unvisited.  Succ[n] *)
(* are the nodes that n depends on.                                        *)

RECURSIVE Visited(_, _, _)
Visited(queue, indegrees, succ) ==
  IF queue = {} THEN 0
  ELSE LET n == CHOOSE n \in queue : TRUE
           last == {d \in succ[n] : indegrees[d] = 1}
       IN  1 + Visited((queue \ {n}) \cup last,
                       [d \in DOMAIN succ |-> indegrees[d] - (IF d \in succ[n] THEN 1 ELSE 0)],
                       succ)

(* Mutant: every node with a dependency left starts in the queue too.      *)
HasCycle_AllQueued(succ) ==
  LET indegrees == [n \in DOMAIN succ |-> Cardinality({m \in DOMAIN succ : n \in succ[m]})]
  IN  Visited({n \in DOMAIN succ : indegrees[n] <= 1}, indegrees, succ) < Cardinality(DOMAIN succ)

HasCycle(succ) ==
  LET indegrees == [n \in DOMAIN succ |-> Cardinality({m \in DOMAIN succ : n \in succ[m]})]
  IN  Visited({n \in DOMAIN succ : indegrees[n] = 0}, indegrees, succ) # Cardinality(DOMAIN succ)

-----------------------------------------------------------------------------
(* Consumers.                                                              *)

Register ==
  /\ registered # ConsumerSlots
  /\ registered' = registered \cup {Min(ConsumerSlots \ registered)}
  /\ UNCHANGED <<dependencies, topology>>

(* The dependency lists of and on the slot stay as they are.               *)
Unregister(s) ==
  /\ registered' = registered \ {s}
  /\ UNCHANGED <<dependencies, topology>>

(* A list that names a slot twice is refused, so a list is a set.          *)
SetDependencies(s, deps) ==
  /\ s \in registered /\ deps \subseteq registered \ {s}
  /\ ~HasCycle([dependencies EXCEPT ![s] = deps])
  /\ dependencies' = [dependencies EXCEPT ![s] = deps]
  /\ UNCHANGED <<registered, topology>>

-----------------------------------------------------------------------------
(* The topology.                                                           *)

Stage(s) ==
  /\ s \in registered /\ ~Contains(stages, s)
  /\ stages' = Append(stages, s)
  /\ UNCHANGED <<registered, dependencies, groups, edges>>

Group(members) ==
  /\ members # {} /\ Len(groups) < MaxGroups
  /\ groups' = Append(groups, members)
  /\ UNCHANGED <<registered, dependencies, stages, edges>>

(* topology_after, called for one pair after the other until one is        *)
(* refused: the edges before that one stay.                                *)
Accepted(pair) == pair[1] # pair[2] /\ {pair[1], pair[2]} \subseteq Stages

After(pairs) ==
  /\ edges' = edges \cup {pairs[i] : i \in {n \in DOMAIN pairs : \A j \in 1..n : Accepted(pairs[j])}}
  /\ UNCHANGED <<registered, dependencies, stages, groups>>

Ascending(members) == SetToSortSeq(members, <)

(* Every stage of one set after every stage of another: after_all,         *)
(* stage_after_group, group_after and group_after_group.                   *)
Product(left, right) ==
  [k \in 1..(Len(left) * Len(right)) |->
     <<left[((k - 1) \div Len(right)) + 1], right[((k - 1) % Len(right)) + 1]>>]

AfterAll(stage, deps) == After(Product(<<stage>>, deps))
StageAfterGroup(stage, g) == stage \in Stages /\ After(Product(<<stage>>, Ascending(groups[g])))
GroupAfter(g, dep) == dep \in Stages /\ After(Product(Ascending(groups[g]), <<dep>>))
GroupAfterGroup(g, h) == After(Product(Ascending(groups[g]), Ascending(groups[h])))

Chain(list) == After([i \in 1..(Len(list) - 1) |-> <<list[i + 1], list[i]>>])

StageDependencies(e) == [i \in Stages |-> {d \in Stages : <<i, d>> \in e}]

(* Mutant: the edges are added to what the slots depend on already.        *)
Commit_Merged ==
  /\ stages # <<>> /\ ~HasCycle(StageDependencies(edges))
  /\ ToSet(stages) \subseteq registered
  /\ dependencies' = [s \in ConsumerSlots |-> dependencies[s] \cup
                        {stages[e[2] + 1] : e \in {x \in edges : stages[x[1] + 1] = s}}]
  /\ UNCHANGED <<registered, topology>>

Commit ==
  /\ stages # <<>> /\ ~HasCycle(StageDependencies(edges))
  /\ ToSet(stages) \subseteq registered
  /\ dependencies' = [s \in ConsumerSlots |->
                        IF Contains(stages, s)
                          THEN {stages[e[2] + 1] : e \in {x \in edges : stages[x[1] + 1] = s}}
                          ELSE dependencies[s]]
  /\ UNCHANGED <<registered, topology>>

(* The arguments passed: also one past the last stage, which is refused.   *)
Arguments == 0..Len(stages)
ArgumentLists == UNION {[1..n -> Arguments] : n \in 1..MaxArguments}

TopologyNext ==
  \/ Register \/ Commit
  \/ \E s \in ConsumerSlots : Unregister(s) \/ Stage(s) \/ \E deps \in SUBSET ConsumerSlots : SetDependencies(s, deps)
  \/ \E members \in SUBSET Stages : Group(members)
  \/ \E stage \in Arguments, list \in ArgumentLists : AfterAll(stage, list)
  \/ \E list \in ArgumentLists, i \in Arguments : Chain(<<i>> \o list)
  \/ \E g \in DOMAIN groups :
       \/ \E i \in Arguments : StageAfterGroup(i, g) \/ GroupAfter(g, i)
       \/ \E h \in DOMAIN groups : GroupAfterGroup(g, h)

TopologySpec == TopologyInit /\ [][TopologyNext]_topology_vars

-----------------------------------------------------------------------------
(* The types of the ring's dependency lists and of the topology.           *)
TopologyTypes ==
  /\ registered \subseteq ConsumerSlots /\ dependencies \in [ConsumerSlots -> SUBSET ConsumerSlots]
  /\ stages \in BoundedSeq(ConsumerSlots, SlotCount) /\ IsInjective(stages)
  /\ groups \in BoundedSeq(SUBSET Stages, MaxGroups)
  /\ edges \subseteq Stages \X Stages

(* Every set of nodes has one that no other node of the set depends on.    *)
Acyclic(succ) ==
  \A S \in SUBSET DOMAIN succ : S # {} => \E n \in S : \A m \in S : n \notin succ[m]

(* No consumers ever wait for each other in a circle, through any mixture  *)
(* of set_dependencies, commits of a topology and reuse of slots: commit   *)
(* looks only at the topology's own edges, and overwrites only its slots.  *)
(* A topology is refused for a cycle exactly when it has one.              *)
NoCircularWait ==
  /\ TopologyTypes
  /\ Acyclic(dependencies)
  /\ HasCycle(StageDependencies(edges)) <=> ~Acyclic(StageDependencies(edges))
=============================================================================
