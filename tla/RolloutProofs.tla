--------------------------- MODULE RolloutProofs ---------------------------
(***************************************************************************)
(* Proofs about Rollout, for any fleet, groups, sets, budgets, edits and   *)
(* bounds: maxUnavailable is kept, and a published node only moves         *)
(* forward.                                                                *)
(*                                                                         *)
(* Both follow from how assign_nodes and plan_reconcile place one node,    *)
(* whatever retention, the verdict, rollbacks and admission have left: the *)
(* state after admission is an arbitrary value (now) in what follows.      *)
(***************************************************************************)
EXTENDS Rollout, TLAPS, FiniteSetTheorems, WellFoundedInduction

\* Nearly all of it is first-order; the leaves about arithmetic or records name SMT.
USE Zenon

-----------------------------------------------------------------------------
(***************************************************************************)
(* Order.                                                                  *)
(***************************************************************************)

\* A set of naturals that is not empty has a least element: the search of
\* assign_nodes through the predecessors finds the first match.
LEMMA LeastNatural ==
    ASSUME NEW S \in SUBSET Nat, S # {}
    PROVE  \E i \in S : \A j \in S : i <= j
<1> DEFINE R == {p \in Nat \X Nat : p[1] < p[2]}
<1>1. IsWellFoundedOn(R, Nat)
    BY NatLessThanWellFounded DEF OpToRel
<1>2. \E x \in S : \A y \in S : ~ (<<y, x>> \in R)
    <2> HIDE DEF R
    <2> QED BY <1>1, WFMin
<1>3. \A x, y \in S : y < x => <<y, x>> \in R
    OBVIOUS
<1>4. \E x \in S : \A y \in S : ~ (y < x)
    <2> HIDE DEF R
    <2> QED BY <1>2, <1>3
<1> QED BY SMT, <1>4

\* Node names are in a strict total order.
LEMMA NodesOrdered ==
    ASSUME NEW x \in Nodes, NEW y \in Nodes
    PROVE  /\ ~Before(NodeOrder, x, x)
           /\ x # y => Before(NodeOrder, x, y) \/ Before(NodeOrder, y, x)
           /\ \A z \in Nodes : Before(NodeOrder, z, x) /\ Before(NodeOrder, x, y)
                                  => Before(NodeOrder, z, y)
<1> DOMAIN NodeOrder \subseteq Nat
    BY SMT, InventoryAssumption
<1>1. ~Before(NodeOrder, x, x)
    BY SMT, InventoryAssumption DEF Before
<1>2. x # y => Before(NodeOrder, x, y) \/ Before(NodeOrder, y, x)
    <2>1. PICK i \in DOMAIN NodeOrder : NodeOrder[i] = x
        BY InventoryAssumption
    <2>2. PICK j \in DOMAIN NodeOrder : NodeOrder[j] = y
        BY InventoryAssumption
    <2> QED BY SMT, <2>1, <2>2 DEF Before
<1>3. ASSUME NEW z \in Nodes, Before(NodeOrder, z, x), Before(NodeOrder, x, y)
      PROVE  Before(NodeOrder, z, y)
    <2>1. PICK i \in DOMAIN NodeOrder, j \in DOMAIN NodeOrder :
              i < j /\ NodeOrder[i] = z /\ NodeOrder[j] = x
        BY <1>3 DEF Before
    <2>2. PICK k \in DOMAIN NodeOrder, l \in DOMAIN NodeOrder :
              k < l /\ NodeOrder[k] = x /\ NodeOrder[l] = y
        BY <1>3 DEF Before
    <2>3. j = k
        BY <2>1, <2>2, InventoryAssumption
    <2> QED BY SMT, <2>1, <2>2, <2>3 DEF Before
<1> QED BY <1>1, <1>2, <1>3

\* A batch of assign_nodes, the first k nodes of a set, has at most k of them.
LEMMA BatchBound ==
    ASSUME NEW S \in SUBSET Nodes, NEW k \in Nat
    PROVE  /\ FirstNodes(S, k) \subseteq S
           /\ IsFiniteSet(FirstNodes(S, k))
           /\ Cardinality(FirstNodes(S, k)) <= k
<1> DEFINE F == FirstNodes(S, k)
           Earlier(n) == {m \in S : Before(NodeOrder, m, n)}
           rank == [n \in F |-> Cardinality(Earlier(n))]
<1>1. F \subseteq S
    BY DEF FirstNodes
<1>2. IsFiniteSet(S)
    BY FS_Subset, InventoryAssumption
<1>3. \A n : IsFiniteSet(Earlier(n)) /\ Cardinality(Earlier(n)) \in Nat
    <2> SUFFICES ASSUME NEW n PROVE IsFiniteSet(Earlier(n)) /\ Cardinality(Earlier(n)) \in Nat
        OBVIOUS
    <2>1. Earlier(n) \in SUBSET S
        OBVIOUS
    <2> HIDE DEF Earlier
    <2> QED BY <2>1, <1>2, FS_Subset, FS_CardinalityType
<1>4. \A n \in F : Cardinality(Earlier(n)) < k
    BY DEF FirstNodes
<1>5. rank \in [F -> 0 .. (k - 1)]
    <2> HIDE DEF F, Earlier
    <2> QED BY SMT, <1>3, <1>4
<1>6. ASSUME NEW x \in F, NEW y \in F, Before(NodeOrder, x, y)
      PROVE  rank[x] # rank[y]
    <2>1. Earlier(x) \in SUBSET Earlier(y)
        BY <1>1, <1>6, NodesOrdered
    <2>2. x \in Earlier(y) /\ x \notin Earlier(x)
        BY <1>1, <1>6, NodesOrdered
    <2>3. Earlier(x) # Earlier(y)
        BY <2>2
    <2>4. Cardinality(Earlier(x)) # Cardinality(Earlier(y))
        <3> HIDE DEF Earlier
        <3> QED BY <2>1, <2>3, <1>3, FS_Subset
    <2> HIDE DEF Earlier, F
    <2> QED BY <2>4
<1>7. \A x, y \in F : rank[x] = rank[y] => x = y
    <2> SUFFICES ASSUME NEW x \in F, NEW y \in F, x # y PROVE rank[x] # rank[y]
        OBVIOUS
    <2>1. x \in Nodes /\ y \in Nodes
        BY <1>1
    <2>2. Before(NodeOrder, x, y) \/ Before(NodeOrder, y, x)
        BY <2>1, NodesOrdered
    <2> HIDE DEF rank, F
    <2> QED BY <2>2, <1>6
<1>8. rank \in Injection(F, 0 .. (k - 1))
    <2> HIDE DEF rank, F
    <2> QED BY <1>5, <1>7 DEF Injection, IsInjective
<1>9. IsFiniteSet(0 .. (k - 1)) /\ Cardinality(0 .. (k - 1)) = k
    BY SMT, FS_Interval
<1>10. IsFiniteSet(F) /\ Cardinality(F) <= Cardinality(0 .. (k - 1))
    <2> HIDE DEF rank, F
    <2> QED BY <1>8, <1>9, FS_Injection
<1> QED BY <1>1, <1>9, <1>10

-----------------------------------------------------------------------------
(***************************************************************************)
(* Where one node is, and what a pass publishes for it.                    *)
(***************************************************************************)

\* assign_nodes finds a node on a predecessor it was handed or reports, and
\* otherwise where it was placed.
LEMMA WhereANodeIs ==
    ASSUME NEW n, NEW state
    PROVE  \/ At(n, state) = Placement(n)
           \/ /\ Advanced(n, At(n, state))
              /\ At(n, state) \in BodiesIn(state)
<1> DEFINE on == {i \in 1 .. Len(state.previous) : Advanced(n, state.previous[i])}
           least == CHOOSE i \in on : \A j \in on : i <= j
<1>1. CASE on = {}
    BY <1>1 DEF At
<1>2. CASE on # {}
    <2>1. on \in SUBSET Nat
        BY SMT
    <2>2. \E i \in on : \A j \in on : i <= j
        <3> HIDE DEF on
        <3> QED BY <1>2, <2>1, LeastNatural
    <2>3. least \in on
        <3> HIDE DEF on
        <3> QED BY <2>2
    <2>4. At(n, state) = state.previous[least]
        BY <1>2 DEF At
    <2> HIDE DEF least
    <2> QED BY <2>3, <2>4 DEF BodiesIn
<1> QED BY <1>1, <1>2

\* Only one body can be reported: a node heard on its placement is nowhere else.
LEMMA HeardOnPlacement ==
    ASSUME NEW n, NEW b, Placement(n) # Null, On(n, Placement(n)), Advanced(n, b)
    PROVE  b \in {Placement(n), Null}
BY DEF On, Advanced, Placement

\* Every plan is a generation from some state after admission (now) and some
\* movement verdict.
LEMMA PlanShape ==
    \E kept, claims, vetoes, mv, rebasing, now :
        Plan = PlanGeneration(kept, claims, vetoes, mv, rebasing, now)
<1> DEFINE kept == FinishStagedRollouts(RetireDeletedGroups(admitted))
           claims == {c \in rejections \cup Claims : c[2] \in LiveBodies(kept)}
           vetoes == vetoed \cap LiveBodies(kept)
           mv == Movement(kept, claims, vetoes)
           rebasing == Rebases(kept, mv)
           back == [k \in Keys |->
                      IF k \in rebasing THEN Rebased(kept[k], mv.blocked) ELSE kept[k]]
<1>1. Plan = PlanGeneration(kept, claims, vetoes, mv, rebasing, AdmitPending(back, mv))
    BY Zenon DEF Plan, PlanRetained, PlanVerdict, PlanMovement, PlanAdmission
<1> HIDE DEF kept, claims, vetoes, mv, rebasing, back
<1> QED BY <1>1, Zenon

\* The nodes a pass moves, and the bodies it knows.
MovedNodes(now, blocks) == UNION {Moved(g, now[g], blocks) : g \in {h \in Groups : Planned(h)}}
Recorded(now, blocks) == DefaultRecorded(Repinned(now), blocks)
Published(n, now, blocks) ==
    Publication(n, Recorded(now, blocks), blocks,
                Deployment(n, now, blocks, MovedNodes(now, blocks), BodiesOf(Repinned(now))))

\* What a pass leaves, in these terms: the state of the planned groups is the one
\* after admission, every node with routing has a body, and each node of the
\* fleet has what is published for it.
LEMMA PassShape ==
    \E now, blocks :
        /\ Plan.admitted = Recorded(now, blocks)
        /\ Plan.generation = [n \in Fleet |-> Published(n, now, blocks)]
        /\ ~Plan.faults => \A n \in Fleet : routing[n] # Null => Plan.generation[n].body # Null
<1>1. PICK kept, claims, vetoes, mv, rebasing, now :
          Plan = PlanGeneration(kept, claims, vetoes, mv, rebasing, now)
    BY PlanShape
<1>2. Plan.admitted = Recorded(now, mv.blocked)
    BY <1>1 DEF PlanGeneration, Recorded
<1>3. Plan.generation = [n \in Fleet |-> Published(n, now, mv.blocked)]
    BY <1>1 DEF PlanGeneration, Recorded, Published, MovedNodes
<1>4. ~Plan.faults => \A n \in Fleet : routing[n] # Null => Plan.generation[n].body # Null
    BY <1>1 DEF PlanGeneration
<1> QED BY <1>2, <1>3, <1>4

\* plan_reconcile publishes for a node nothing, the body it has, the repository
\* default, or what assign_nodes hands it for its group.
LEMMA WhatIsPublished ==
    ASSUME NEW n \in Fleet, NEW now, NEW blocks
    PROVE  LET p == Published(n, now, blocks)
               d == Handed(n, now[label[n]], blocks, MovedNodes(now, blocks),
                           BodiesOf(Repinned(now)))
           IN  /\ p.group # Null
               /\ \/ p.body = Null
                  \/ p.body = assignments[n] /\ routing[n] # Null
                  \/ p.body = default /\ p.group = Default
                  \/ /\ Planned(label[n]) /\ n \notin holds /\ now[label[n]] # Null
                     /\ p.body = d
               /\ (Planned(label[n]) /\ now[label[n]] # Null /\ d # Null) => p.body = d
               /\ (n \in holds /\ routing[n] # Null) => p.body \in {Null, assignments[n]}
<1> DEFINE m == MovedNodes(now, blocks)
           r == BodiesOf(Repinned(now))
           adm == Recorded(now, blocks)
           d == Handed(n, now[label[n]], blocks, m, r)
           dep == Deployment(n, now, blocks, m, r)
           p == Published(n, now, blocks)
<1> HIDE DEF m, r, adm
<1>1. p = Publication(n, adm, blocks, dep)
    BY DEF Published, m, r, adm
<1>2. NodeGroup(n) # Null /\ (Planned(label[n]) => NodeGroup(n) = label[n] /\ label[n] # Default)
    BY InventoryAssumption DEF NodeGroup, Planned, Keys
<1>3. ~Planned(label[n]) => NodeGroup(n) = Default
    BY DEF NodeGroup
<1>4. /\ Planned(label[n]) => dep = IF now[label[n]] = Null THEN Null ELSE d
      /\ ~Planned(label[n]) => dep \in {Null, default}
      /\ n \in holds => dep = Null
    BY <1>2, <1>3 DEF Deployment, Handed
<1>5. Default # Null
    BY InventoryAssumption DEF Keys
<1> HIDE DEF d, dep, p
<1>6. \/ /\ ~Carries(n, dep) /\ p.group = NodeGroup(n) /\ p.body = dep
      \/ /\ Carries(n, dep) /\ p.group = routing[n] /\ p.body \in {Null, assignments[n]}
      \/ /\ Carries(n, dep) /\ ~StaysPut(n, adm, blocks)
         /\ \/ p.group = Default /\ p.body = default
            \/ p.group = NodeGroup(n) /\ p.body = dep
    BY <1>1 DEF Publication
<1>7. /\ Carries(n, dep) => routing[n] # Null
      /\ Carries(n, dep) /\ Planned(label[n]) => dep = Null
      /\ n \in holds => StaysPut(n, adm, blocks)
      /\ n \in holds /\ routing[n] # Null => Carries(n, dep)
    BY <1>2, <1>4 DEF Carries, StaysPut
<1>8. p.group # Null
    BY <1>2, <1>5, <1>6, <1>7
<1>9. \/ p.body = Null
      \/ p.body = assignments[n] /\ routing[n] # Null
      \/ p.body = default /\ p.group = Default
      \/ Planned(label[n]) /\ n \notin holds /\ now[label[n]] # Null /\ p.body = d
    BY <1>3, <1>4, <1>6, <1>7
<1>10. (Planned(label[n]) /\ now[label[n]] # Null /\ d # Null) => p.body = d
    BY <1>4, <1>6, <1>7
<1>11. (n \in holds /\ routing[n] # Null) => p.body \in {Null, assignments[n]}
    BY <1>6, <1>7
<1> QED BY <1>8, <1>9, <1>10, <1>11 DEF d, p, m, r

\* A planned group's record is the one after admission.
LEMMA RecordedState ==
    ASSUME NEW now, NEW blocks, NEW g, Planned(g)
    PROVE  /\ Recorded(now, blocks)[g] = now[g]
           /\ now[g] # Null => BodiesIn(now[g]) \subseteq BodiesOf(Repinned(now))
<1>1. g \in Groups /\ g \in Keys /\ g # Default /\ ~Quarantined(g)
    BY InventoryAssumption DEF Planned, Keys
<1>2. Repinned(now)[g] = now[g] /\ DOMAIN Repinned(now) = Keys
    BY <1>1 DEF Repinned
<1>3. Recorded(now, blocks)[g] = now[g]
    <2> DEFINE adm == Repinned(now)
    <2> HIDE DEF adm
    <2>1. adm[g] = now[g] /\ DOMAIN adm = Keys
        BY <1>2 DEF adm
    <2>2. DefaultRecorded(adm, blocks)[g] = adm[g]
        BY <1>1, <2>1 DEF DefaultRecorded
    <2> QED BY <2>1, <2>2 DEF Recorded, adm
<1>4. now[g] # Null => BodiesIn(now[g]) \subseteq BodiesOf(Repinned(now))
    BY <1>1, <1>2 DEF BodiesOf
<1> QED BY <1>3, <1>4

-----------------------------------------------------------------------------
(***************************************************************************)
(* The budget of one group in one pass.                                    *)
(***************************************************************************)

\* The waiting nodes that are not broken: the second batch is taken from them.
Waiting(g, state, blocks) ==
    {n \in Staged(g, state, blocks) : Evidence(n, At(n, state)) # "broken"}

\* A node is moved by its own group only, in the batch its evidence puts it in.
LEMMA MovedByItsGroup ==
    ASSUME NEW n \in Fleet, NEW now, NEW blocks, Planned(label[n]),
           n \in MovedNodes(now, blocks)
    PROVE  LET g == label[n] state == now[g]
           IN  /\ state # Null /\ state.current \notin blocks
               /\ \/ n \in Promoted(g, state, blocks)
                  \/ Evidence(n, At(n, state)) = "broken"
<1>1. PICK g \in Groups : Planned(g) /\ n \in Moved(g, now[g], blocks)
    BY DEF MovedNodes
<1>2. /\ now[g] # Null /\ now[g].current \notin blocks
      /\ n \in Rescued(g, now[g], blocks) \cup Promoted(g, now[g], blocks)
    BY <1>1 DEF Moved
<1>3. n \in Staged(g, now[g], blocks)
    BY <1>2 DEF Rescued, Promoted, FirstNodes
<1>4. g = label[n]
    BY <1>3 DEF Staged, NodesOf, NodeGroup
<1>5. n \in Rescued(g, now[g], blocks) => Evidence(n, At(n, now[g])) = "broken"
    BY DEF Rescued, FirstNodes
<1> QED BY <1>2, <1>4, <1>5

\* A serving node that its group hands something else was promoted: broken nodes
\* and nodes already on the body are not taken down.
LEMMA OnlyPromotedFall ==
    ASSUME NEW n \in Fleet, NEW now, NEW blocks, Planned(label[n]), n \notin holds,
           n \notin cordons, Placement(n) # Null, Evidence(n, Placement(n)) = "healthy",
           LET d == Handed(n, now[label[n]], blocks, MovedNodes(now, blocks),
                           BodiesOf(Repinned(now)))
           IN  d \notin {Null, Placement(n)}
    PROVE  /\ now[label[n]].current \notin blocks
           /\ n \in Promoted(label[n], now[label[n]], blocks)
<1> DEFINE state == now[label[n]]
<1> HIDE DEF state
<1>1. n \in Keyed /\ On(n, Placement(n))
    BY DEF Evidence
<1>2. \A b : Advanced(n, b) => b \in {Placement(n), Null}
    BY <1>1, HeardOnPlacement
<1>3. At(n, state) \in {Placement(n), Null}
    BY <1>2, WhereANodeIs
<1>4. Evidence(n, At(n, state)) # "broken"
    <2>1. CASE At(n, state) = Placement(n)
        BY <2>1
    <2>2. CASE At(n, state) = Null
        BY <2>2, <1>1 DEF Evidence, On
    <2> QED BY <1>3, <2>1, <2>2
<1>5. n \in MovedNodes(now, blocks)
    <2> SUFFICES ASSUME n \notin MovedNodes(now, blocks) PROVE FALSE
        OBVIOUS
    <2>1. CASE Ungated(n, state, blocks)
        <3>1. CASE Advanced(n, state.current)
            BY <1>2, <2>1, <3>1 DEF Handed, state
        <3>2. CASE At(n, state) = Null /\ state.previous = <<>>
            <4>1. 1 .. Len(state.previous) = {}
                BY SMT, <3>2
            <4>2. At(n, state) = Placement(n)
                BY <4>1 DEF At
            <4> QED BY <3>2, <4>2
        <3> QED BY <2>1, <3>1, <3>2 DEF Ungated
    <2>2. CASE ~Ungated(n, state, blocks)
        BY <1>3, <2>2 DEF Handed, state
    <2> QED BY <2>1, <2>2
<1> QED BY <1>4, <1>5, MovedByItsGroup DEF state

\* A node that was down and is handed something by its group is counted as
\* unavailable, or is promoted, or is heard healthy where it is sent.
LEMMA TheDownAreCounted ==
    ASSUME NEW n \in Fleet, NEW now, NEW blocks, Planned(label[n]), now[label[n]] # Null,
           n \notin cordons, n \in Keyed, assignments[n] # Null, n \notin holds,
           Evidence(n, assignments[n]) # "healthy",
           \A b : On(n, b) => b # Null
    PROVE  LET g == label[n] state == now[g]
               d == Handed(n, state, blocks, MovedNodes(now, blocks), BodiesOf(Repinned(now)))
           IN  \/ n \in UnavailableNodes(g, state, blocks)
               \/ n \in Promoted(g, state, blocks)
               \/ d # Null /\ Evidence(n, d) = "healthy"
<1> DEFINE g == label[n]
           state == now[g]
<1> HIDE DEF state
<1>1. Placement(n) = assignments[n]
    BY DEF Placement
<1>2. \A b : Advanced(n, b) => b # Null
    BY DEF Advanced
<1>3. At(n, state) # Null
    BY <1>1, <1>2, WhereANodeIs
<1>4. n \in NodesOf(g)
    BY DEF NodesOf, NodeGroup
<1>5. \A b : Unavailable(n, b) \/ Evidence(n, b) = "healthy"
    BY DEF Unavailable, Evidence
<1>6. CASE Ungated(n, state, blocks)
    <2>1. JudgedOn(n, state, blocks) = state.current
        BY <1>6 DEF JudgedOn
    <2>2. Advanced(n, state.current)
        BY <1>3, <1>6 DEF Ungated
    <2>3. Handed(n, state, blocks, MovedNodes(now, blocks), BodiesOf(Repinned(now)))
             = state.current
        BY <1>6 DEF Handed
    <2> QED BY <1>2, <1>4, <1>5, <2>1, <2>2, <2>3 DEF UnavailableNodes, state
<1>7. CASE ~Ungated(n, state, blocks)
    <2>1. JudgedOn(n, state, blocks) = At(n, state)
        BY <1>7 DEF JudgedOn
    <2>2. CASE Unavailable(n, At(n, state))
        BY <1>3, <1>4, <2>1, <2>2 DEF UnavailableNodes, state
    <2>3. CASE Evidence(n, At(n, state)) = "healthy" /\ n \in MovedNodes(now, blocks)
        BY <2>3, MovedByItsGroup DEF state
    <2>4. CASE Evidence(n, At(n, state)) = "healthy" /\ n \notin MovedNodes(now, blocks)
        <3>1. At(n, state) \in BodiesOf(Repinned(now))
            BY <1>1, <2>4, WhereANodeIs, RecordedState DEF state
        <3>2. Handed(n, state, blocks, MovedNodes(now, blocks), BodiesOf(Repinned(now)))
                 = At(n, state)
            BY <1>7, <2>4, <3>1 DEF Handed
        <3> QED BY <1>3, <2>4, <3>2 DEF state
    <2> QED BY <1>5, <2>2, <2>3, <2>4
<1> QED BY <1>6, <1>7

\* The second batch only spends what the unavailable nodes leave of the budget.
LEMMA PromotionFits ==
    ASSUME NEW g \in Groups, NEW state, NEW blocks, Promoted(g, state, blocks) # {}
    PROVE  LET down == UnavailableNodes(g, state, blocks) \cup Promoted(g, state, blocks)
           IN  IsFiniteSet(down) /\ Cardinality(down) <= MaxUnavailable[g]
<1> DEFINE U == UnavailableNodes(g, state, blocks)
           P == Promoted(g, state, blocks)
           B == {n \in Staged(g, state, blocks) : Evidence(n, At(n, state)) = "broken"}
           W == Waiting(g, state, blocks)
           R == Rescued(g, state, blocks)
           k == Monus(Monus(MaxUnavailable[g], Cardinality(U)), Cardinality(R))
<1>1. U \in SUBSET Nodes /\ W \in SUBSET Nodes /\ B \in SUBSET Nodes
    BY DEF UnavailableNodes, Waiting, Staged, NodesOf, Fleet
<1>2. MaxUnavailable[g] \in Nat
    BY InventoryAssumption
<1>3. P = FirstNodes(W, k) /\ R = FirstNodes(B, MaxUnavailable[g])
    BY DEF Promoted, Waiting, Rescued
<1> HIDE DEF U, P, B, W, R
<1>4. IsFiniteSet(U) /\ Cardinality(U) \in Nat
    BY <1>1, InventoryAssumption, FS_Subset, FS_CardinalityType
<1>5. IsFiniteSet(R) /\ Cardinality(R) \in Nat
    BY <1>1, <1>2, <1>3, BatchBound, FS_CardinalityType
<1>6. k \in Nat
    BY SMT, <1>2, <1>4, <1>5 DEF Monus
<1>7. IsFiniteSet(P) /\ Cardinality(P) \in Nat /\ Cardinality(P) <= k
    <2> HIDE DEF k
    <2> QED BY <1>1, <1>3, <1>6, BatchBound, FS_CardinalityType
<1>8. Cardinality(P) # 0
    BY <1>7, FS_EmptySet DEF P
<1>9. Cardinality(U) + Cardinality(P) <= MaxUnavailable[g]
    BY SMT, <1>2, <1>4, <1>5, <1>7, <1>8 DEF Monus
<1>10. /\ IsFiniteSet(U \cup P)
       /\ Cardinality(U \cup P) = Cardinality(U) + Cardinality(P) - Cardinality(U \cap P)
    BY <1>4, <1>7, FS_Union
<1>11. Cardinality(U \cap P) \in Nat
    BY <1>4, FS_Subset, FS_CardinalityType
<1>12. Cardinality(U \cup P) <= MaxUnavailable[g]
    BY SMT, <1>2, <1>4, <1>7, <1>9, <1>10, <1>11
<1> QED BY <1>10, <1>12 DEF U, P

-----------------------------------------------------------------------------
(***************************************************************************)
(* The invariant.                                                          *)
(***************************************************************************)

\* The nodes labelled for a group, planned or not: a node that was taken down
\* stays on the account of its label while the group is quarantined or deleted.
Labelled(g) == {n \in Nodes : label[n] = g}

RolloutInv ==
    /\ label \in [Nodes -> Keys \cup {Null}]
    /\ report = [n \in Nodes |-> report[n]]
    /\ \A n \in Nodes : report[n] # Null =>
          "assignment" \in DOMAIN report[n] /\ report[n].assignment # Null
    /\ \A n \in Nodes : assignments[n] # Null => label[n] # Null /\ routing[n] # Null
    /\ disrupted \subseteq Nodes
    /\ \A n \in disrupted : n \in Keyed /\ n \notin cordons /\ assignments[n] # Null
    /\ \A g \in Groups : Cardinality(disrupted \cap Labelled(g)) <= MaxUnavailable[g]

\* A set of nodes within another that fits a budget fits it.
LEMMA WithinBudget ==
    ASSUME NEW S, NEW T, IsFiniteSet(T), S \subseteq T, NEW k \in Nat, Cardinality(T) <= k
    PROVE  Cardinality(S) <= k
<1>1. Cardinality(S) <= Cardinality(T)
    BY FS_Subset
<1>2. Cardinality(S) \in Nat /\ Cardinality(T) \in Nat
    BY FS_Subset, FS_CardinalityType
<1> QED BY SMT, <1>1, <1>2

\* At the start nothing was taken down.
LEMMA RolloutInvInit == Init => RolloutInv
<1> SUFFICES ASSUME Init PROVE RolloutInv
    OBVIOUS
<1>1. \A g \in Groups : Cardinality(disrupted \cap Labelled(g)) <= MaxUnavailable[g]
    <2> SUFFICES ASSUME NEW g \in Groups
                 PROVE  Cardinality(disrupted \cap Labelled(g)) <= MaxUnavailable[g]
        OBVIOUS
    <2>1. disrupted \cap Labelled(g) = {} /\ MaxUnavailable[g] \in Nat
        BY InventoryAssumption DEF Init
    <2> QED BY SMT, <2>1, FS_EmptySet
<1> QED BY <1>1, LabelAssumption DEF Init, RolloutInv

\* The invariant is about the labels, the reports, the placements and the nodes
\* taken down: it survives a step that only takes nodes off that last list.
LEMMA FewerDisrupted ==
    ASSUME RolloutInv, UNCHANGED <<assignments, routing>>, disrupted' \subseteq disrupted,
           label' \in [Nodes -> Keys \cup {Null}],
           \A n \in Nodes : label[n] # Null => label'[n] # Null,
           \A n \in disrupted' : label'[n] = label[n],
           \A n \in disrupted' : n \notin cordons',
           report' = [n \in Nodes |-> report'[n]],
           \A n \in Nodes : report'[n] # Null =>
              "assignment" \in DOMAIN report'[n] /\ report'[n].assignment # Null
    PROVE  RolloutInv'
<1>1. ASSUME NEW g \in Groups
      PROVE  Cardinality(disrupted' \cap Labelled(g)') <= MaxUnavailable[g]
    <2>1. disrupted' \cap Labelled(g)' \subseteq disrupted \cap Labelled(g)
        BY DEF Labelled
    <2>2. IsFiniteSet(disrupted \cap Labelled(g))
        BY InventoryAssumption, FS_Subset DEF RolloutInv
    <2>3. MaxUnavailable[g] \in Nat /\ Cardinality(disrupted \cap Labelled(g)) <= MaxUnavailable[g]
        BY InventoryAssumption DEF RolloutInv
    <2> QED BY <2>1, <2>2, <2>3, WithinBudget
<1> QED BY <1>1 DEF RolloutInv

-----------------------------------------------------------------------------
(***************************************************************************)
(* A pass.                                                                 *)
(***************************************************************************)

\* A pass leaves the last generation as it is, or publishes a new one in which
\* no node with routing is left without a body.
PassPublishes(now, blocks) ==
    /\ admitted' = Recorded(now, blocks)
    /\ \A n \in Fleet : /\ assignments'[n] = Published(n, now, blocks).body
                        /\ routing[n] # Null => assignments'[n] # Null
    /\ \A n \in Nodes \ Fleet : assignments'[n] = Null
    /\ \A n \in Nodes : routing'[n] = IF assignments'[n] = Null THEN Null
                                      ELSE Published(n, now, blocks).group

\* A pass that publishes has the effect above, for some state after admission.
LEMMA PassEffect ==
    ASSUME Reconcile
    PROVE  /\ UNCHANGED <<spec, label, default, holds, cordons, report, unread>>
           /\ disrupted' = {n \in (disrupted \ Serving) \cup TakenDown(assignments', routing') :
                              assignments'[n] # Null => Evidence(n, assignments'[n]) # "healthy"}
           /\ \/ UNCHANGED <<admitted, assignments, routing>>
              \/ \E now, blocks : PassPublishes(now, blocks)
<1>1. PICK now, blocks :
        /\ Plan.admitted = Recorded(now, blocks)
        /\ Plan.generation = [n \in Fleet |-> Published(n, now, blocks)]
        /\ ~Plan.faults => \A n \in Fleet : routing[n] # Null => Plan.generation[n].body # Null
    BY PassShape
<1> DEFINE handed == [n \in Nodes |-> IF n \in Fleet THEN Plan.generation[n].body ELSE Null]
           routes == [n \in Nodes |-> IF handed[n] = Null THEN Null ELSE Plan.generation[n].group]
<1>2. /\ admitted' = Outcome.admitted
      /\ assignments' = Outcome.assignments
      /\ routing' = Outcome.routing
    BY DEF Reconcile
<1>3. /\ UNCHANGED <<spec, label, default, holds, cordons, report, unread>>
      /\ disrupted' = {n \in (disrupted \ Serving) \cup TakenDown(assignments', routing') :
                         assignments'[n] # Null => Evidence(n, assignments'[n]) # "healthy"}
    BY <1>2 DEF Reconcile, operatorVars, nodeVars
<1>4. CASE Plan.faults
    BY <1>2, <1>3, <1>4 DEF Outcome
<1>5. CASE ~Plan.faults
    <2>1. /\ admitted' = Recorded(now, blocks)
          /\ assignments' = handed
          /\ routing' = routes
        BY <1>1, <1>2, <1>5 DEF Outcome
    <2>2. Fleet \subseteq Nodes
        BY DEF Fleet
    <2>3. \A n \in Fleet : handed[n] = Published(n, now, blocks).body
        BY <1>1, <2>2
    <2>4. \A n \in Nodes : handed[n] # Null =>
              n \in Fleet /\ Plan.generation[n] = Published(n, now, blocks)
        BY <1>1
    <2>5. PassPublishes(now, blocks)
        BY <1>1, <1>5, <2>1, <2>2, <2>3, <2>4 DEF PassPublishes
    <2> QED BY <1>3, <2>5
<1> QED BY <1>4, <1>5

\* In a pass that publishes, a node taken down belongs to a planned group that
\* promoted it.
LEMMA TakenDownWasPromoted ==
    ASSUME RolloutInv, NEW now, NEW blocks, PassPublishes(now, blocks),
           NEW n \in TakenDown(assignments', routing')
    PROVE  /\ n \in Fleet /\ Planned(label[n]) /\ n \in Keyed /\ n \notin cordons
           /\ assignments'[n] # Null /\ now[label[n]] # Null
           /\ n \in Promoted(label[n], now[label[n]], blocks)
<1> DEFINE p == Published(n, now, blocks)
           d == Handed(n, now[label[n]], blocks, MovedNodes(now, blocks),
                       BodiesOf(Repinned(now)))
<1> HIDE DEF p, d
<1>1. /\ n \in Fleet /\ n \in Nodes /\ n \notin cordons
      /\ assignments'[n] \notin {Null, Placement(n)}
      /\ Placement(n) # Null
      /\ Evidence(n, Placement(n)) = "healthy"
      /\ routing'[n] # Default
    BY DEF TakenDown, Fleet
<1>2. assignments'[n] = p.body /\ routing'[n] = p.group
    BY <1>1 DEF PassPublishes, p
<1>3. n \in Keyed
    BY <1>1 DEF Evidence
<1>4. p.body # assignments[n]
    BY <1>1, <1>2 DEF Placement
<1>5. Planned(label[n]) /\ n \notin holds /\ now[label[n]] # Null /\ p.body = d
    BY <1>1, <1>2, <1>4, WhatIsPublished DEF p, d
<1>6. n \in Promoted(label[n], now[label[n]], blocks)
    BY <1>1, <1>2, <1>5, OnlyPromotedFall DEF d
<1> QED BY <1>1, <1>3, <1>5, <1>6

\* A node of a planned group that stays on the list of those taken down is
\* unavailable or promoted: assign_nodes charges it to the group.
LEMMA StillDownIsCharged ==
    ASSUME RolloutInv, NEW now, NEW blocks, PassPublishes(now, blocks),
           NEW n \in disrupted \ Serving, Planned(label[n]), now[label[n]] # Null,
           assignments'[n] # Null => Evidence(n, assignments'[n]) # "healthy"
    PROVE  n \in UnavailableNodes(label[n], now[label[n]], blocks)
                   \cup Promoted(label[n], now[label[n]], blocks)
<1> DEFINE state == now[label[n]]
           d == Handed(n, state, blocks, MovedNodes(now, blocks), BodiesOf(Repinned(now)))
<1> HIDE DEF d
<1>1. /\ n \in Nodes /\ n \in Keyed /\ n \notin cordons /\ assignments[n] # Null
      /\ label[n] # Null /\ n \in Fleet
    BY DEF RolloutInv, Fleet
<1>2. Placement(n) = assignments[n]
    BY <1>1 DEF Placement
<1>3. Evidence(n, assignments[n]) # "healthy"
    BY <1>1, <1>2 DEF Serving
<1>4. CASE n \in holds
    <2>1. JudgedOn(n, state, blocks) = assignments[n]
        BY <1>1, <1>2, <1>4 DEF JudgedOn
    <2>2. Unavailable(n, assignments[n])
        BY <1>1, <1>3 DEF Unavailable, Evidence
    <2>3. n \in NodesOf(label[n])
        BY <1>1 DEF NodesOf, NodeGroup
    <2> QED BY <1>1, <2>1, <2>2, <2>3 DEF UnavailableNodes
<1>5. CASE n \notin holds
    <2>1. \A b : On(n, b) => b # Null
        BY <1>1 DEF RolloutInv, On, Fresh, Authentic
    <2>2. \/ n \in UnavailableNodes(label[n], state, blocks)
          \/ n \in Promoted(label[n], state, blocks)
          \/ d # Null /\ Evidence(n, d) = "healthy"
        BY <1>1, <1>3, <1>5, <2>1, TheDownAreCounted DEF d
    <2>3. d # Null => assignments'[n] = d
        BY SMT, <1>1, WhatIsPublished DEF PassPublishes, d
    <2> QED BY <2>2, <2>3
<1> QED BY <1>4, <1>5

\* A pass keeps every group within its budget.
LEMMA PassKeepsBudget ==
    ASSUME RolloutInv, Reconcile
    PROVE  RolloutInv'
<1>1. /\ UNCHANGED <<spec, label, default, holds, cordons, report, unread>>
      /\ disrupted' = {n \in (disrupted \ Serving) \cup TakenDown(assignments', routing') :
                         assignments'[n] # Null => Evidence(n, assignments'[n]) # "healthy"}
    BY PassEffect
<1>2. CASE UNCHANGED <<admitted, assignments, routing>>
    <2>1. TakenDown(assignments', routing') = {}
        BY <1>2 DEF TakenDown, Placement
    <2>2. disrupted' \subseteq disrupted
        BY <1>1, <2>1
    <2> QED BY <1>1, <1>2, <2>2, FewerDisrupted DEF RolloutInv
<1>3. ASSUME NEW now, NEW blocks, PassPublishes(now, blocks)
      PROVE  RolloutInv'
    <2>1. \A n \in Nodes : assignments'[n] # Null => label'[n] # Null /\ routing'[n] # Null
        <3> SUFFICES ASSUME NEW n \in Nodes, assignments'[n] # Null
                     PROVE  label'[n] # Null /\ routing'[n] # Null
            OBVIOUS
        <3>1. n \in Fleet
            BY <1>3 DEF PassPublishes
        <3> QED BY SMT, <1>1, <1>3, <3>1, WhatIsPublished DEF PassPublishes, Fleet
    <2>2. \A n \in disrupted' :
              n \in Nodes /\ n \in Keyed /\ n \notin cordons /\ assignments'[n] # Null
        <3> SUFFICES ASSUME NEW n \in disrupted'
                     PROVE  n \in Nodes /\ n \in Keyed /\ n \notin cordons /\ assignments'[n] # Null
            OBVIOUS
        <3>1. CASE n \in disrupted
            BY <1>3, <3>1 DEF RolloutInv, PassPublishes, Fleet
        <3>2. CASE n \in TakenDown(assignments', routing')
            BY <1>3, <3>2, TakenDownWasPromoted DEF Fleet
        <3> QED BY <1>1, <3>1, <3>2
    <2>3. ASSUME NEW g \in Groups
          PROVE  Cardinality(disrupted' \cap Labelled(g)') <= MaxUnavailable[g]
        <3>1. Labelled(g)' = Labelled(g) /\ MaxUnavailable[g] \in Nat
            BY <1>1, InventoryAssumption DEF Labelled
        <3>2. CASE TakenDown(assignments', routing') \cap Labelled(g) = {}
            <4>1. disrupted' \cap Labelled(g) \subseteq disrupted \cap Labelled(g)
                BY <1>1, <3>2
            <4>2. IsFiniteSet(disrupted \cap Labelled(g))
                BY InventoryAssumption, FS_Subset DEF RolloutInv
            <4>3. Cardinality(disrupted \cap Labelled(g)) <= MaxUnavailable[g]
                BY DEF RolloutInv
            <4> QED BY <3>1, <4>1, <4>2, <4>3, WithinBudget
        <3>3. CASE TakenDown(assignments', routing') \cap Labelled(g) # {}
            <4> DEFINE down == UnavailableNodes(g, now[g], blocks) \cup Promoted(g, now[g], blocks)
            <4>1. Planned(g) /\ now[g] # Null /\ Promoted(g, now[g], blocks) # {}
                BY <1>3, <3>3, TakenDownWasPromoted DEF Labelled
            <4>2. IsFiniteSet(down) /\ Cardinality(down) <= MaxUnavailable[g]
                BY <4>1, PromotionFits
            <4>3. ASSUME NEW n \in disrupted' \cap Labelled(g) PROVE n \in down
                <5>1. label[n] = g
                    BY DEF Labelled
                <5>2. CASE n \in disrupted \ Serving
                    BY <1>1, <1>3, <4>1, <5>1, <5>2, StillDownIsCharged
                <5>3. CASE n \in TakenDown(assignments', routing')
                    BY <1>3, <5>1, <5>3, TakenDownWasPromoted
                <5> QED BY <1>1, <5>2, <5>3
            <4> HIDE DEF down
            <4> QED BY <3>1, <4>2, <4>3, WithinBudget
        <3> QED BY <3>2, <3>3
    <2> QED BY <1>1, <2>1, <2>2, <2>3 DEF RolloutInv
<1> QED BY <1>2, <1>3, PassEffect

-----------------------------------------------------------------------------
(***************************************************************************)
(* The other steps.                                                        *)
(***************************************************************************)

\* A node's report takes nodes off the list only, and names what it was handed.
LEMMA ReportKeepsBudget ==
    ASSUME RolloutInv, NEW n \in Nodes, Node(n)
    PROVE  RolloutInv'
<1>1. ASSUME NEW archive, NEW healthy, Uploads(n, archive, healthy) PROVE RolloutInv'
    <2>1. /\ UNCHANGED <<label, cordons, assignments, routing>>
          /\ disrupted' \subseteq disrupted
          /\ assignments[n] # Null
        BY <1>1 DEF Uploads, operatorVars, planVars, durableVars
    <2>2. /\ report' = [m \in Nodes |-> report'[m]]
          /\ \A m \in Nodes : report'[m] # Null =>
                "assignment" \in DOMAIN report'[m] /\ report'[m].assignment # Null
        BY <1>1, <2>1 DEF Uploads, RolloutInv
    <2> QED BY <2>1, <2>2, FewerDisrupted DEF RolloutInv
<1>2. CASE Reports(n)
    BY <1>1, <1>2 DEF Reports, Fetched, Converges, Breaks, Rejects
<1>3. CASE Lapses(n)
    <2>1. UNCHANGED <<label, cordons, assignments, routing, disrupted>>
        BY <1>3 DEF Lapses, operatorVars, planVars, durableVars
    <2>2. /\ report' = [m \in Nodes |-> report'[m]]
          /\ \A m \in Nodes : report'[m] # Null =>
                "assignment" \in DOMAIN report'[m] /\ report'[m].assignment # Null
        BY <1>3 DEF Lapses, RolloutInv
    <2> QED BY <2>1, <2>2, FewerDisrupted DEF RolloutInv
<1>4. CASE Unserved(n) \/ Served(n)
    <2>1. UNCHANGED <<label, cordons, assignments, routing, disrupted, report>>
        BY <1>4 DEF Unserved, Served, operatorVars, nodeVars, planVars, durableVars
    <2> QED BY <2>1, FewerDisrupted DEF RolloutInv
<1> QED BY <1>2, <1>3, <1>4 DEF Node

\* No edit of the operator takes a node down.
LEMMA EditKeepsBudget ==
    ASSUME RolloutInv, Operator
    PROVE  RolloutInv'
<1>1. UNCHANGED <<assignments, routing, report>>
    BY DEF Operator, Retarget, Create, Break, Delete, Relabel, ToggleHold, ToggleCordon,
           Redefault, ToggleBlock, ToggleSchedule, Edit, nodeVars, planVars, durableVars
<1>2. CASE UNCHANGED <<label, cordons, disrupted>>
    BY <1>1, <1>2, FewerDisrupted DEF RolloutInv
<1>3. ASSUME NEW n \in Nodes, NEW k \in Labels, Relabel(n, k) PROVE RolloutInv'
    <2>1. /\ label' = [label EXCEPT ![n] = k] /\ k \in Keys /\ k # Null
          /\ disrupted' = disrupted \ {n} /\ UNCHANGED cordons
        BY <1>3, LabelAssumption, InventoryAssumption DEF Relabel
    <2>2. /\ label' \in [Nodes -> Keys \cup {Null}]
          /\ \A m \in Nodes : label[m] # Null => label'[m] # Null
          /\ \A m \in disrupted' : label'[m] = label[m]
        BY <2>1 DEF RolloutInv
    <2> QED BY <1>1, <2>1, <2>2, FewerDisrupted DEF RolloutInv
<1>4. ASSUME NEW n \in Nodes, ToggleCordon(n) PROVE RolloutInv'
    <2>1. /\ UNCHANGED label /\ disrupted' = disrupted \ {n}
          /\ \A m \in disrupted' : m \notin cordons'
        BY <1>4 DEF ToggleCordon, RolloutInv
    <2> QED BY <1>1, <2>1, FewerDisrupted DEF RolloutInv
<1>5. \/ UNCHANGED <<label, cordons, disrupted>>
      \/ \E n \in Nodes, k \in Labels : Relabel(n, k)
      \/ \E n \in Nodes : ToggleCordon(n)
    BY DEF Operator, Retarget, Create, Break, Delete, ToggleHold, Redefault, ToggleBlock,
           ToggleSchedule
<1> QED BY <1>2, <1>3, <1>4, <1>5

\* No pass, report, edit, failed publication or restart overdraws a group's account.
LEMMA RolloutInvStep == RolloutInv /\ [Next]_vars => RolloutInv'
<1> SUFFICES ASSUME RolloutInv, [Next]_vars PROVE RolloutInv'
    OBVIOUS
<1>1. CASE Reconcile
    BY <1>1, PassKeepsBudget
<1>2. CASE PublicationFails \/ Restart \/ UNCHANGED vars
    <2>1. UNCHANGED <<label, cordons, assignments, routing, disrupted, report>>
        BY <1>2 DEF PublicationFails, Restart, vars, operatorVars, nodeVars, planVars, durableVars
    <2> QED BY <2>1, FewerDisrupted DEF RolloutInv
<1> QED BY <1>1, <1>2, ReportKeepsBudget, EditKeepsBudget DEF Next, Plane

\* The accounts are in order in every behaviour of the control plane.
LEMMA RolloutInvHolds == Spec => []RolloutInv
BY RolloutInvInit, RolloutInvStep, PTL DEF Spec

\* maxUnavailable is kept in every run: assign_nodes charges every node that
\* earlier passes took down to the group that gates it, so what it promotes on
\* top of them never exceeds the budget, whatever the operator edits, the
\* reports that are lost or late, the passes that fail and the restarts.
THEOREM BudgetAlwaysKept == Spec => []BudgetKept
<1>1. ASSUME RolloutInv PROVE BudgetKept
    <2> SUFFICES ASSUME NEW g \in Groups
                 PROVE  Cardinality(disrupted \cap NodesOf(g)) <= MaxUnavailable[g]
        BY DEF BudgetKept
    <2>1. disrupted \cap NodesOf(g) \subseteq disrupted \cap Labelled(g)
        BY InventoryAssumption DEF NodesOf, NodeGroup, Fleet, Labelled
    <2>2. IsFiniteSet(disrupted \cap Labelled(g))
        BY <1>1, InventoryAssumption, FS_Subset DEF RolloutInv
    <2>3. MaxUnavailable[g] \in Nat /\ Cardinality(disrupted \cap Labelled(g)) <= MaxUnavailable[g]
        BY <1>1, InventoryAssumption DEF RolloutInv
    <2> QED BY <2>1, <2>2, <2>3, WithinBudget
<1> QED BY <1>1, RolloutInvHolds, PTL

\* One pass moves a published node to the body its group was admitted to, to the
\* default, or to where it reports to be.
LEMMA PassMovesForward ==
    ASSUME RolloutInv, Reconcile, NEW n \in Nodes, assignments[n] # Null,
           assignments'[n] # assignments[n]
    PROVE  \/ Planned(label[n]) /\ admitted'[label[n]].current = assignments'[n]
           \/ routing'[n] = Default /\ assignments'[n] = default
           \/ On(n, assignments'[n])
<1>1. PICK now, blocks : PassPublishes(now, blocks)
    BY PassEffect
<1> DEFINE p == Published(n, now, blocks)
           state == now[label[n]]
           d == Handed(n, state, blocks, MovedNodes(now, blocks), BodiesOf(Repinned(now)))
<1> HIDE DEF p, state, d
<1>2. n \in Fleet /\ routing[n] # Null
    BY DEF RolloutInv, Fleet
<1>3. assignments'[n] = p.body /\ p.body # Null /\ routing'[n] = p.group
    BY <1>1, <1>2 DEF PassPublishes, p
<1>4. \/ p.body = default /\ p.group = Default
      \/ Planned(label[n]) /\ n \notin holds /\ state # Null /\ p.body = d
    BY <1>2, <1>3, WhatIsPublished DEF p, d, state
<1>5. CASE p.body = default /\ p.group = Default
    BY <1>3, <1>5
<1>6. CASE Planned(label[n]) /\ state # Null /\ p.body = d
    <2>1. d \in {state.current, At(n, state), Null}
        BY DEF Handed, d
    <2>2. CASE d = state.current
        <3>1. admitted'[label[n]] = state
            BY SMT, <1>1, <1>6, RecordedState DEF PassPublishes, state
        <3> QED BY <1>3, <1>6, <2>2, <3>1
    <2>3. CASE d = At(n, state)
        <3>1. Placement(n) = assignments[n]
            BY DEF Placement
        <3>2. Advanced(n, d)
            BY <1>3, <1>6, <2>3, <3>1, WhereANodeIs
        <3> QED BY <1>3, <1>6, <3>2 DEF Advanced
    <2> QED BY <1>3, <1>6, <2>1, <2>2, <2>3
<1> QED BY <1>4, <1>5, <1>6

\* A published node only ever moves forward, in every run: no pass hands a node
\* a predecessor, or anything else its group was not admitted to, unless the node
\* is already there.
THEOREM NodesOnlyMoveForward == Spec => MovesOnlyForward
<1> DEFINE Forward == \A n \in Nodes :
          assignments[n] # Null /\ assignments'[n] # assignments[n] =>
             \/ Planned(label[n]) /\ admitted'[label[n]].current = assignments'[n]
             \/ routing'[n] = Default /\ assignments'[n] = default
             \/ On(n, assignments'[n])
<1>1. ASSUME RolloutInv, [Next]_vars PROVE [Forward]_vars
    <2>1. CASE Reconcile
        BY <1>1, <2>1, PassMovesForward
    <2>2. CASE PublicationFails \/ Restart \/ UNCHANGED vars
        BY <2>2 DEF PublicationFails, Restart, vars, planVars, durableVars
    <2>3. ASSUME NEW n \in Nodes, Node(n) PROVE UNCHANGED assignments
        BY <2>3 DEF Node, Reports, Fetched, Converges, Breaks, Rejects, Uploads, Lapses,
                    Unserved, Served, planVars, durableVars
    <2>4. CASE Operator
        BY <2>4 DEF Operator, Retarget, Create, Break, Delete, Relabel, ToggleHold, ToggleCordon,
                    Redefault, ToggleBlock, ToggleSchedule, Edit, planVars, durableVars
    <2> QED BY <1>1, <2>1, <2>2, <2>3, <2>4 DEF Next, Plane
<1>2. RolloutInv /\ [Next]_vars => [Forward]_vars
    BY <1>1
<1> QED BY <1>2, RolloutInvHolds, PTL DEF Spec, MovesOnlyForward
=============================================================================
