--------------------------- MODULE RolloutPlanner ---------------------------
(***************************************************************************)
(* The planner of the control plane: one pass of plan_reconcile            *)
(* (updatec/src/domain.rs) and of the plan_rollouts it calls               *)
(* (updatec/src/rollout.rs).  A pass is a pure function of the operator's  *)
(* resources, the reports the store serves, the durable rollout state and  *)
(* the in-memory rejection log, so this module has no action: it defines,  *)
(* in the order the code computes them, what the pass decides.  The module *)
(* Rollout runs passes against an operator and a fleet.                    *)
(*                                                                         *)
(* A deployment body stands for its identity (the digest of the published  *)
(* configuration); Archive maps it to the application archive it installs. *)
(***************************************************************************)
EXTENDS Naturals, Sequences, FiniteSets, SequencesExt

CONSTANTS
    Nodes, Groups, Sets, Bodies, Null,
    Default,        \* the reserved group of nodes that match no UpdateGroup
    Invalid,        \* a group whose spec is quarantined, selector usable
    Unselective,    \* a group quarantined for its empty selector
    NodeOrder,      \* the node names in order
    GroupOrder,     \* the group names in order
    Archive,        \* body -> the application archive it installs
    Restored,       \* <<current, previous>> -> what rollback_to builds, or Null
    Keyed,          \* nodes with a pinned public key; the others are blind
    Members,        \* set -> the groups its selector matches
    MaxConcurrent,  \* set -> spec.maxConcurrent
    MaxRegressions, \* set -> spec.maxRegressions
    RollbackSets,   \* sets with onRegression: rollback
    DependsOn,      \* group -> the groups it depends on
    MaxUnavailable, \* group -> spec.maxUnavailable
    Emergency       \* groups with spec.emergencyCorrection

VARIABLES
    spec,        \* group -> desired body, Null (no such group), Invalid, Unselective
    label,       \* node -> the group its labels select, Default, or Null (not enrolled)
    default,     \* the repository's defaultDeployment
    holds,       \* nodes with spec.hold
    cordons,     \* nodes with spec.cordon
    external,    \* bodies the admission policy blocks
    open,        \* sets inside their schedule
    report,      \* node -> its report in the store, or Null
    unread,      \* nodes whose report object the store does not serve now
    admitted,    \* durable: group or Default -> [current, previous], or Null
    vetoed,      \* durable: bodies vetoed by a rollback
    routing,     \* durable: node -> the group the last generation routed it to
    assignments, \* durable: node -> the body the last generation handed it
    rejections   \* in memory: <<node, body>> claims of a durable rejection

Keys == Groups \cup {Default}

\* The names are distinct and no group has the reserved name.
ASSUME InventoryAssumption ==
    /\ IsFiniteSet(Nodes)
    /\ NodeOrder \in Seq(Nodes)
    /\ \A n \in Nodes : \E i \in DOMAIN NodeOrder : NodeOrder[i] = n
    /\ \A i, j \in DOMAIN NodeOrder : NodeOrder[i] = NodeOrder[j] => i = j
    /\ Default \notin Groups /\ Null \notin Keys
    /\ MaxUnavailable \in [Groups -> Nat]

Before(s, x, y) == \E i, j \in DOMAIN s : i < j /\ s[i] = x /\ s[j] = y
Monus(a, b) == IF a > b THEN a - b ELSE 0

\* The first k elements of a set of nodes, in name order.
FirstNodes(S, k) == {n \in S : Cardinality({m \in S : Before(NodeOrder, m, n)}) < k}

-----------------------------------------------------------------------------
(***************************************************************************)
(* Inventory.                                                              *)
(***************************************************************************)

\* A group is quarantined, and absent from the plan, when its spec does not
\* parse or it depends on a group that does not exist.
Quarantined(g) ==
    \/ spec[g] \in {Invalid, Unselective}
    \/ spec[g] # Null /\ \E d \in DependsOn[g] : spec[d] = Null

Planned(g) == g \in Groups /\ spec[g] # Null /\ ~Quarantined(g)

Fleet == {n \in Nodes : label[n] # Null}

\* resolve_node_groups: a node whose group is not in the plan matches nothing.
NodeGroup(n) == IF Planned(label[n]) THEN label[n] ELSE Default
NodesOf(g) == {n \in Fleet : NodeGroup(n) = g}

\* DesiredState::quarantined_group.
Withheld(n) ==
    /\ label[n] \in Groups
    /\ Quarantined(label[n])
    /\ spec[label[n]] # Unselective

PlannedMembers(s) == {g \in Members[s] : Planned(g)}
Governing(g) == {s \in Sets : g \in Members[s]}

-----------------------------------------------------------------------------
(***************************************************************************)
(* Observations.                                                           *)
(***************************************************************************)

\* An authentic report of any age, and one inside the freshness window.
Authentic(n) == n \in Keyed /\ report[n] # Null /\ n \notin unread
Fresh(n) == Authentic(n) /\ report[n].fresh
On(n, b) == Fresh(n) /\ report[n].assignment = b

Evidence(n, b) ==
    IF n \notin Keyed THEN "blind"
    ELSE IF ~On(n, b) THEN "silent"
    ELSE IF report[n].healthy THEN "healthy" ELSE "broken"

Unavailable(n, b) == Evidence(n, b) \in {"broken", "silent"}

\* Handed b by the last generation, or reporting it.
Advanced(n, b) == assignments[n] = b \/ On(n, b)

Placement(n) ==
    IF assignments[n] # Null THEN assignments[n]
    ELSE IF Fresh(n) THEN report[n].assignment ELSE Null

Converged(n, b) ==
    /\ On(n, b)
    /\ report[n].healthy
    /\ ~report[n].rejected
    /\ report[n].archive = Archive[b]

PlacedAnywhere(b) == \E n \in Fleet : Advanced(n, b)
FullyHanded(g, b) == \A n \in NodesOf(g) \ cordons : Advanced(n, b)

\* One walk over the nodes of a group, against its admitted body.  mv is the
\* pass's movement verdict.
Observe(g, adm, mv) ==
    LET b        == adm[g].current
        judged   == NodesOf(g) \ cordons
        rejected == judged \cap mv.proofs[b]
        pending  == {n \in judged \ rejected : ~Advanced(n, b)}
        handed   == ((judged \ rejected) \ pending) \cap Keyed
        halted   == b \in mv.blocked
    IN  [moving     |-> \/ pending # {} /\ ~halted
                        \/ \E n \in handed : ~Converged(n, b),
         failed     |-> rejected # {},
         blocked    |-> pending # {} /\ halted,
         observable |-> rejected # {} \/ handed # {},
         halted     |-> halted]

GroupProgress(o) ==
    CASE o.moving     -> "rolling"
      [] ~o.moving /\ o.failed -> "failed"
      [] ~o.moving /\ ~o.failed /\ o.blocked -> "blocked"
      [] ~o.moving /\ ~o.failed /\ ~o.blocked /\ o.observable -> "settled"
      [] OTHER -> "unobservable"

HoldsSlot(g, adm, mv) ==
    adm[g] # Null /\ LET o == Observe(g, adm, mv) IN o.moving /\ ~o.halted

\* Variant: a prerequisite counts as landed once it is admitted.
MutClassifyAdmitted(g, adm, mv) ==
    IF Planned(g) /\ adm[g] # Null /\ adm[g].current = spec[g] THEN "settled" ELSE "held"

Classify(g, adm, mv) ==
    IF Planned(g) /\ adm[g] # Null /\ adm[g].current = spec[g]
    THEN GroupProgress(Observe(g, adm, mv)) ELSE "held"

-----------------------------------------------------------------------------
(***************************************************************************)
(* Retention of bodies.                                                    *)
(***************************************************************************)

Chain(state) == <<state.current>> \o state.previous
BodiesIn(state) == {state.current} \cup {state.previous[i] : i \in 1 .. Len(state.previous)}
BodiesOf(adm) == UNION {BodiesIn(adm[k]) : k \in {j \in Keys : adm[j] # Null}}

\* A group that is gone keeps the bodies some node is still on.
RetireDeletedGroups(adm) ==
    [k \in Keys |->
        IF adm[k] = Null \/ Planned(k) THEN adm[k]
        ELSE LET live == SelectSeq(Chain(adm[k]), PlacedAnywhere)
             IN  IF live = <<>> THEN Null
                 ELSE [current |-> Head(live), previous |-> Tail(live)]]

\* Predecessors nobody is on, or that some current provides, are retired;
\* while the rollout still stages its list is never emptied.
FinishStagedRollouts(adm) ==
    LET provided  == {adm[k].current : k \in {j \in Keys : adm[j] # Null}}
        Needed(b) == PlacedAnywhere(b) /\ b \notin provided
    IN  [k \in Keys |->
            IF adm[k] = Null \/ ~Planned(k) THEN adm[k]
            ELSE LET live == SelectSeq(adm[k].previous, Needed)
                 IN  IF FullyHanded(k, adm[k].current) \/ live # <<>>
                     THEN [adm[k] EXCEPT !.previous = live]
                     ELSE [adm[k] EXCEPT !.previous =
                              SubSeq(@, 1, IF @ = <<>> THEN 0 ELSE 1)]]

-----------------------------------------------------------------------------
(***************************************************************************)
(* The regression verdict.                                                 *)
(***************************************************************************)

Desired == {spec[g] : g \in {h \in Groups : Planned(h)}}
\* Variant: only admitted bodies are remembered, not the desired ones.
MutLiveAdmitted(adm) == BodiesOf(adm)

LiveBodies(adm) == BodiesOf(adm) \cup Desired

\* note_rejection for every node.
Claims == {<<n, report[n].assignment>> :
              n \in {m \in Fleet : Authentic(m) /\ report[m].rejected}}

Provers(claims, b) == {n \in Nodes : <<n, b>> \in claims}
Candidates(adm) == {adm[k].current : k \in {j \in Keys : adm[j] # Null}} \cup Desired

NamedIdentities(g, adm) ==
    {spec[g]} \cup (IF adm[g] = Null THEN {} ELSE {adm[g].current})

\* The tightest maxRegressions of the sets whose members name the body.
Threshold(b, adm) ==
    LET naming == {s \in Sets : \E g \in PlannedMembers(s) : b \in NamedIdentities(g, adm)}
    IN  IF naming = {} THEN 1
        ELSE CHOOSE t \in {MaxRegressions[s] : s \in naming} :
                \A s \in naming : t <= MaxRegressions[s]

Halts(adm, claims, vetoes) ==
    vetoes \cup {b \in Candidates(adm) :
                    /\ Provers(claims, b) # {}
                    /\ Cardinality(Provers(claims, b)) >= Threshold(b, adm)}

Movement(adm, claims, vetoes) ==
    [proofs  |-> [b \in Bodies |-> IF b \in Candidates(adm) THEN Provers(claims, b) ELSE {}],
     halts   |-> Halts(adm, claims, vetoes),
     blocked |-> external \cup Halts(adm, claims, vetoes)]

-----------------------------------------------------------------------------
(***************************************************************************)
(* onRegression: rollback.                                                 *)
(***************************************************************************)

RollbackGroups ==
    {g \in Groups : Planned(g) /\ Governing(g) # {} /\ Governing(g) \subseteq RollbackSets}

RollbackTargets(state, blocks) ==
    {i \in DOMAIN state.previous :
        LET old == state.previous[i] new == Restored[<<state.current, old>>]
        IN  new # Null /\ old \notin blocks /\ new \notin blocks}

\* Every prover this rebase moves has moved off the body or is healthy again.
Recovered(g, b, mv) ==
    \A n \in mv.proofs[b] \cap NodesOf(g) :
        /\ Fresh(n)
        /\ report[n].assignment = b => report[n].healthy /\ report[n].rejected

Rebases(adm, mv) ==
    {g \in RollbackGroups :
        /\ adm[g] # Null
        /\ adm[g].current \in mv.halts
        /\ RollbackTargets(adm[g], mv.blocked) # {}
        /\ Recovered(g, adm[g].current, mv)}

Rebased(state, blocks) ==
    LET targets == RollbackTargets(state, blocks)
        i       == CHOOSE j \in targets : \A k \in targets : j <= k
        old     == state.previous[i]
        new     == Restored[<<state.current, old>>]
        rest    == RemoveAt(state.previous, i)
    IN  [current  |-> new,
         previous |-> <<state.current>> \o (IF old = new THEN rest ELSE <<old>> \o rest)]

-----------------------------------------------------------------------------
(***************************************************************************)
(* Admission.                                                              *)
(***************************************************************************)

\* Variant: members - 1 is not clamped to one.
MutUnclampedMaxConcurrent(s) ==
    LET ceiling == Cardinality(PlannedMembers(s)) - 1
    IN  IF MaxConcurrent[s] > ceiling THEN ceiling ELSE MaxConcurrent[s]

EffectiveMaxConcurrent(s) ==
    LET members == Cardinality(PlannedMembers(s))
        ceiling == IF members > 2 THEN members - 1 ELSE 1
    IN  IF MaxConcurrent[s] > ceiling THEN ceiling ELSE MaxConcurrent[s]

\* Variant: the groups already rolling are not counted.
MutAllSlots(adm, mv) == [s \in Sets |-> EffectiveMaxConcurrent(s)]

FreeSlots(adm, mv) ==
    [s \in Sets |-> Monus(EffectiveMaxConcurrent(s),
                          Cardinality({g \in PlannedMembers(s) : HoldsSlot(g, adm, mv)}))]

\* Everything the group was admitted to, newest first, but the new body.
Predecessors(state, body) ==
    FoldLeft(LAMBDA seen, b : IF b = body \/ b \in Range(seen) THEN seen ELSE Append(seen, b),
             <<>>, Chain(state))

Admit(adm, g) ==
    [adm EXCEPT ![g] = [current  |-> spec[g],
                        previous |-> IF @ = Null THEN <<>> ELSE Predecessors(@, spec[g])]]

\* Nothing was ever published to any node of a group never admitted.
Greenfield(g, adm) == adm[g] = Null /\ \A n \in NodesOf(g) : assignments[n] = Null

Frozen(g) == g \notin Emergency /\ ~(Governing(g) \subseteq open)

Pending(g, adm, mv) ==
    /\ Planned(g)
    /\ adm[g] = Null \/ adm[g].current # spec[g]
    /\ \A d \in DependsOn[g] : Classify(d, adm, mv) = "settled"
    /\ spec[g] \notin mv.blocked

\* One iteration of admit_pending, over the state being built and its slots.
AdmitOne(st, g, mv) ==
    LET rolling == HoldsSlot(g, st.adm, mv) IN
    IF ~Pending(g, st.adm, mv) THEN st
    ELSE IF Greenfield(g, st.adm) \/ Governing(g) = {}
         THEN [st EXCEPT !.adm = Admit(@, g)]
    ELSE IF Frozen(g) \/ ~(rolling \/ \A s \in Governing(g) : st.slots[s] > 0) THEN st
    ELSE [adm   |-> Admit(st.adm, g),
          slots |-> [s \in Sets |->
                       IF s \in Governing(g) /\ ~rolling THEN st.slots[s] - 1 ELSE st.slots[s]]]

\* Groups of more sets first, then by name.
AdmissionOrder ==
    SortSeq(GroupOrder, LAMBDA g, h :
        \/ Cardinality(Governing(g)) > Cardinality(Governing(h))
        \/ /\ Cardinality(Governing(g)) = Cardinality(Governing(h))
           /\ Before(GroupOrder, g, h))

AdmitPending(adm, mv) ==
    FoldLeft(LAMBDA st, g : AdmitOne(st, g, mv),
             [adm |-> adm, slots |-> FreeSlots(adm, mv)], AdmissionOrder).adm

-----------------------------------------------------------------------------
(***************************************************************************)
(* assign_nodes, for one planned and admitted group.  running is every     *)
(* body the control plane still has.                                       *)
(***************************************************************************)

\* Variant: a node that is not on current is taken to be on the newest predecessor.
MutAtNewest(n, state) == IF state.previous # <<>> THEN Head(state.previous) ELSE Placement(n)

\* Where a node not on current is: a predecessor it advanced to, else its
\* placement.
At(n, state) ==
    LET on == {i \in 1 .. Len(state.previous) : Advanced(n, state.previous[i])}
    IN  IF on = {} THEN Placement(n)
        ELSE state.previous[CHOOSE i \in on : \A j \in on : i <= j]

\* A cordoned node moves at once; a node on current stays there; a node that
\* nothing was ever published to is delivered at once when nothing stages.
Ungated(n, state, blocks) ==
    \/ n \in cordons /\ state.current \notin blocks
    \/ Advanced(n, state.current)
    \/ At(n, state) = Null /\ state.previous = <<>> /\ state.current \notin blocks

\* The nodes that wait for the movement budget.
Staged(g, state, blocks) ==
    {n \in NodesOf(g) \ holds :
        /\ ~Ungated(n, state, blocks)
        /\ At(n, state) # Null \/ state.previous # <<>>}

\* The body a node's availability is judged on; Null when it is not judged.
JudgedOn(n, state, blocks) ==
    IF n \in holds THEN IF n \in cordons THEN Null ELSE Placement(n)
    ELSE IF n \in cordons /\ state.current \notin blocks THEN Null
    ELSE IF Ungated(n, state, blocks) THEN state.current
    ELSE At(n, state)

UnavailableNodes(g, state, blocks) ==
    {n \in NodesOf(g) : LET b == JudgedOn(n, state, blocks) IN b # Null /\ Unavailable(n, b)}

\* Variant: a broken node is charged for its own unavailability.
MutRescuedFromRest(g, state, blocks) ==
    FirstNodes({n \in Staged(g, state, blocks) : Evidence(n, At(n, state)) = "broken"},
               Monus(MaxUnavailable[g], Cardinality(UnavailableNodes(g, state, blocks))))

\* Broken nodes first, from the whole budget; the others from what is left
\* of it once the unavailable nodes are counted.
Rescued(g, state, blocks) ==
    FirstNodes({n \in Staged(g, state, blocks) : Evidence(n, At(n, state)) = "broken"},
               MaxUnavailable[g])

\* Variant: the nodes already unavailable are not counted.
MutPromotedFresh(g, state, blocks) ==
    FirstNodes({n \in Staged(g, state, blocks) : Evidence(n, At(n, state)) # "broken"},
               MaxUnavailable[g])

Promoted(g, state, blocks) ==
    LET capacity == Monus(MaxUnavailable[g], Cardinality(UnavailableNodes(g, state, blocks)))
    IN  FirstNodes({n \in Staged(g, state, blocks) : Evidence(n, At(n, state)) # "broken"},
                   Monus(capacity, Cardinality(Rescued(g, state, blocks))))

Moved(g, state, blocks) ==
    IF state = Null \/ state.current \in blocks THEN {}
    ELSE Rescued(g, state, blocks) \cup Promoted(g, state, blocks)

\* What the group hands a node, or Null when it leaves the node out.
Handed(n, state, blocks, moved, running) ==
    IF n \in holds THEN Null
    ELSE IF Ungated(n, state, blocks) \/ n \in moved THEN state.current
    ELSE IF At(n, state) \in running THEN At(n, state) ELSE Null

-----------------------------------------------------------------------------
(***************************************************************************)
(* plan_reconcile: the whole pass.                                         *)
(***************************************************************************)

\* The pins of quarantined groups are put back as they were.
Repinned(adm) == [k \in Keys |->
    IF k \in Groups /\ Quarantined(k) /\ admitted[k] # Null THEN admitted[k] ELSE adm[k]]

\* The default's bodies are retained under the reserved key.
DefaultRecorded(adm, blocks) ==
    IF default \in blocks THEN adm
    ELSE IF adm[Default] = Null
         THEN [adm EXCEPT ![Default] = [current |-> default, previous |-> <<>>]]
    ELSE IF adm[Default].current = default THEN adm
    ELSE [adm EXCEPT ![Default] =
            [current  |-> default,
             previous |-> IF @.current \in Range(@.previous) THEN @.previous
                          ELSE <<@.current>> \o @.previous]]

\* rollout.node_deployments, the default cohort included.
Deployment(n, adm, blocks, moved, running) ==
    LET g == NodeGroup(n) IN
    IF g = Default
    THEN IF Withheld(n) \/ n \in holds \/ default \in blocks THEN Null ELSE default
    ELSE IF adm[g] = Null THEN Null
    ELSE Handed(n, adm[g], blocks, moved, running)

\* A node whose group yields nothing for it keeps its last routing, as does
\* one whose group was quarantined for its empty selector.
Carries(n, deployment) ==
    /\ routing[n] # Null
    /\ \/ deployment = Null
       \/ NodeGroup(n) = Default /\ routing[n] \in Groups /\ spec[routing[n]] = Unselective

\* A carried node is republished on its recorded body; an ordinary node last
\* routed to the default follows the default.
StaysPut(n, adm, blocks) ==
    \/ Withheld(n)
    \/ n \in holds
    \/ default \in blocks /\ routing[n] = Default
    \/ routing[n] # Default /\ adm[routing[n]] # Null

\* What the generation publishes for n: its group and its body, Null when n
\* is left out.  adm is the state recorded, deployment what the planner says.
Publication(n, adm, blocks, deployment) ==
    LET entry(g, b) == [group |-> g, body |-> b]
    IN  IF ~Carries(n, deployment) THEN entry(NodeGroup(n), deployment)
        ELSE IF StaysPut(n, adm, blocks)
             THEN entry(routing[n], IF assignments[n] \in BodiesOf(adm) THEN assignments[n] ELSE Null)
        ELSE IF routing[n] = Default THEN entry(Default, default)
        ELSE entry(NodeGroup(n), deployment)

\* ReconcilePlan, from the state retention left (kept), the rejections and
\* vetoes still worth remembering, the movement verdict, the groups being
\* rolled back and the state after admission (now).  The plan faults,
\* UnknownPlacement or RoutingLoss, when a node with routing is left without a
\* body.
PlanGeneration(kept, claims, vetoes, mv, rebasing, now) ==
    LET moved      == UNION {Moved(g, now[g], mv.blocked) : g \in {h \in Groups : Planned(h)}}
        running    == BodiesOf(Repinned(now))
        adm        == DefaultRecorded(Repinned(now), mv.blocked)
        generation == [n \in Fleet |->
                          Publication(n, adm, mv.blocked,
                                      Deployment(n, now, mv.blocked, moved, running))]
    IN  [kept       |-> kept,
         movement   |-> mv,
         rebasing   |-> rebasing,
         admitted   |-> adm,
         vetoed     |-> vetoes \cup {kept[g].current : g \in rebasing},
         rejections |-> claims,
         generation |-> generation,
         faults     |-> \E n \in Fleet : routing[n] # Null /\ generation[n].body = Null]

PlanAdmission(kept, claims, vetoes, mv, rebasing) ==
    LET back == [k \in Keys |->
                    IF k \in rebasing THEN Rebased(kept[k], mv.blocked) ELSE kept[k]]
    IN  PlanGeneration(kept, claims, vetoes, mv, rebasing, AdmitPending(back, mv))

PlanMovement(kept, claims, vetoes, mv) ==
    PlanAdmission(kept, claims, vetoes, mv, Rebases(kept, mv))

PlanVerdict(kept, claims, vetoes) ==
    PlanMovement(kept, claims, vetoes, Movement(kept, claims, vetoes))

PlanRetained(kept, live) ==
    PlanVerdict(kept, {c \in rejections \cup Claims : c[2] \in live}, vetoed \cap live)

Plan ==
    LET kept == FinishStagedRollouts(RetireDeletedGroups(admitted))
    IN  PlanRetained(kept, LiveBodies(kept))
=============================================================================
