------------------------------ MODULE Rollout ------------------------------
(***************************************************************************)
(* Rollouts: passes of the planner (RolloutPlanner) interleaved with the   *)
(* operator's edits, the nodes' reports, reports that age out or are not   *)
(* served, passes whose publication fails, and controller restarts that    *)
(* lose the in-memory rejection log.                                       *)
(*                                                                         *)
(* A node is modelled by what it uploads: the assignment it resolved, the  *)
(* archive it runs, whether it is healthy and whether it durably rejected  *)
(* the assignment.  The module NodeAgent models how it gets there.         *)
(***************************************************************************)
EXTENDS RolloutPlanner

CONSTANTS
    InitSpec, InitLabel, InitDefault,
    Edits,          \* which kinds of edit the operator makes
    Labels,         \* groups a relabelled node can select
    MaxEdits,       \* edits, in total
    MaxLapses,      \* reports that age out or are not served, in total
    MaxFailures,    \* passes that fail to publish and restarts, in total
    Bad,            \* archives a node may reject
    Fragile         \* nodes that may be unhealthy on a release

VARIABLES
    condemned,   \* node -> archives it has durably rejected
    halts,       \* the regression verdict of the last pass (vetoes and proofs)
    faulted,     \* whether the last pass failed closed in the planner
    disrupted,   \* history: serving nodes moved by a pass, not heard healthy since
    edits, lapses, failures

\* A node that enrolled selects a group, or none, from then on.
ASSUME LabelAssumption ==
    /\ InitLabel \in [Nodes -> Keys \cup {Null}]
    /\ Labels \subseteq Keys

operatorVars == <<spec, label, default, holds, cordons, external, open>>
nodeVars     == <<report, condemned>>
durableVars  == <<admitted, vetoed, routing, assignments>>
planVars     == <<durableVars, rejections, halts, faulted>>
counters     == <<edits, lapses, failures>>
vars == <<operatorVars, nodeVars, unread, planVars, disrupted, counters>>

Entry == [current : Bodies, previous : Seq(Bodies)]
ReportRecord == [assignment : Bodies, archive : Range(Archive) \cup {Null},
                 healthy : BOOLEAN, rejected : BOOLEAN, fresh : BOOLEAN]

(***************************************************************************)
(* What the state holds: durable rollout state, reports and memory.        *)
(***************************************************************************)
TypeOK ==
    /\ spec \in [Groups -> Bodies \cup {Null, Invalid, Unselective}]
    /\ label \in [Nodes -> Keys \cup {Null}]
    /\ default \in Bodies
    /\ holds \subseteq Nodes /\ cordons \subseteq Nodes /\ unread \subseteq Nodes
    /\ external \subseteq Bodies /\ open \subseteq Sets
    /\ report \in [Nodes -> ReportRecord \cup {Null}]
    /\ condemned \in [Nodes -> SUBSET Range(Archive)]
    /\ \A k \in Keys : admitted[k] # Null => admitted[k] \in Entry
    /\ vetoed \subseteq Bodies /\ halts \subseteq Bodies
    /\ routing \in [Nodes -> Keys \cup {Null}]
    /\ assignments \in [Nodes -> Bodies \cup {Null}]
    /\ rejections \subseteq Nodes \X Bodies
    /\ faulted \in BOOLEAN
    /\ disrupted \subseteq Nodes

Init ==
    /\ spec = InitSpec /\ label = InitLabel /\ default = InitDefault
    /\ holds = {} /\ cordons = {} /\ external = {} /\ open = Sets
    /\ report = [n \in Nodes |-> Null] /\ unread = {}
    /\ condemned = [n \in Nodes |-> {}]
    /\ admitted = [k \in Keys |-> Null] /\ vetoed = {}
    /\ routing = [n \in Nodes |-> Null] /\ assignments = [n \in Nodes |-> Null]
    /\ rejections = {} /\ halts = {} /\ faulted = FALSE
    /\ disrupted = {}
    /\ edits = 0 /\ lapses = 0 /\ failures = 0

-----------------------------------------------------------------------------
(***************************************************************************)
(* The control plane.                                                      *)
(***************************************************************************)

\* The nodes this generation takes out of service for a group: they serve where
\* they are and are handed something else.  The nodes it routes to the default,
\* their group's first admission still to come included, follow a switch no
\* group gates.
TakenDown(handed, routes) ==
    {n \in Fleet :
        /\ handed[n] \notin {Null, Placement(n)}
        /\ Placement(n) # Null
        /\ ~On(n, handed[n])
        /\ Evidence(n, Placement(n)) = "healthy"
        /\ n \notin cordons
        /\ routes[n] # Default}

\* The nodes the pass sees serving where the last generation put them.
Serving == {n \in Nodes : Evidence(n, Placement(n)) = "healthy"}

\* What a pass leaves.  A plan that faults fails closed: the last generation
\* stays live and only the rejection log has changed.  Otherwise the generation
\* and the rollout state become durable together (the module Publisher).
Outcome ==
    LET plan   == Plan
        ok     == ~plan.faults
        handed == [n \in Nodes |-> IF n \in Fleet THEN plan.generation[n].body ELSE Null]
        routes == [n \in Nodes |-> IF handed[n] = Null THEN Null ELSE plan.generation[n].group]
    IN  [rejections  |-> plan.rejections,
         faulted     |-> plan.faults,
         admitted    |-> IF ok THEN plan.admitted ELSE admitted,
         vetoed      |-> IF ok THEN plan.vetoed ELSE vetoed,
         halts       |-> IF ok THEN plan.movement.halts ELSE halts,
         assignments |-> IF ok THEN handed ELSE assignments,
         routing     |-> IF ok THEN routes ELSE routing]

Reconcile ==
    \E o \in {Outcome} :
        /\ rejections' = o.rejections /\ faulted' = o.faulted
        /\ admitted' = o.admitted /\ vetoed' = o.vetoed /\ halts' = o.halts
        /\ assignments' = o.assignments /\ routing' = o.routing
        /\ disrupted' = {n \in (disrupted \ Serving) \cup TakenDown(o.assignments, o.routing) :
                           assignments'[n] # Null => Evidence(n, assignments'[n]) # "healthy"}
        /\ UNCHANGED <<operatorVars, nodeVars, unread, counters>>

\* A pass would change nothing.
Idle ==
    Outcome = [rejections |-> rejections, faulted |-> faulted, admitted |-> admitted,
               vetoed |-> vetoed, halts |-> halts, assignments |-> assignments,
               routing |-> routing]

\* A pass that plans and then fails to publish: only its memory remains.
PublicationFails ==
    /\ failures < MaxFailures
    /\ failures' = failures + 1
    /\ rejections' = Plan.rejections
    /\ UNCHANGED <<operatorVars, nodeVars, unread, durableVars, halts, faulted, disrupted,
                   edits, lapses>>

\* A new process, or a new leader: only the durable state survives.
Restart ==
    /\ failures < MaxFailures
    /\ rejections # {}
    /\ failures' = failures + 1
    /\ rejections' = {}
    /\ UNCHANGED <<operatorVars, nodeVars, unread, durableVars, halts, faulted, disrupted,
                   edits, lapses>>

-----------------------------------------------------------------------------
(***************************************************************************)
(* The nodes.                                                              *)
(***************************************************************************)

Running(n) == IF report[n] = Null THEN Null ELSE report[n].archive

\* n uploads a report about the assignment it was handed.
Uploads(n, archive, healthy) ==
    /\ n \in Fleet
    /\ assignments[n] # Null
    /\ report' = [report EXCEPT ![n] =
            [assignment |-> assignments[n], archive |-> archive, healthy |-> healthy,
             rejected |-> Archive[assignments[n]] \in condemned'[n], fresh |-> TRUE]]
    /\ report' # report
    /\ disrupted' = IF healthy THEN disrupted \ {n} ELSE disrupted
    /\ UNCHANGED <<operatorVars, unread, planVars, counters>>

\* It resolved the assignment and has not installed it: it serves what it ran.
Fetched(n) ==
    /\ UNCHANGED condemned
    /\ Running(n) # Null
    /\ Uploads(n, Running(n), TRUE)

\* It runs what the assignment installs.
Converges(n) ==
    /\ UNCHANGED condemned
    /\ assignments[n] # Null
    /\ Archive[assignments[n]] \notin condemned[n]
    /\ Uploads(n, Archive[assignments[n]], TRUE)

\* It runs what the assignment installs and is unhealthy.
Breaks(n) ==
    /\ UNCHANGED condemned
    /\ n \in Fragile
    /\ assignments[n] # Null
    /\ Archive[assignments[n]] \notin condemned[n]
    /\ Uploads(n, Archive[assignments[n]], FALSE)

\* It attempted the release, refused it for good and is back on what it ran.
Rejects(n) ==
    /\ assignments[n] # Null
    /\ Archive[assignments[n]] \in Bad
    /\ Running(n) # Archive[assignments[n]]
    /\ condemned' = [condemned EXCEPT ![n] = @ \cup {Archive[assignments[n]]}]
    /\ \E healthy \in (IF Running(n) = Null \/ n \in Fragile THEN {FALSE} ELSE {})
                        \cup (IF Running(n) = Null THEN {} ELSE {TRUE}) :
          Uploads(n, Running(n), healthy)

\* Its report ages out of the freshness window.
Lapses(n) ==
    /\ lapses < MaxLapses
    /\ report[n] # Null /\ report[n].fresh
    /\ report' = [report EXCEPT ![n].fresh = FALSE]
    /\ lapses' = lapses + 1
    /\ UNCHANGED <<operatorVars, condemned, unread, planVars, disrupted, edits, failures>>

\* The store does not serve its report object, or serves it again.
Unserved(n) ==
    /\ lapses < MaxLapses
    /\ report[n] # Null /\ n \notin unread
    /\ unread' = unread \cup {n}
    /\ lapses' = lapses + 1
    /\ UNCHANGED <<operatorVars, nodeVars, planVars, disrupted, edits, failures>>

Served(n) ==
    /\ n \in unread
    /\ unread' = unread \ {n}
    /\ UNCHANGED <<operatorVars, nodeVars, planVars, disrupted, counters>>

-----------------------------------------------------------------------------
(***************************************************************************)
(* The operator.                                                           *)
(***************************************************************************)

Edit(kind) ==
    /\ kind \in Edits
    /\ edits < MaxEdits
    /\ edits' = edits + 1
    /\ UNCHANGED <<nodeVars, unread, planVars, lapses, failures>>

Retarget(g, b) ==
    /\ Edit("retarget")
    /\ spec[g] \in Bodies \cup {Invalid, Unselective} /\ spec[g] # b
    /\ spec' = [spec EXCEPT ![g] = b]
    /\ UNCHANGED <<label, default, holds, cordons, external, open, disrupted>>

\* The group's spec stops parsing, or its selector is emptied.
Break(g, how) ==
    /\ Edit("quarantine")
    /\ spec[g] \in Bodies
    /\ spec' = [spec EXCEPT ![g] = how]
    /\ UNCHANGED <<label, default, holds, cordons, external, open, disrupted>>

Delete(g) ==
    /\ Edit("delete")
    /\ spec[g] # Null
    /\ spec' = [spec EXCEPT ![g] = Null]
    /\ UNCHANGED <<label, default, holds, cordons, external, open, disrupted>>

Create(g, b) ==
    /\ Edit("create")
    /\ spec[g] = Null
    /\ spec' = [spec EXCEPT ![g] = b]
    /\ UNCHANGED <<label, default, holds, cordons, external, open, disrupted>>

\* A node enrolls, or its labels change.  What its new group owes it starts
\* from there.
Relabel(n, k) ==
    /\ Edit(IF label[n] = Null THEN "enroll" ELSE "relabel")
    /\ label[n] # k
    /\ label' = [label EXCEPT ![n] = k]
    /\ disrupted' = disrupted \ {n}
    /\ UNCHANGED <<spec, default, holds, cordons, external, open>>

Redefault(b) ==
    /\ Edit("default")
    /\ default # b
    /\ default' = b
    /\ UNCHANGED <<spec, label, holds, cordons, external, open, disrupted>>

ToggleHold(n) ==
    /\ Edit("hold")
    /\ holds' = IF n \in holds THEN holds \ {n} ELSE holds \cup {n}
    /\ UNCHANGED <<spec, label, default, cordons, external, open, disrupted>>

\* A cordoned node is out of rotation: it counts for no budget until it is
\* moved again.
ToggleCordon(n) ==
    /\ Edit("cordon")
    /\ cordons' = IF n \in cordons THEN cordons \ {n} ELSE cordons \cup {n}
    /\ disrupted' = disrupted \ {n}
    /\ UNCHANGED <<spec, label, default, holds, external, open>>

\* The admission policy changes its mind about a body.
ToggleBlock(b) ==
    /\ Edit("block")
    /\ external' = IF b \in external THEN external \ {b} ELSE external \cup {b}
    /\ UNCHANGED <<spec, label, default, holds, cordons, open, disrupted>>

\* A set enters or leaves its rollout schedule.
ToggleSchedule(s) ==
    /\ Edit("schedule")
    /\ open' = IF s \in open THEN open \ {s} ELSE open \cup {s}
    /\ UNCHANGED <<spec, label, default, holds, cordons, external, disrupted>>

-----------------------------------------------------------------------------
Plane == Reconcile \/ PublicationFails \/ Restart

Reports(n) == Fetched(n) \/ Converges(n) \/ Breaks(n) \/ Rejects(n)

Node(n) ==
    \/ Reports(n)
    \/ Lapses(n) \/ Unserved(n) \/ Served(n)

Operator ==
    \/ \E g \in Groups, b \in Bodies : Retarget(g, b) \/ Create(g, b)
    \/ \E g \in Groups : Break(g, Invalid) \/ Break(g, Unselective) \/ Delete(g)
    \/ \E n \in Nodes, k \in Labels : Relabel(n, k)
    \/ \E n \in Nodes : ToggleHold(n) \/ ToggleCordon(n)
    \/ \E b \in Bodies : Redefault(b) \/ ToggleBlock(b)
    \/ \E s \in Sets : ToggleSchedule(s)

Next == Plane \/ (\E n \in Nodes : Node(n)) \/ Operator

Spec == Init /\ [][Next]_vars

\* The plane reconciles on every change and on a timer (weak fairness of
\* Reconcile, with Idle for its being disabled); a node polls and
\* uploads on a timer, so it finishes, or rejects, what it installs; the store
\* serves a report again.
Fairness ==
    /\ []<>Idle \/ []<><<Reconcile>>_vars
    /\ \A n \in Nodes : WF_vars(Reports(n)) /\ WF_vars(Served(n))

FairSpec == Spec /\ Fairness

-----------------------------------------------------------------------------
(***************************************************************************)
(* Properties.                                                             *)
(***************************************************************************)

\* maxUnavailable: however passes, retargets, silences, holds and failed
\* publications interleave, the serving nodes of a group that passes took
\* down and the plane has not seen healthy since stay within its budget.
BudgetKept ==
    \A g \in Groups : Cardinality(disrupted \cap NodesOf(g)) <= MaxUnavailable[g]

\* A halt stands: a body the nodes proved bad stays blocked for as long as some
\* group keeps desiring it, wherever the nodes that proved it have gone since.
HaltStands ==
    [][\A g \in Groups :
          Planned(g) /\ Planned(g)' /\ spec'[g] = spec[g] /\ spec[g] \in halts
          => spec[g] \in halts']_vars

\* A published node only ever moves to the admitted body of its group, to the
\* repository default, or to where it reports to be: never back to a
\* predecessor, which no budget would have gated.
MovesOnlyForward ==
    [][\A n \in Nodes :
          assignments[n] # Null /\ assignments'[n] # assignments[n] =>
             \/ Planned(label[n]) /\ admitted'[label[n]].current = assignments'[n]
             \/ routing'[n] = Default /\ assignments'[n] = default
             \/ On(n, assignments'[n])]_vars

\* maxConcurrent: a pass leaves more members of a set rolling than the set
\* allows only if they were already rolling, were never published, or are
\* being rolled back.
ConcurrencyKept ==
    [][admitted' # admitted =>
          \E plan \in {Plan} :
          LET exempt == plan.rebasing \cup {g \in Groups : Greenfield(g, plan.kept)}
              Holders(s, adm) == {g \in PlannedMembers(s) : HoldsSlot(g, adm, plan.movement)}
          IN  \A s \in Sets :
                 \/ Holders(s, admitted') \subseteq Holders(s, plan.kept) \cup exempt
                 \/ Cardinality(Holders(s, admitted') \ exempt) <= EffectiveMaxConcurrent(s)]_vars

\* dependsOn: a body is admitted to a group only while every observable node
\* of each prerequisite runs, healthy, what is desired of it.
DependenciesLanded ==
    [][\A g \in Groups :
          /\ DependsOn[g] # {} /\ Planned(g)
          /\ admitted'[g] # Null
          /\ admitted[g] = Null \/ admitted'[g].current # admitted[g].current
          /\ g \notin Plan.rebasing
          => \A d \in DependsOn[g] :
                /\ NodesOf(d) \cap Keyed # {}
                /\ \A n \in (NodesOf(d) \ cordons) \cap Keyed : Converged(n, spec[d])]_vars

\* Nothing the operator did keeps a group waiting: no node is held, and no
\* planned group has a closed schedule, a blocked desire or a prerequisite that
\* cannot be observed.
Unhindered ==
    /\ holds = {}
    /\ \A g \in Groups : Planned(g) =>
          /\ spec[g] \notin halts \cup external
          /\ ~Frozen(g)
          /\ \A d \in DependsOn[g] : Planned(d) /\ (NodesOf(d) \ cordons) \cap Keyed # {}

\* Then what every group desires is admitted in the end: budgets, slots and
\* dependencies never leave groups waiting for each other.
EventuallyAdmitted ==
    <>[](Unhindered =>
            \A g \in Groups : Planned(g) => admitted[g] # Null /\ admitted[g].current = spec[g])

\* No node is stranded on a predecessor: in the end every node of a group that
\* is not held is on the body the group was admitted, or was rolled back, to.
NobodyStranded ==
    \A n \in Nodes :
        <>[](Planned(label[n]) /\ n \notin holds /\ admitted[label[n]] # Null
             /\ admitted[label[n]].current \notin halts \cup external
             => assignments[n] = admitted[label[n]].current)
=============================================================================
