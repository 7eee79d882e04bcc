------------------------------ MODULE Traffic ------------------------------
(***************************************************************************)
(* From an UpdateBackend resource to the nodes a load balancer routes to.  *)
(* The controller (updatec, runtime/backend.rs) projects the selected      *)
(* agents as a sharded inventory, grants a workload its access and deploys *)
(* it; the workload (updated-healthproxy) reads the inventory and the      *)
(* nodes' reports in a loop and programs EndpointSlices or HAProxy, and    *)
(* programs an empty set when it is told to stop.                          *)
(*                                                                         *)
(* Kubernetes is external: a deleted Deployment disappears at once and its *)
(* pod is told to stop some time later (DeleteParams::default), and the    *)
(* Recreate strategy starts no pod of a Deployment beside an older one.    *)
(***************************************************************************)
EXTENDS Naturals, FiniteSets

CONSTANTS
    Nodes,          \* the agents, numbers in the order of their names
    Fleets,         \* selections the labels and cordons may describe
    Slices,         \* targets that are EndpointSlices of a Service
    Proxies,        \* targets that are HAProxy backends
    Pods,           \* workload pods that may exist side by side
    ShardCount,     \* BACKEND_INVENTORY_SHARDS
    Reporters,      \* bound: nodes whose reports change; the others stay ready
    MaxDisturbance, \* bound: faults count one, edits of resource and agents two
    None

Targets == Slices \cup Proxies

(***************************************************************************)
(* The UpdateBackend, the objects generated for it, and what its pods do.  *)
(* A selection maps each selected agent to "active" or "cordoned"; one     *)
(* without a usable address or key is projected as cordoned too.           *)
(***************************************************************************)
VARIABLES
    fleet,          \* the agents the backend's selector matches
    backend,        \* the UpdateBackend resource
    pass,           \* the controller's pass over it
    shards,         \* the inventory ConfigMaps
    access,         \* the target the Role and RoleBinding are pinned to
    deployment,     \* the target of the generated Deployment
    pods,           \* the healthproxy processes
    reports,        \* what the published fleet reports say of each node
    routed,         \* per target, the nodes new connections go to
    abandoned,      \* targets a writer left without emptying them
    spent           \* how much of MaxDisturbance faults and edits have used

objects == <<shards, access, deployment>>
balancers == <<routed, abandoned>>
world == <<fleet, reports>>
vars == <<fleet, backend, pass, shards, access, deployment, pods, reports,
          routed, abandoned, spent>>

NoBackend == [phase |-> "none", finalizer |-> FALSE, valid |-> TRUE,
              target |-> CHOOSE t \in Targets : TRUE]
Empty == [n \in {} |-> "active"]
Idle == [stage |-> "idle", backend |-> NoBackend, fleet |-> Empty, shard |-> 0]

Backends == [phase : {"none", "live", "deleting"}, finalizer : BOOLEAN,
             valid : BOOLEAN, target : Targets]

Stages == {"idle", "finalizer", "cordon", "rewrite", "undeploy", "revoke",
           "unproject", "release", "compare", "project", "grant", "deploy"}

\* A cordoned copy of an inventory: every identity kept, none routable.
cordon_backend_inventory(members) == [n \in DOMAIN members |-> "cordoned"]

Inventories == (Fleets \cup {cordon_backend_inventory(f) : f \in Fleets}) \ {Empty}

\* A healthproxy process: where its loop is, the inventory it works with, the
\* last known report of each node, and the verdict of the current cycle.
Workloads == [target : Targets, owned : BOOLEAN, stopping : BOOLEAN,
              stage : {"observe", "program", "sleep"}, inventory : Inventories,
              cache : [Nodes -> {"none", "ready", "unready"}], ready : SUBSET Nodes]

ASSUME TrafficAssumption ==
    /\ ShardCount \in Nat \ {0}
    /\ Targets # {}
    /\ Fleets \subseteq UNION {[S -> {"active", "cordoned"}] : S \in SUBSET Nodes}
    /\ Reporters \subseteq Nodes
    /\ None \notin Targets /\ None \notin Pods /\ None \notin Workloads

\* The HAProxy configuration declares the members of every inventory: the
\* members of all selections that are not empty are the same.
ServersDeclared == \A f, g \in Fleets \ {Empty} : DOMAIN f = DOMAIN g

(***************************************************************************)
(* The sharded inventory.  The members, in the order of their names, are   *)
(* cut into ShardCount chunks; every shard names the revision, a digest    *)
(* of all members.  A digest is modelled by what it is a digest of.        *)
(***************************************************************************)
Rank(members, n) == Cardinality({m \in DOMAIN members : m <= n})

Chunk(members, i) ==
    LET size == (Cardinality(DOMAIN members) + ShardCount - 1) \div ShardCount
    IN  [n \in {m \in DOMAIN members : (i - 1) * size < Rank(members, m) /\ Rank(members, m) <= i * size}
            |-> members[n]]

shard_backend_inventory(members, i) ==
    [revision |-> members, members |-> Chunk(members, i)]

Joined(parts) ==
    LET holds(n) == {i \in DOMAIN parts : n \in DOMAIN parts[i].members}
    IN  [n \in {m \in Nodes : holds(m) # {}} |->
            parts[CHOOSE i \in holds(n) : TRUE].members[n]]

\* A bug: shards of different revisions are joined.
MutAnyRevision(parts) ==
    IF None \in {parts[i] : i \in DOMAIN parts} THEN None ELSE Joined(parts)

\* None unless all shards are there, name one revision and add up to it.
assemble_backend_inventory(parts) ==
    IF /\ None \notin {parts[i] : i \in DOMAIN parts}
       /\ \A i \in DOMAIN parts : parts[i].revision = parts[1].revision
       /\ Joined(parts) = parts[1].revision
    THEN Joined(parts)
    ELSE None

(***************************************************************************)
(* reconcile_backends, one call to the apiserver at a time.  The pass      *)
(* works on the resource and the agents as it listed them.                 *)
(***************************************************************************)
Spend(cost) == spent' = spent + cost /\ spent' <= MaxDisturbance
Cost(fault) == IF fault THEN 1 ELSE 0

At(stage) == pass.stage = stage
Goto(stage) == pass' = [pass EXCEPT !.stage = stage, !.shard = 1]
EndPass == pass' = Idle

\* The branch a live backend takes; validate_backend refuses the resource as
\* a whole, backend_target_conflicts counts as a refusal.
Branch(b, selected) ==
    IF ~b.valid THEN "cordon" ELSE IF selected = Empty THEN "undeploy" ELSE "compare"

\* Every object is as this pass would write it.  The controller is their only
\* writer, so such a pass changes nothing and is left out.
Reconciled ==
    /\ backend.phase = "live" /\ backend.finalizer
    /\ IF Branch(backend, fleet) = "compare"
       THEN /\ shards = [i \in 1..ShardCount |-> shard_backend_inventory(fleet, i)]
            /\ access = backend.target /\ deployment = backend.target
       ELSE /\ shards = [i \in 1..ShardCount |-> None]
            /\ access = None /\ deployment = None

reconcile_backends ==
    /\ At("idle") /\ ~Reconciled
    /\ backend.phase # "none"
    /\ backend.phase = "deleting" => backend.finalizer
    /\ pass' = [stage |-> IF backend.phase = "deleting" THEN "undeploy" ELSE "finalizer",
                backend |-> backend, fleet |-> fleet, shard |-> 1]
    /\ UNCHANGED <<backend, objects, pods, balancers, world, spent>>

\* A bug: children are generated before the finalizer is there.
MutNoFinalizer ==
    /\ At("finalizer")
    /\ Goto(Branch(pass.backend, pass.fleet))
    /\ UNCHANGED <<backend, objects, pods, balancers, world, spent>>

\* The patch carries the listed resourceVersion: an edit or a deletion since
\* then is a conflict and ends the pass.
ensure_backend_finalizer ==
    /\ At("finalizer")
    /\ \/ /\ pass.backend.finalizer
          /\ Goto(Branch(pass.backend, pass.fleet))
          /\ UNCHANGED backend
       \/ /\ ~pass.backend.finalizer
          /\ backend = pass.backend
          /\ backend' = [backend EXCEPT !.finalizer = TRUE]
          /\ Goto(Branch(pass.backend, pass.fleet))
       \/ /\ ~pass.backend.finalizer
          /\ backend # pass.backend
          /\ EndPass
          /\ UNCHANGED backend
    /\ UNCHANGED <<objects, pods, balancers, world, spent>>

\* apply_backend_inventory: one ConfigMap per call.
WriteShard(next) ==
    /\ shards' = [shards EXCEPT ![pass.shard] = shard_backend_inventory(pass.fleet, pass.shard)]
    /\ IF pass.shard < ShardCount
       THEN pass' = [pass EXCEPT !.shard = @ + 1]
       ELSE Goto(next)
    /\ UNCHANGED <<backend, access, deployment, pods, balancers, world, spent>>

\* An invalid backend: the complete inventory there is, if any, is rewritten
\* as cordoned; whatever fails here, the workload is deleted next.
drain_backend_projection ==
    \/ /\ At("cordon")
       /\ LET current == assemble_backend_inventory(shards)
          IN  IF current = None
              THEN Goto("undeploy")
              ELSE pass' = [pass EXCEPT !.stage = "rewrite", !.shard = 1,
                                        !.fleet = cordon_backend_inventory(current)]
       /\ UNCHANGED <<backend, objects, pods, balancers, world, spent>>
    \/ At("rewrite") /\ WriteShard("undeploy")

\* Kubernetes forgets the Deployment at once; its pods are stopped later.
Undeploy ==
    /\ deployment' = None
    /\ pods' = [p \in Pods |-> IF pods[p] = None THEN None ELSE [pods[p] EXCEPT !.owned = FALSE]]
    /\ EndPass
    /\ UNCHANGED <<backend, shards, access, balancers, world, spent>>

\* A pass that deletes the Deployment ends; access is left to one that finds
\* no Deployment.
delete_deployment ==
    /\ At("undeploy")
    /\ \/ deployment # None /\ Undeploy
       \/ /\ deployment = None
          /\ Goto("revoke")
          /\ UNCHANGED <<backend, objects, pods, balancers, world, spent>>

\* RoleBinding and Role, then the inventory ConfigMaps one by one.
delete_backend_access ==
    \/ /\ At("revoke")
       /\ access' = None
       /\ Goto("unproject")
       /\ UNCHANGED <<backend, shards, deployment, pods, balancers, world, spent>>
    \/ /\ At("unproject")
       /\ shards' = [shards EXCEPT ![pass.shard] = None]
       /\ IF pass.shard < ShardCount
          THEN pass' = [pass EXCEPT !.shard = @ + 1]
          ELSE IF pass.backend.phase = "deleting" THEN Goto("release") ELSE EndPass
       /\ UNCHANGED <<backend, access, deployment, pods, balancers, world, spent>>

\* The finalizer goes last, and with it the resource.
finalize_backend ==
    /\ At("release")
    /\ backend' = IF backend = pass.backend THEN NoBackend ELSE backend
    /\ EndPass
    /\ UNCHANGED <<objects, pods, balancers, world, spent>>

backend_access_key(t) == IF t \in Slices THEN t ELSE "haproxy"

deployment_access_changed ==
    /\ At("compare")
    /\ IF /\ deployment # None
          /\ backend_access_key(deployment) # backend_access_key(pass.backend.target)
       THEN Undeploy
       ELSE Goto("project") /\ UNCHANGED <<backend, objects, pods, balancers, world, spent>>

apply_backend_inventory == At("project") /\ WriteShard("grant")

reconcile_backend_access ==
    /\ At("grant")
    /\ access' = pass.backend.target
    /\ Goto("deploy")
    /\ UNCHANGED <<backend, shards, deployment, pods, balancers, world, spent>>

apply_backend_deployment ==
    /\ At("deploy")
    /\ deployment' = pass.backend.target
    /\ EndPass
    /\ UNCHANGED <<backend, shards, access, pods, balancers, world, spent>>

\* Any call may fail, or the controller may die: the pass ends where it is.
\* The cordoning of an invalid backend only warns and goes on.
PassFails ==
    /\ ~At("idle")
    /\ Spend(1)
    /\ IF pass.stage \in {"cordon", "rewrite"} THEN Goto("undeploy") ELSE EndPass
    /\ UNCHANGED <<backend, objects, pods, balancers, world>>

Pass ==
    \/ reconcile_backends
    \/ ensure_backend_finalizer
    \/ drain_backend_projection
    \/ delete_deployment
    \/ delete_backend_access
    \/ finalize_backend
    \/ deployment_access_changed
    \/ apply_backend_inventory
    \/ reconcile_backend_access
    \/ apply_backend_deployment

(***************************************************************************)
(* The healthproxy: updated-healthproxy's run, one loop per pod.           *)
(***************************************************************************)
Alive == {p \in Pods : pods[p] # None}
Free == IF Alive = Pods THEN None ELSE CHOOSE p \in Pods \ Alive : TRUE
Put(p, pod) == pods' = [pods EXCEPT ![p] = pod]
Active(inventory) == {n \in DOMAIN inventory : inventory[n] = "active"}

\* External: a Deployment starts its pod beside none of its own, once the
\* ServiceAccount exists and the volume holds an inventory the process can
\* read.
StartPod(p) ==
    /\ p = Free
    /\ deployment # None
    /\ \A q \in Alive : ~pods[q].owned
    /\ access # None
    /\ assemble_backend_inventory(shards) # None
    /\ Put(p, [target |-> deployment, owned |-> TRUE, stopping |-> FALSE,
               stage |-> "observe", inventory |-> assemble_backend_inventory(shards),
               cache |-> [n \in Nodes |-> "none"], ready |-> {}])
    /\ UNCHANGED <<backend, pass, objects, balancers, world, spent>>

\* External: SIGTERM, once the Deployment is gone or describes another pod.
StopPod(p) ==
    /\ p \in Alive
    /\ ~pods[p].stopping
    /\ ~pods[p].owned \/ pods[p].target # deployment
    /\ Put(p, [pods[p] EXCEPT !.stopping = TRUE])
    /\ UNCHANGED <<backend, pass, objects, balancers, world, spent>>

\* A crash, an eviction, or the end of the termination grace period.
KillPod(p) ==
    /\ p \in Alive
    /\ Spend(1)
    /\ Put(p, None)
    /\ abandoned' = abandoned \cup {pods[p].target}
    /\ UNCHANGED <<backend, pass, objects, routed, world>>

\* A cycle in the loop: the first one comes before any look at the shutdown
\* signal, later ones after a sleep that the signal would have ended.
Cycles(pod) == pod.stage = "observe" \/ (pod.stage = "sleep" /\ ~pod.stopping)

\* A bug: what was once observed is never replaced.
MutFirstKnown(cache, seen) ==
    [n \in Nodes |-> IF cache[n] = "none" /\ n \in seen THEN reports[n] ELSE cache[n]]

\* LastKnownGood: an entry observed now replaces the cached one, a node that
\* was not observed keeps what was last known.
resolve(cache, seen) == [n \in Nodes |-> IF n \in seen THEN reports[n] ELSE cache[n]]

\* LastKnownGood::retain
Retained(cache, inventory) ==
    [n \in Nodes |-> IF n \in Active(inventory) THEN cache[n] ELSE "none"]

\* A bug: a node that was not observed in this cycle counts as not ready.
MutObservedOnly(inventory, known, seen) ==
    {n \in Active(inventory) \cap seen : known[n] = "ready"}

\* resolve_readiness: the verdict on what is known, observed now or earlier.
\* A cordoned member is never ready.
resolve_readiness(inventory, known, seen) ==
    {n \in Active(inventory) : known[n] = "ready"}

\* What a read of the mounted shards may bring.  The files may lag behind,
\* which is a read that brings nothing new.
load_inventory == {assemble_backend_inventory(shards), None}

\* The nodes a read of the fleet generation may bring an entry of: shards and
\* entries are missing or unreadable one by one or all together.
fetch_fleet_reports(inventory) == SUBSET Active(inventory)

\* A cycle up to its verdict: an unusable inventory leaves the last one
\* standing.
resolve_members(p) ==
    /\ p \in Alive
    /\ Cycles(pods[p])
    /\ \E loaded \in load_inventory :
         LET inventory == IF loaded = None THEN pods[p].inventory ELSE loaded
             kept == IF loaded = None THEN pods[p].cache ELSE Retained(pods[p].cache, loaded)
         IN  \E seen \in fetch_fleet_reports(inventory) :
               LET known == resolve(kept, seen)
               IN  /\ Spend(Cost(loaded # assemble_backend_inventory(shards) \/ seen # Active(inventory)))
                   /\ Put(p, [pods[p] EXCEPT !.stage = "program", !.inventory = inventory,
                               !.cache = known,
                               !.ready = resolve_readiness(inventory, known, seen)])
    /\ UNCHANGED <<backend, pass, objects, balancers, world>>

\* What one reconcile may get through to the balancer.  An EndpointSlice is
\* written as a whole and needs the Role; HAProxy is told server by server
\* and may fail in between.
Writes(target, members) ==
    IF target \in Proxies THEN SUBSET members
    ELSE {{}} \cup (IF access = target THEN {members} ELSE {})

\* HAProxy leaves a server it is not told about as it is.
Programmed(target, told, ready) ==
    IF target \in Slices THEN ready ELSE (routed[target] \ told) \cup (ready \cap told)

\* LoadBalancer::reconcile with the full member list.
reconcile(p) ==
    LET pod == pods[p]
        members == DOMAIN pod.inventory
    IN  /\ p \in Alive
        /\ pod.stage = "program"
        /\ \E told \in Writes(pod.target, members) :
             /\ Spend(Cost(told # members /\ members \in Writes(pod.target, members)))
             /\ routed' = IF told = {} THEN routed
                          ELSE [routed EXCEPT ![pod.target] = Programmed(pod.target, told, pod.ready)]
             /\ abandoned' = IF told = members THEN abandoned \ {pod.target} ELSE abandoned
        /\ Put(p, [pod EXCEPT !.stage = "sleep", !.ready = {}])
        /\ UNCHANGED <<backend, pass, objects, world>>

\* A bug: no member, no command; the drain of HAProxy says nothing.
MutNothingToTell(target, told) == IF target \in Slices THEN {} ELSE routed[target]

\* reconcile(&[]): an empty slice, or a drain of the servers of the last
\* non-empty reconcile (desired_members), which are those of the inventory
\* the loop ended with.
Drained(target, told) == IF target \in Slices THEN {} ELSE routed[target] \ told

\* After the loop the empty set is programmed, once, and the process ends.
Shutdown(p) ==
    LET pod == pods[p]
        members == DOMAIN pod.inventory
    IN  /\ p \in Alive
        /\ pod.stage = "sleep" /\ pod.stopping
        /\ \E told \in Writes(pod.target, members) :
             /\ Spend(Cost(told # members /\ members \in Writes(pod.target, members)))
             /\ routed' = IF told = {} THEN routed
                          ELSE [routed EXCEPT ![pod.target] = Drained(pod.target, told)]
             /\ abandoned' = IF told = members THEN abandoned \ {pod.target}
                             ELSE abandoned \cup {pod.target}
        /\ Put(p, None)
        /\ UNCHANGED <<backend, pass, objects, world>>

Pod(p) == StartPod(p) \/ StopPod(p) \/ resolve_members(p) \/ reconcile(p) \/ Shutdown(p)

(***************************************************************************)
(* Reports, operators and the environment.  A report is "ready" while it   *)
(* is authentic, healthy and fresh, "unready" otherwise.                   *)
(***************************************************************************)
\* publish_report_projection: the node's entry in the next fleet generation.
publish_report(n, claim) ==
    /\ reports[n] # claim
    /\ reports' = [reports EXCEPT ![n] = claim]
    /\ UNCHANGED <<backend, pass, objects, pods, balancers, fleet, spent>>

Aged(claim) == IF claim = "ready" THEN "unready" ELSE claim

\* A report leaves the freshness window, and with it every copy a pod holds:
\* no pod holds a younger one.
Expire(n) ==
    /\ reports[n] = "ready"
    /\ reports' = [reports EXCEPT ![n] = "unready"]
    /\ pods' = [p \in Pods |-> IF p \in Alive THEN [pods[p] EXCEPT !.cache[n] = Aged(@)] ELSE None]
    /\ UNCHANGED <<backend, pass, objects, balancers, fleet, spent>>

\* The copy in a pod leaves the window, or LastKnownGood's own bound is over,
\* while a younger report may stand that the pod could not read.
ExpireCached(p, n) ==
    /\ p \in Alive
    /\ pods[p].cache[n] = "ready"
    /\ Put(p, [pods[p] EXCEPT !.cache[n] = Aged(@)])
    /\ UNCHANGED <<backend, pass, objects, balancers, world, spent>>

EditBy(b, f) ==
    /\ Spend(2)
    /\ backend' = b
    /\ fleet' = f
    /\ UNCHANGED <<pass, objects, pods, balancers, reports>>

CreateBackend(t) ==
    backend.phase = "none" /\ EditBy([NoBackend EXCEPT !.phase = "live", !.target = t], fleet)

EditBackend(valid, t) ==
    /\ backend.phase = "live"
    /\ <<valid, t>> # <<backend.valid, backend.target>>
    /\ EditBy([backend EXCEPT !.valid = valid, !.target = t], fleet)

DeleteBackend ==
    /\ backend.phase = "live"
    /\ EditBy(IF backend.finalizer THEN [backend EXCEPT !.phase = "deleting"] ELSE NoBackend, fleet)

SelectAgents(f) ==
    /\ f # fleet
    /\ EditBy(backend, f)

Init ==
    /\ fleet \in Fleets
    /\ backend = [NoBackend EXCEPT !.phase = "live"]
    /\ pass = Idle
    /\ shards = [i \in 1..ShardCount |-> None]
    /\ access = None
    /\ deployment = None
    /\ pods = [p \in Pods |-> None]
    /\ reports = [n \in Nodes |-> IF n \in Reporters THEN "unready" ELSE "ready"]
    /\ routed = [t \in Targets |-> {}]
    /\ abandoned = {}
    /\ spent = 0

Next ==
    \/ Pass
    \/ PassFails
    \/ \E p \in Pods : Pod(p) \/ KillPod(p) \/ \E n \in Reporters : ExpireCached(p, n)
    \/ \E n \in Reporters : Expire(n) \/ \E claim \in {"ready", "unready"} : publish_report(n, claim)
    \/ \E t \in Targets : CreateBackend(t) \/ \E valid \in BOOLEAN : EditBackend(valid, t)
    \/ DeleteBackend
    \/ \E f \in Fleets : SelectAgents(f)

Spec == Init /\ [][Next]_vars

\* The controller's loop goes on, pods take their steps, time passes.
Fairness ==
    /\ WF_vars(Pass)
    /\ \A p \in Pods : WF_vars(StartPod(p)) /\ WF_vars(StopPod(p))
    /\ \A p \in Pods : WF_vars(resolve_members(p) \/ reconcile(p) \/ Shutdown(p))
    /\ \A p \in Pods, n \in Reporters : WF_vars(ExpireCached(p, n))

LiveSpec == Spec /\ Fairness

(***************************************************************************)
(* Properties.                                                             *)
(***************************************************************************)
\* A pod's inventory (load_inventory, assemble_backend_inventory) is always
\* one the controller described as a whole (a selection, or a selection
\* cordoned), although apply_backend_inventory writes the ConfigMaps one at a
\* time, the pass may end between any two of them and the pod may read them
\* at any moment.
InventoryWhole == \A p \in Alive : pods[p].inventory \in Inventories

\* A checker that cannot see is no evidence against a node (LastKnownGood): a
\* cycle of run takes a node out of rotation only if the node is no longer
\* active in the inventory or the last report this pod has of it no longer
\* stands.
BlipKeepsRotation ==
    [][\A p \in Alive :
         pods[p].stage = "program" /\ pods'[p] # None /\ pods'[p].stage = "sleep" =>
           \A n \in routed[pods[p].target] \ routed'[pods[p].target] :
             n \notin Active(pods[p].inventory) \/ pods[p].cache[n] # "ready"]_vars

\* A node in rotation is either in the hands of a pod that is still there to
\* withdraw it or on a target whose last writer could not finish the drain
\* at the end of run.
NothingStranded ==
    \A t \in Targets : routed[t] # {} => t \in abandoned \/ \E p \in Alive : pods[p].target = t

\* When finalize_backend has let the resource go, everything that was
\* generated for it is gone too, wherever earlier passes ended.
NothingOutlivesBackend ==
    backend.phase = "none" =>
        deployment = None /\ access = None /\ \A i \in 1..ShardCount : shards[i] = None

Serving == backend.phase = "live" /\ backend.valid /\ fleet # Empty
Fit(n) == n \in Active(fleet) /\ reports[n] = "ready"

\* Once edits and faults cease, the passes of reconcile_backends and the cycles
\* of run make the rotation follow the fleet: a node that stays cordoned,
\* silent or unhealthy leaves, a node that stays active and healthy is in; a
\* backend that serves nothing loses its pod and its access.
RotationFollows ==
    /\ \A n \in Nodes :
         /\ <>[](Serving /\ n \in DOMAIN fleet /\ ~Fit(n)) => <>[](n \notin routed[backend.target])
         /\ <>[](Serving /\ Fit(n)) => <>[](n \in routed[backend.target])
    /\ <>[]~Serving => <>[](Alive = {} /\ access = None /\ backend.phase # "deleting")
=============================================================================
