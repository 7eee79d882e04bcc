--------------------------- MODULE TrafficProofs ---------------------------
(***************************************************************************)
(* For any agents, selections, targets, pods and number of shards, and for *)
(* any number of faults and edits: a pod only ever works with an inventory *)
(* the controller described as a whole, a cycle that sees nothing takes    *)
(* nothing out of rotation, nothing generated outlives its resource, and   *)
(* no node stays in rotation with nobody to answer for it.                 *)
(*                                                                         *)
(* The argument.  Every shard names the inventory it is a shard of, so     *)
(* shards that agree assemble to one that was written (ShardInv).  Every   *)
(* object is written after the finalizer and removed, in the order         *)
(* Deployment, access, shards, before it (TeardownInv).  A pod's verdict   *)
(* contains every active node whose cached report stands until it is       *)
(* programmed (PodInv), and what is routed to is declared (RoutedInv).     *)
(***************************************************************************)
EXTENDS Traffic, TLAPS

Passes == [stage : Stages, backend : Backends, fleet : Fleets \cup Inventories \cup {Empty},
           shard : Nat]

TypeOK ==
    /\ fleet \in Fleets
    /\ backend \in Backends
    /\ pass \in Passes
    /\ DOMAIN shards = 1..ShardCount
    /\ pods \in [Pods -> Workloads \cup {None}]
    /\ reports \in [Nodes -> {"ready", "unready"}]
    /\ deployment \in Targets \cup {None}
    /\ DOMAIN routed = Targets

Sharding == {"rewrite", "project"}

\* Every shard in the ConfigMaps is one of an inventory that was described.
ShardInv ==
    /\ pass.stage \in Sharding => pass.fleet \in Inventories /\ pass.shard \in 1..ShardCount
    /\ pass.stage = "compare" => pass.fleet \in Inventories
    /\ pass.stage = "finalizer" => pass.fleet \in Fleets
    /\ \A i \in 1..ShardCount : shards[i] # None => shards[i].revision \in Inventories

Bare == deployment = None /\ access = None /\ \A i \in 1..ShardCount : shards[i] = None

\* What the pass may conclude from the step it is at, and what the finalizer holds.
TeardownInv ==
    /\ backend.phase = "none" => ~backend.finalizer
    /\ backend.phase = "deleting" => backend.finalizer
    /\ ~backend.finalizer => Bare
    /\ pass.stage = "finalizer" =>
         pass.backend.phase = "live" /\ (pass.backend.finalizer => backend.finalizer)
    /\ pass.stage \notin {"idle", "finalizer"} => backend.finalizer
    /\ pass.stage \in {"revoke", "unproject", "release"} => deployment = None
    /\ pass.stage \in {"unproject", "release"} => access = None
    /\ pass.stage = "unproject" =>
         pass.shard \in 1..ShardCount /\ \A i \in 1..(pass.shard - 1) : shards[i] = None
    /\ pass.stage = "release" => \A i \in 1..ShardCount : shards[i] = None

\* The verdict of a cycle, until it is programmed: only members are ready, and
\* all active ones whose last known report stands.
WellJudged(w) ==
    /\ w.ready \subseteq DOMAIN w.inventory
    /\ w.stage = "program" =>
         \A n \in Active(w.inventory) : w.cache[n] = "ready" => n \in w.ready

PodInv == \A p \in Alive : WellJudged(pods[p])

\* Only declared servers are routed to, and somebody answers for each.
RoutedInv ==
    /\ \A t \in Targets, f \in Fleets \ {Empty} : routed[t] \subseteq DOMAIN f
    /\ NothingStranded

IInv == TypeOK /\ ShardInv /\ TeardownInv /\ PodInv

USE DEF objects, balancers, world, At

-----------------------------------------------------------------------------
(* Inventories and shards *)

\* An inventory names at least one node, and cordoning it gives another one.
LEMMA InventoryFacts ==
  ASSUME NEW inv \in Inventories
  PROVE  /\ \E f \in Fleets \ {Empty} : DOMAIN inv = DOMAIN f
         /\ DOMAIN inv # {} /\ DOMAIN inv \subseteq Nodes
         /\ cordon_backend_inventory(inv) \in Inventories
<1>1. \A f \in Fleets : /\ f = [n \in DOMAIN f |-> f[n]]
                        /\ DOMAIN f \subseteq Nodes
                        /\ DOMAIN f = {} => f = Empty
  BY TrafficAssumption DEF Empty
<1>2. \A f \in Fleets : /\ DOMAIN cordon_backend_inventory(f) = DOMAIN f
                        /\ DOMAIN f = {} => cordon_backend_inventory(f) = Empty
                        /\ cordon_backend_inventory(cordon_backend_inventory(f))
                             = cordon_backend_inventory(f)
  BY DEF cordon_backend_inventory, Empty
<1>3. DOMAIN Empty = {}  BY DEF Empty
<1>4. PICK f \in Fleets : inv = f \/ inv = cordon_backend_inventory(f)
  BY DEF Inventories
<1>5. inv # Empty  BY DEF Inventories
<1>6. DOMAIN inv = DOMAIN f  BY <1>2, <1>4
<1>7. DOMAIN f # {}  BY <1>1, <1>2, <1>4, <1>5
<1>8. cordon_backend_inventory(inv) = cordon_backend_inventory(f)  BY <1>2, <1>4
<1>9. cordon_backend_inventory(f) # Empty  BY <1>2, <1>3, <1>7
<1>10. cordon_backend_inventory(inv) \in Inventories  BY <1>8, <1>9 DEF Inventories
<1>11. f # Empty  BY <1>3, <1>7
<1> QED  BY <1>1, <1>6, <1>7, <1>10, <1>11

\* Shards that assemble are those of one inventory that was written.
LEMMA AssembledWhole ==
  ASSUME TypeOK, ShardInv, assemble_backend_inventory(shards) # None
  PROVE  assemble_backend_inventory(shards) \in Inventories
<1>1. 1 \in DOMAIN shards  BY TrafficAssumption DEF TypeOK
<1>2. /\ None \notin {shards[i] : i \in DOMAIN shards}
      /\ assemble_backend_inventory(shards) = shards[1].revision
  BY DEF assemble_backend_inventory
<1>3. shards[1] # None  BY <1>1, <1>2
<1> QED  BY <1>1, <1>2, <1>3 DEF ShardInv, TypeOK

\* The blank resource and the blank pass are well formed.
LEMMA Blanks == NoBackend \in Backends /\ Idle \in Passes
<1>1. NoBackend \in Backends
  BY TrafficAssumption DEF NoBackend, Backends
<1> QED  BY <1>1 DEF Idle, Passes, Stages

-----------------------------------------------------------------------------
(* Frames *)

\* The shards' invariant reads the pass and the shards only.
LEMMA ShardFrame == ASSUME ShardInv, UNCHANGED <<pass, shards>> PROVE ShardInv'
  BY DEF ShardInv

\* The pods and the reports play no part in the teardown.
LEMMA TeardownFrame == ASSUME TeardownInv, UNCHANGED <<backend, pass, objects>> PROVE TeardownInv'
  BY DEF TeardownInv, Bare

\* A pass plays no part in a pod's cycle.
LEMMA PodFrame == ASSUME PodInv, UNCHANGED pods PROVE PodInv'
  BY DEF PodInv, Alive, WellJudged, Active

\* Going to the next step changes the step and the shard only.
LEMMA GotoTyped ==
  ASSUME pass \in Passes, NEW stage \in Stages, Goto(stage)
  PROVE  /\ pass' \in Passes /\ pass'.stage = stage /\ pass'.shard = 1
         /\ pass'.backend = pass.backend /\ pass'.fleet = pass.fleet
  BY DEF Goto, Passes

\* So does going to the next shard.
LEMMA NextShardTyped ==
  ASSUME pass \in Passes, pass' = [pass EXCEPT !.shard = @ + 1]
  PROVE  /\ pass' \in Passes /\ pass'.stage = pass.stage /\ pass'.shard = pass.shard + 1
         /\ pass'.backend = pass.backend /\ pass'.fleet = pass.fleet
  BY DEF Passes

\* A pass that has ended claims nothing.
LEMMA EndTyped ==
  ASSUME EndPass
  PROVE  pass' \in Passes /\ pass'.stage = "idle"
  BY Blanks DEF EndPass, Idle

-----------------------------------------------------------------------------
(* The controller's pass *)

\* A pass starts from a resource whose deletion, if any, the finalizer holds.
LEMMA ReconcileSafe == ASSUME IInv, reconcile_backends PROVE IInv'
<1> USE DEF IInv, reconcile_backends
<1>1. pass' \in Passes
  BY DEF TypeOK, Passes, Stages
<1>2. pass'.stage \in {"finalizer", "undeploy"} /\ pass'.fleet = fleet /\ pass'.backend = backend
  OBVIOUS
<1>3. pass'.stage = "finalizer" => backend.phase = "live"
  BY DEF TypeOK, Backends
<1>4. pass'.stage = "undeploy" => backend.finalizer
  OBVIOUS
<1>5. TypeOK'  BY <1>1 DEF TypeOK
<1>6. ShardInv'  BY <1>2 DEF ShardInv, TypeOK, Sharding
<1>7. TeardownInv'  BY <1>2, <1>3, <1>4 DEF TeardownInv, Bare
<1> QED  BY <1>5, <1>6, <1>7, PodFrame

\* The branch a pass takes is one of the three, and only a selection is compared.
LEMMA BranchTyped ==
  ASSUME NEW b, NEW f \in Fleets
  PROVE  /\ Branch(b, f) \in {"cordon", "undeploy", "compare"}
         /\ Branch(b, f) = "compare" => f \in Inventories
  BY DEF Branch, Inventories

\* After the finalizer: it is there, whatever the resource became since.
LEMMA FinalizerSafe == ASSUME IInv, ensure_backend_finalizer PROVE IInv'
<1> USE DEF IInv
<1>0. /\ pass.stage = "finalizer" /\ pass.fleet \in Fleets /\ pass \in Passes
      /\ UNCHANGED <<objects, pods, balancers, world>>
  BY DEF ensure_backend_finalizer, ShardInv, TypeOK
<1>1. CASE EndPass /\ UNCHANGED backend
  <2>1. pass' \in Passes /\ pass'.stage = "idle"  BY <1>1, EndTyped
  <2>2. TypeOK'  BY <1>0, <1>1, <2>1 DEF TypeOK
  <2>3. ShardInv'  BY <1>0, <1>1, <2>1 DEF ShardInv, Sharding
  <2>4. TeardownInv'  BY <1>0, <1>1, <2>1 DEF TeardownInv, Bare
  <2> QED  BY <1>0, <2>2, <2>3, <2>4, PodFrame
<1>2. CASE /\ Goto(Branch(pass.backend, pass.fleet))
           /\ backend' \in Backends /\ backend'.finalizer
           /\ backend'.phase = backend.phase /\ backend.phase # "none"
  <2>1. Branch(pass.backend, pass.fleet) \in {"cordon", "undeploy", "compare"}
    BY <1>0, BranchTyped
  <2>2. Branch(pass.backend, pass.fleet) \in Stages  BY <2>1 DEF Stages
  <2>3. /\ pass' \in Passes /\ pass'.stage = Branch(pass.backend, pass.fleet)
        /\ pass'.fleet = pass.fleet
    BY <1>0, <1>2, <2>2, GotoTyped
  <2>4. TypeOK'  BY <1>0, <1>2, <2>3 DEF TypeOK
  <2>5. ShardInv'  BY <1>0, <2>1, <2>3, BranchTyped DEF ShardInv, Sharding
  <2>6. TeardownInv'  BY <1>0, <1>2, <2>1, <2>3 DEF TeardownInv, Bare
  <2> QED  BY <1>0, <2>4, <2>5, <2>6, PodFrame
<1>3. CASE pass.backend.finalizer /\ Goto(Branch(pass.backend, pass.fleet)) /\ UNCHANGED backend
  <2>1. backend.finalizer /\ backend.phase # "none"  BY <1>0, <1>3 DEF TeardownInv
  <2> QED  BY <1>2, <1>3, <2>1 DEF TypeOK
<1>4. CASE /\ ~pass.backend.finalizer /\ backend = pass.backend
           /\ backend' = [backend EXCEPT !.finalizer = TRUE]
           /\ Goto(Branch(pass.backend, pass.fleet))
  <2>1. backend' \in Backends /\ backend'.finalizer /\ backend'.phase = backend.phase
    BY <1>4 DEF TypeOK, Backends
  <2>2. backend.phase = "live"  BY <1>0, <1>4 DEF TeardownInv
  <2> QED  BY <1>2, <1>4, <2>1, <2>2
<1> QED  BY <1>1, <1>3, <1>4 DEF ensure_backend_finalizer

\* Writing a shard of an inventory, on the way to a step that needs only the finalizer.
LEMMA WriteShardSafe ==
  ASSUME IInv, pass.stage \in Sharding, NEW next \in {"undeploy", "grant"}, WriteShard(next)
  PROVE  IInv'
<1> USE DEF IInv
<1>1. /\ pass \in Passes /\ pass.fleet \in Inventories /\ pass.shard \in 1..ShardCount
      /\ backend.finalizer
  BY DEF TypeOK, ShardInv, TeardownInv, Sharding
<1>2. /\ UNCHANGED <<backend, access, deployment, pods, balancers, world>>
      /\ DOMAIN shards' = 1..ShardCount
      /\ \A i \in 1..ShardCount :
           shards'[i] = IF i = pass.shard THEN shard_backend_inventory(pass.fleet, pass.shard)
                                          ELSE shards[i]
  BY DEF WriteShard, TypeOK
<1>3. \A i \in 1..ShardCount : shards'[i] # None => shards'[i].revision \in Inventories
  BY <1>1, <1>2 DEF ShardInv, shard_backend_inventory
<1>4. CASE pass.shard < ShardCount /\ pass' = [pass EXCEPT !.shard = @ + 1]
  <2>1. /\ pass' \in Passes /\ pass'.stage = pass.stage /\ pass'.shard = pass.shard + 1
        /\ pass'.fleet = pass.fleet
    BY <1>1, <1>4, NextShardTyped
  <2>2. TypeOK'  BY <1>2, <2>1 DEF TypeOK
  <2>3. pass'.shard \in 1..ShardCount  BY <1>1, <1>4, <2>1, TrafficAssumption
  <2>4. ShardInv'  BY <1>1, <1>3, <2>1, <2>3 DEF ShardInv, Sharding
  <2>5. TeardownInv'  BY <1>1, <1>2, <2>1 DEF TeardownInv, Bare, Sharding
  <2> QED  BY <1>2, <2>2, <2>4, <2>5, PodFrame
<1>5. CASE Goto(next)
  <2>1. pass' \in Passes /\ pass'.stage = next
    BY <1>1, <1>5, GotoTyped DEF Stages
  <2>2. TypeOK'  BY <1>2, <2>1 DEF TypeOK
  <2>3. ShardInv'  BY <1>3, <2>1 DEF ShardInv, Sharding
  <2>4. TeardownInv'  BY <1>1, <1>2, <2>1 DEF TeardownInv, Bare
  <2> QED  BY <1>2, <2>2, <2>3, <2>4, PodFrame
<1> QED  BY <1>4, <1>5 DEF WriteShard

\* A step to a stage that claims nothing but the finalizer.
LEMMA QuietStep ==
  ASSUME IInv, pass' \in Passes, pass'.stage \in {"idle", "undeploy"},
         pass'.stage # "idle" => backend.finalizer,
         UNCHANGED <<backend, objects, pods, balancers, world>>
  PROVE  IInv'
<1> USE DEF IInv
<1>1. TypeOK'  BY DEF TypeOK
<1>2. ShardInv'  BY DEF ShardInv, Sharding
<1>3. TeardownInv'  BY DEF TeardownInv, Bare
<1> QED  BY <1>1, <1>2, <1>3, PodFrame

\* A pass over an invalid resource cordons what it finds assembled.
LEMMA DrainSafe == ASSUME IInv, drain_backend_projection PROVE IInv'
<1> USE DEF IInv
<1>1. CASE At("rewrite") /\ WriteShard("undeploy")
  BY <1>1, WriteShardSafe DEF Sharding
<1>2. CASE /\ At("cordon")
           /\ UNCHANGED <<backend, objects, pods, balancers, world>>
           /\ Goto("undeploy")
  <2>1. pass' \in Passes /\ pass'.stage = "undeploy"
    BY <1>2, GotoTyped DEF TypeOK, Stages
  <2>2. backend.finalizer  BY <1>2 DEF TeardownInv
  <2> QED  BY <1>2, <2>1, <2>2, QuietStep
<1>3. CASE /\ At("cordon")
           /\ UNCHANGED <<backend, objects, pods, balancers, world>>
           /\ assemble_backend_inventory(shards) # None
           /\ pass' = [pass EXCEPT !.stage = "rewrite", !.shard = 1,
                         !.fleet = cordon_backend_inventory(assemble_backend_inventory(shards))]
  <2>1. cordon_backend_inventory(assemble_backend_inventory(shards)) \in Inventories
    BY <1>3, AssembledWhole, InventoryFacts
  <2>2. /\ pass' \in Passes /\ pass'.stage = "rewrite" /\ pass'.shard = 1
        /\ pass'.fleet \in Inventories
    BY <1>3, <2>1 DEF TypeOK, Passes, Stages
  <2>3. TypeOK'  BY <1>3, <2>2 DEF TypeOK
  <2>4. ShardInv'  BY <1>3, <2>2, TrafficAssumption DEF ShardInv, Sharding
  <2>5. TeardownInv'  BY <1>3, <2>2 DEF TeardownInv, Bare
  <2> QED  BY <1>3, <2>3, <2>4, <2>5, PodFrame
<1> QED  BY <1>1, <1>2, <1>3 DEF drain_backend_projection

\* A Deployment that is deleted disowns its pods and ends the pass.
LEMMA UndeploySafe == ASSUME IInv, Undeploy PROVE IInv'
<1> USE DEF IInv
<1>1. /\ pass' \in Passes /\ pass'.stage = "idle" /\ deployment' = None
      /\ UNCHANGED <<backend, shards, access, balancers, world>>
  BY EndTyped DEF Undeploy
<1>2. \A p \in Pods : pods'[p] = IF pods[p] = None THEN None ELSE [pods[p] EXCEPT !.owned = FALSE]
  BY DEF Undeploy
<1>3. \A w \in Workloads : /\ [w EXCEPT !.owned = FALSE] \in Workloads
                           /\ [w EXCEPT !.owned = FALSE].ready = w.ready
                           /\ [w EXCEPT !.owned = FALSE].stage = w.stage
                           /\ [w EXCEPT !.owned = FALSE].cache = w.cache
                           /\ [w EXCEPT !.owned = FALSE].inventory = w.inventory
  BY DEF Workloads
<1>4. pods' \in [Pods -> Workloads \cup {None}]
  BY <1>3 DEF Undeploy, TypeOK
<1>5. TypeOK'  BY <1>1, <1>4 DEF TypeOK
<1>6. ShardInv'  BY <1>1 DEF ShardInv, Sharding
<1>7. TeardownInv'  BY <1>1 DEF TeardownInv, Bare
<1>8. PodInv'
  <2> SUFFICES ASSUME NEW p \in Pods, pods'[p] # None  PROVE  WellJudged(pods'[p])
    BY DEF PodInv, Alive, WellJudged, Active
  <2>1. pods[p] \in Workloads /\ pods[p] # None /\ p \in Alive  BY <1>2 DEF TypeOK, Alive
  <2>2. /\ pods'[p].ready = pods[p].ready /\ pods'[p].stage = pods[p].stage
        /\ pods'[p].cache = pods[p].cache /\ pods'[p].inventory = pods[p].inventory
    BY <1>2, <1>3, <2>1
  <2> QED  BY <2>1, <2>2 DEF PodInv, WellJudged
<1> QED  BY <1>5, <1>6, <1>7, <1>8

\* Access is left alone while a Deployment is found.
LEMMA DeleteDeploymentSafe == ASSUME IInv, delete_deployment PROVE IInv'
<1> USE DEF IInv
<1>1. CASE Undeploy  BY <1>1, UndeploySafe
<1>2. CASE /\ At("undeploy") /\ deployment = None /\ Goto("revoke")
           /\ UNCHANGED <<backend, objects, pods, balancers, world>>
  <2>1. pass' \in Passes /\ pass'.stage = "revoke"
    BY <1>2, GotoTyped DEF TypeOK, Stages
  <2>2. TypeOK'  BY <1>2, <2>1 DEF TypeOK
  <2>3. ShardInv'  BY <1>2, <2>1 DEF ShardInv, Sharding
  <2>4. TeardownInv'  BY <1>2, <2>1 DEF TeardownInv, Bare
  <2> QED  BY <1>2, <2>2, <2>3, <2>4, PodFrame
<1> QED  BY <1>1, <1>2 DEF delete_deployment

\* The access goes before the shards, and the shards go one by one.
LEMMA DeleteAccessSafe == ASSUME IInv, delete_backend_access PROVE IInv'
<1> USE DEF IInv
<1>1. CASE /\ At("revoke") /\ access' = None /\ Goto("unproject")
           /\ UNCHANGED <<backend, shards, deployment, pods, balancers, world>>
  <2>1. pass' \in Passes /\ pass'.stage = "unproject" /\ pass'.shard = 1
    BY <1>1, GotoTyped DEF TypeOK, Stages
  <2>2. TypeOK'  BY <1>1, <2>1 DEF TypeOK
  <2>3. ShardInv'  BY <1>1, <2>1 DEF ShardInv, Sharding
  <2>4. TeardownInv'  BY <1>1, <2>1, TrafficAssumption DEF TeardownInv, Bare
  <2> QED  BY <1>1, <2>2, <2>3, <2>4, PodFrame
<1>2. ASSUME /\ At("unproject") /\ shards' = [shards EXCEPT ![pass.shard] = None]
             /\ UNCHANGED <<backend, access, deployment, pods, balancers, world>>
      PROVE  /\ backend.finalizer /\ deployment' = None /\ access' = None
             /\ pass.shard \in 1..ShardCount
             /\ DOMAIN shards' = 1..ShardCount
             /\ \A i \in 1..ShardCount :
                  shards'[i] = IF i = pass.shard THEN None ELSE shards[i]
             /\ \A i \in 1..pass.shard : shards'[i] = None
  <2>1. /\ backend.finalizer /\ deployment' = None /\ access' = None
        /\ pass.shard \in 1..ShardCount /\ \A i \in 1..(pass.shard - 1) : shards[i] = None
    BY <1>2 DEF TeardownInv
  <2>2. /\ DOMAIN shards' = 1..ShardCount
        /\ \A i \in 1..ShardCount :
             shards'[i] = IF i = pass.shard THEN None ELSE shards[i]
    BY <1>2 DEF TypeOK
  <2>3. \A i \in 1..pass.shard : i \in 1..ShardCount /\ (i = pass.shard \/ i \in 1..(pass.shard - 1))
    BY <2>1, TrafficAssumption
  <2> QED  BY <2>1, <2>2, <2>3
<1>3. CASE /\ At("unproject") /\ shards' = [shards EXCEPT ![pass.shard] = None]
           /\ UNCHANGED <<backend, access, deployment, pods, balancers, world>>
           /\ pass.shard < ShardCount /\ pass' = [pass EXCEPT !.shard = @ + 1]
  <2>1. pass' \in Passes /\ pass'.stage = "unproject" /\ pass'.shard = pass.shard + 1
    BY <1>3, NextShardTyped DEF TypeOK
  <2>2. pass'.shard \in 1..ShardCount /\ 1..(pass'.shard - 1) = 1..pass.shard
    BY <1>2, <1>3, <2>1, TrafficAssumption
  <2>3. TypeOK'  BY <1>2, <1>3, <2>1 DEF TypeOK
  <2>4. ShardInv'  BY <1>2, <1>3, <2>1 DEF ShardInv, Sharding
  <2>5. TeardownInv'  BY <1>2, <1>3, <2>1, <2>2 DEF TeardownInv, Bare
  <2> QED  BY <1>3, <2>3, <2>4, <2>5, PodFrame
<1>4. CASE /\ At("unproject") /\ shards' = [shards EXCEPT ![pass.shard] = None]
           /\ UNCHANGED <<backend, access, deployment, pods, balancers, world>>
           /\ ~(pass.shard < ShardCount) /\ (Goto("release") \/ EndPass)
  <2>1. pass' \in Passes /\ pass'.stage \in {"release", "idle"}
    BY <1>4, GotoTyped, EndTyped DEF TypeOK, Stages
  <2>2. 1..pass.shard = 1..ShardCount  BY <1>2, <1>4, TrafficAssumption
  <2>3. TypeOK'  BY <1>2, <1>4, <2>1 DEF TypeOK
  <2>4. ShardInv'  BY <1>2, <1>4, <2>1 DEF ShardInv, Sharding
  <2>5. TeardownInv'  BY <1>2, <1>4, <2>1, <2>2 DEF TeardownInv, Bare
  <2> QED  BY <1>4, <2>3, <2>4, <2>5, PodFrame
<1> QED  BY <1>1, <1>3, <1>4 DEF delete_backend_access

\* When the finalizer goes nothing is left.
LEMMA FinalizeSafe == ASSUME IInv, finalize_backend PROVE IInv'
<1> USE DEF IInv
<1>1. /\ pass' \in Passes /\ pass'.stage = "idle" /\ pass.stage = "release"
      /\ backend' = NoBackend \/ backend' = backend
      /\ UNCHANGED <<objects, pods, balancers, world>>
  BY EndTyped DEF finalize_backend
<1>2. NoBackend.phase = "none"  BY DEF NoBackend
<1>3. TypeOK'  BY <1>1, Blanks DEF TypeOK
<1>4. ShardInv'  BY <1>1 DEF ShardInv, Sharding
<1>5. Bare'  BY <1>1 DEF TeardownInv, Bare
<1>6. TeardownInv'  BY <1>1, <1>2, <1>5 DEF TeardownInv, NoBackend
<1> QED  BY <1>1, <1>3, <1>4, <1>6, PodFrame

\* A pass over a valid resource with agents: compare, project, grant, deploy.
LEMMA ServeSafe ==
  ASSUME IInv, \/ deployment_access_changed \/ apply_backend_inventory
               \/ reconcile_backend_access \/ apply_backend_deployment
  PROVE  IInv'
<1> USE DEF IInv
<1>1. CASE Undeploy  BY <1>1, UndeploySafe
<1>2. CASE /\ At("compare") /\ Goto("project")
           /\ UNCHANGED <<backend, objects, pods, balancers, world>>
  <2>1. pass' \in Passes /\ pass'.stage = "project" /\ pass'.shard = 1 /\ pass'.fleet = pass.fleet
    BY <1>2, GotoTyped DEF TypeOK, Stages
  <2>2. TypeOK'  BY <1>2, <2>1 DEF TypeOK
  <2>3. ShardInv'  BY <1>2, <2>1, TrafficAssumption DEF ShardInv, Sharding
  <2>4. TeardownInv'  BY <1>2, <2>1 DEF TeardownInv, Bare
  <2> QED  BY <1>2, <2>2, <2>3, <2>4, PodFrame
<1>3. CASE apply_backend_inventory
  BY <1>3, WriteShardSafe DEF apply_backend_inventory, Sharding
<1>4. CASE reconcile_backend_access
  <2>1. /\ At("grant") /\ UNCHANGED <<backend, shards, deployment, pods, balancers, world>>
        /\ pass' \in Passes /\ pass'.stage = "deploy"
    BY <1>4, GotoTyped DEF reconcile_backend_access, TypeOK, Stages
  <2>2. TypeOK'  BY <2>1 DEF TypeOK
  <2>3. ShardInv'  BY <2>1 DEF ShardInv, Sharding
  <2>4. TeardownInv'  BY <2>1 DEF TeardownInv, Bare
  <2> QED  BY <2>1, <2>2, <2>3, <2>4, PodFrame
<1>5. CASE apply_backend_deployment
  <2>1. /\ At("deploy") /\ UNCHANGED <<backend, shards, access, pods, balancers, world>>
        /\ deployment' = pass.backend.target /\ pass' \in Passes /\ pass'.stage = "idle"
    BY <1>5, EndTyped DEF apply_backend_deployment
  <2>2. deployment' \in Targets  BY <2>1 DEF TypeOK, Passes, Backends
  <2>3. TypeOK'  BY <2>1, <2>2 DEF TypeOK
  <2>4. ShardInv'  BY <2>1 DEF ShardInv, Sharding
  <2>5. TeardownInv'  BY <2>1 DEF TeardownInv, Bare
  <2> QED  BY <2>1, <2>3, <2>4, <2>5, PodFrame
<1> QED  BY <1>1, <1>2, <1>3, <1>4, <1>5 DEF deployment_access_changed

\* A pass that fails leaves the objects as they are.
LEMMA PassFailsSafe == ASSUME IInv, PassFails PROVE IInv'
<1> USE DEF IInv
<1>1. CASE EndPass
  BY <1>1, EndTyped, QuietStep DEF PassFails
<1>2. CASE pass.stage \in {"cordon", "rewrite"} /\ Goto("undeploy")
  <2>1. pass' \in Passes /\ pass'.stage = "undeploy"
    BY <1>2, GotoTyped DEF TypeOK, Stages
  <2>2. backend.finalizer  BY <1>2 DEF TeardownInv
  <2> QED  BY <2>1, <2>2, QuietStep DEF PassFails
<1> QED  BY <1>1, <1>2 DEF PassFails

-----------------------------------------------------------------------------
(* The pods *)

\* One pod changes, and the objects and the pass do not.
LEMMA PutSafe ==
  ASSUME IInv, NEW p \in Pods, NEW w \in Workloads \cup {None}, Put(p, w),
         w # None => WellJudged(w),
         UNCHANGED <<backend, pass, objects, world>>, DOMAIN routed' = Targets
  PROVE  IInv'
<1> USE DEF IInv
<1>1. pods' \in [Pods -> Workloads \cup {None}]  BY DEF Put, TypeOK
<1>2. \A q \in Pods : pods'[q] = IF q = p THEN w ELSE pods[q]  BY DEF Put, TypeOK
<1>3. TypeOK'  BY <1>1 DEF TypeOK
<1>4. PodInv'
  <2> SUFFICES ASSUME NEW q \in Pods, pods'[q] # None  PROVE  WellJudged(pods'[q])
    BY DEF PodInv, Alive, WellJudged, Active
  <2> QED  BY <1>2 DEF PodInv, Alive
<1> QED  BY <1>3, <1>4, ShardFrame, TeardownFrame

\* A pod starts with an inventory that was described as a whole.
LEMMA StartSafe == ASSUME IInv, NEW p \in Pods, StartPod(p) PROVE IInv'
<1> USE DEF IInv
<1> DEFINE w == [target |-> deployment, owned |-> TRUE, stopping |-> FALSE,
                 stage |-> "observe", inventory |-> assemble_backend_inventory(shards),
                 cache |-> [n \in Nodes |-> "none"], ready |-> {}]
<1>1. assemble_backend_inventory(shards) \in Inventories  BY AssembledWhole DEF StartPod
<1>2. deployment \in Targets  BY DEF StartPod, TypeOK
<1>3. w \in Workloads  BY <1>1, <1>2 DEF Workloads
<1>4. WellJudged(w)  BY DEF WellJudged
<1>5. /\ Put(p, w) /\ UNCHANGED <<backend, pass, objects, world>>
      /\ DOMAIN routed' = Targets
  BY DEF StartPod, TypeOK
<1> QED  BY <1>3, <1>4, <1>5, PutSafe

\* A pod that is told to stop goes on from where it is.
LEMMA StopSafe == ASSUME IInv, NEW p \in Pods, StopPod(p) PROVE IInv'
<1> USE DEF IInv
<1> DEFINE w == [pods[p] EXCEPT !.stopping = TRUE]
<1>1. pods[p] \in Workloads /\ p \in Alive  BY DEF StopPod, Alive, TypeOK
<1>2. /\ w \in Workloads /\ w.ready = pods[p].ready /\ w.inventory = pods[p].inventory
      /\ w.stage = pods[p].stage /\ w.cache = pods[p].cache
  BY <1>1 DEF Workloads
<1>3. WellJudged(w)  BY <1>1, <1>2 DEF PodInv, WellJudged
<1>4. /\ Put(p, w) /\ UNCHANGED <<backend, pass, objects, world>>
      /\ DOMAIN routed' = Targets
  BY DEF StopPod, TypeOK
<1> QED  BY <1>2, <1>3, <1>4, PutSafe

\* A pod that is gone claims nothing.
LEMMA GoneSafe == ASSUME IInv, NEW p \in Pods, KillPod(p) \/ Shutdown(p) PROVE IInv'
<1> USE DEF IInv
<1>1. Put(p, None) /\ UNCHANGED <<backend, pass, objects, world>>
  BY DEF KillPod, Shutdown
<1>2. DOMAIN routed' = Targets  BY DEF KillPod, Shutdown, TypeOK
<1> QED  BY <1>1, <1>2, PutSafe

\* Programming the balancer uses the verdict up.
LEMMA ProgramSafe == ASSUME IInv, NEW p \in Pods, reconcile(p) PROVE IInv'
<1> USE DEF IInv
<1> DEFINE w == [pods[p] EXCEPT !.stage = "sleep", !.ready = {}]
<1>1. pods[p] \in Workloads  BY DEF reconcile, Alive, TypeOK
<1>2. w \in Workloads /\ w.ready = {} /\ w.stage = "sleep"  BY <1>1 DEF Workloads
<1>3. WellJudged(w)  BY <1>2 DEF WellJudged
<1>4. Put(p, w) /\ UNCHANGED <<backend, pass, objects, world>>
  BY DEF reconcile
<1>5. DOMAIN routed' = Targets  BY DEF reconcile, TypeOK
<1> QED  BY <1>2, <1>3, <1>4, <1>5, PutSafe

\* A cycle judges every active node by the last report known of it.
LEMMA Resolved ==
  ASSUME IInv, NEW p \in Pods, resolve_members(p)
  PROVE  \E w \in Workloads : /\ Put(p, w) /\ WellJudged(w)
                              /\ w.target = pods[p].target /\ w.stage = "program"
<1> USE DEF IInv
<1>1. pods[p] \in Workloads  BY DEF resolve_members, Alive, TypeOK
<1>2. PICK loaded \in {assemble_backend_inventory(shards), None} :
        LET inventory == IF loaded = None THEN pods[p].inventory ELSE loaded
            kept == IF loaded = None THEN pods[p].cache ELSE Retained(pods[p].cache, loaded)
        IN  \E seen \in SUBSET Active(inventory) :
              Put(p, [pods[p] EXCEPT !.stage = "program", !.inventory = inventory,
                       !.cache = resolve(kept, seen),
                       !.ready = resolve_readiness(inventory, resolve(kept, seen), seen)])
  BY DEF resolve_members, load_inventory, fetch_fleet_reports
<1> DEFINE inventory == IF loaded = None THEN pods[p].inventory ELSE loaded
           kept == IF loaded = None THEN pods[p].cache ELSE Retained(pods[p].cache, loaded)
<1>3. PICK seen \in SUBSET Active(inventory) :
              Put(p, [pods[p] EXCEPT !.stage = "program", !.inventory = inventory,
                       !.cache = resolve(kept, seen),
                       !.ready = resolve_readiness(inventory, resolve(kept, seen), seen)])
  BY <1>2
<1> DEFINE known == resolve(kept, seen)
           w == [pods[p] EXCEPT !.stage = "program", !.inventory = inventory,
                   !.cache = known, !.ready = resolve_readiness(inventory, known, seen)]
<1>4. inventory \in Inventories
  BY <1>1, <1>2, AssembledWhole DEF Workloads
<1>5. kept \in [Nodes -> {"none", "ready", "unready"}]
  BY <1>1 DEF Workloads, Retained
<1>6. known \in [Nodes -> {"none", "ready", "unready"}]
  BY <1>5 DEF resolve, TypeOK
<1>7. resolve_readiness(inventory, known, seen) \subseteq DOMAIN inventory
  BY DEF resolve_readiness, Active
<1>8. resolve_readiness(inventory, known, seen) \in SUBSET Nodes
  BY <1>4, <1>7, InventoryFacts
<1> HIDE DEF inventory, known
<1>9. /\ w \in Workloads /\ w.inventory = inventory /\ w.cache = known
      /\ w.ready = resolve_readiness(inventory, known, seen)
      /\ w.target = pods[p].target /\ w.stage = "program"
  BY <1>1, <1>4, <1>6, <1>8 DEF Workloads
<1>10. WellJudged(w)  BY <1>7, <1>9 DEF WellJudged, resolve_readiness
<1>11. Put(p, w)  BY <1>3 DEF inventory, known
<1> HIDE DEF w
<1> QED  BY <1>9, <1>10, <1>11

\* So a cycle is safe.
LEMMA ResolveSafe == ASSUME IInv, NEW p \in Pods, resolve_members(p) PROVE IInv'
<1>1. PICK w \in Workloads : Put(p, w) /\ WellJudged(w)  BY Resolved
<1>2. UNCHANGED <<backend, pass, objects, world>> /\ DOMAIN routed' = Targets
  BY DEF resolve_members, IInv, TypeOK
<1> QED  BY <1>1, <1>2, PutSafe

\* A report that ages in a pod's cache takes nothing away from its verdict.
LEMMA AgedSafe ==
  ASSUME NEW v \in Workloads, WellJudged(v), NEW n \in Nodes
  PROVE  LET w == [v EXCEPT !.cache[n] = Aged(@)]
         IN  /\ w \in Workloads /\ WellJudged(w)
             /\ w.target = v.target /\ w.stage = v.stage /\ w.inventory = v.inventory
<1> DEFINE c == [v.cache EXCEPT ![n] = Aged(@)]
           w == [v EXCEPT !.cache = c]
<1>1. v.cache \in [Nodes -> {"none", "ready", "unready"}]  BY DEF Workloads
<1>2. c \in [Nodes -> {"none", "ready", "unready"}]  BY <1>1 DEF Aged
<1>3. \A m \in DOMAIN v.cache : c[m] = "ready" => v.cache[m] = "ready"
  BY <1>1 DEF Aged
<1>4. Active(v.inventory) \subseteq Nodes
  BY InventoryFacts DEF Workloads, Active
<1> HIDE DEF c
<1>5. /\ w \in Workloads /\ w.cache = c /\ w.ready = v.ready
      /\ w.target = v.target /\ w.stage = v.stage /\ w.inventory = v.inventory
  BY <1>2 DEF Workloads
<1>6. WellJudged(w)  BY <1>1, <1>3, <1>4, <1>5 DEF WellJudged
<1>7. w = [v EXCEPT !.cache[n] = Aged(@)]  BY DEF c, Workloads
<1> QED  BY <1>5, <1>6, <1>7

\* A copy in one pod's cache leaves the window.
LEMMA ExpireCachedSafe ==
  ASSUME IInv, NEW p \in Pods, NEW n \in Reporters, ExpireCached(p, n)  PROVE IInv'
<1> USE DEF IInv
<1> DEFINE w == [pods[p] EXCEPT !.cache[n] = Aged(@)]
<1>1. pods[p] \in Workloads /\ p \in Alive  BY DEF ExpireCached, Alive, TypeOK
<1>2. n \in Nodes  BY TrafficAssumption
<1>3. w \in Workloads /\ WellJudged(w)  BY <1>1, <1>2, AgedSafe DEF PodInv
<1>4. /\ Put(p, w) /\ UNCHANGED <<backend, pass, objects, world>>
      /\ DOMAIN routed' = Targets
  BY DEF ExpireCached, TypeOK
<1> HIDE DEF w
<1> QED  BY <1>3, <1>4, PutSafe

\* A published report leaves the window, with every copy of it.
LEMMA ExpireSafe == ASSUME IInv, NEW n \in Reporters, Expire(n) PROVE IInv'
<1> USE DEF IInv
<1>1. n \in Nodes  BY TrafficAssumption
<1>2. \A p \in Pods : pods'[p] = IF p \in Alive THEN [pods[p] EXCEPT !.cache[n] = Aged(@)] ELSE None
  BY DEF Expire
<1>3. \A p \in Alive : pods[p] \in Workloads  BY DEF Alive, TypeOK
<1>4. \A p \in Alive : pods'[p] \in Workloads /\ WellJudged(pods'[p])
  <2> SUFFICES ASSUME NEW p \in Alive PROVE pods'[p] \in Workloads /\ WellJudged(pods'[p])
    OBVIOUS
  <2>1. pods'[p] = [pods[p] EXCEPT !.cache[n] = Aged(@)]  BY <1>2 DEF Alive
  <2> QED  BY <1>1, <1>3, <2>1, AgedSafe DEF PodInv
<1>5. pods' \in [Pods -> Workloads \cup {None}]  BY <1>2, <1>4 DEF Expire
<1>6. reports' \in [Nodes -> {"ready", "unready"}]  BY DEF Expire, TypeOK
<1>7. UNCHANGED <<backend, pass, objects, balancers, fleet>>  BY DEF Expire
<1>8. TypeOK'  BY <1>5, <1>6, <1>7 DEF TypeOK
<1>9. PodInv'
  <2> SUFFICES ASSUME NEW q \in Pods, pods'[q] # None  PROVE  WellJudged(pods'[q])
    BY DEF PodInv, Alive, WellJudged, Active
  <2> QED  BY <1>2, <1>4
<1> QED  BY <1>7, <1>8, <1>9, ShardFrame, TeardownFrame

-----------------------------------------------------------------------------
(* Reports and operators *)

\* A new report changes the published generation only.
LEMMA PublishSafe ==
  ASSUME IInv, NEW n \in Reporters, NEW claim \in {"ready", "unready"}, publish_report(n, claim)
  PROVE  IInv'
<1> USE DEF IInv
<1>1. TypeOK'  BY DEF publish_report, TypeOK
<1>2. UNCHANGED <<pods, backend, pass, objects>>  BY DEF publish_report
<1> QED  BY <1>1, <1>2, PodFrame, ShardFrame, TeardownFrame

\* An edit neither gives nor takes the finalizer; a deletion without one finds nothing.
LEMMA EditSafe ==
  ASSUME IInv, NEW b \in Backends, NEW f \in Fleets, EditBy(b, f),
         b.finalizer = backend.finalizer,
         b.phase = "none" => ~b.finalizer, b.phase = "deleting" => b.finalizer
  PROVE  IInv'
<1> USE DEF IInv
<1>1. /\ backend' = b /\ fleet' = f
      /\ UNCHANGED <<pass, objects, pods, balancers, reports>>
  BY DEF EditBy
<1>2. TypeOK'  BY <1>1 DEF TypeOK
<1>3. TeardownInv'  BY <1>1 DEF TeardownInv, Bare
<1> QED  BY <1>1, <1>2, <1>3, ShardFrame, PodFrame

\* Every operator's edit is one of those.
LEMMA OperatorSafe ==
  ASSUME IInv, \/ \E t \in Targets : CreateBackend(t) \/ \E valid \in BOOLEAN : EditBackend(valid, t)
               \/ DeleteBackend
               \/ \E f \in Fleets : SelectAgents(f)
  PROVE  IInv'
<1> USE DEF IInv
<1>0. backend \in Backends /\ fleet \in Fleets  BY DEF TypeOK
<1>1. ASSUME NEW t \in Targets, CreateBackend(t) PROVE IInv'
  <2> DEFINE b == [NoBackend EXCEPT !.phase = "live", !.target = t]
  <2>1. b \in Backends /\ b.phase = "live" /\ ~b.finalizer
    BY Blanks DEF Backends, NoBackend
  <2>2. EditBy(b, fleet) /\ ~backend.finalizer  BY <1>1 DEF CreateBackend, TeardownInv
  <2>3. backend.finalizer = b.finalizer  BY <1>0, <2>1, <2>2 DEF Backends
  <2> HIDE DEF b
  <2> QED  BY <1>0, <2>1, <2>2, <2>3, EditSafe
<1>2. ASSUME NEW t \in Targets, NEW valid \in BOOLEAN, EditBackend(valid, t) PROVE IInv'
  <2> DEFINE b == [backend EXCEPT !.valid = valid, !.target = t]
  <2>1. b \in Backends /\ b.phase = "live" /\ b.finalizer = backend.finalizer
    BY <1>0, <1>2 DEF Backends, EditBackend
  <2>2. EditBy(b, fleet)  BY <1>2 DEF EditBackend
  <2> HIDE DEF b
  <2> QED  BY <1>0, <2>1, <2>2, EditSafe
<1>3. CASE DeleteBackend /\ backend.finalizer
  <2> DEFINE b == [backend EXCEPT !.phase = "deleting"]
  <2>1. b \in Backends /\ b.phase = "deleting" /\ b.finalizer = backend.finalizer
    BY <1>0 DEF Backends
  <2>2. EditBy(b, fleet)  BY <1>3 DEF DeleteBackend
  <2> HIDE DEF b
  <2> QED  BY <1>0, <1>3, <2>1, <2>2, EditSafe
<1>4. CASE DeleteBackend /\ ~backend.finalizer
  <2>1. EditBy(NoBackend, fleet)  BY <1>4 DEF DeleteBackend
  <2>2. ~NoBackend.finalizer /\ NoBackend.phase = "none"  BY DEF NoBackend
  <2>3. NoBackend.finalizer = backend.finalizer
    BY <1>0, <1>4, <2>2, Blanks DEF Backends
  <2> QED  BY <1>0, <2>1, <2>2, <2>3, Blanks, EditSafe
<1>5. ASSUME NEW f \in Fleets, SelectAgents(f) PROVE IInv'
  BY <1>0, <1>5, EditSafe DEF SelectAgents, TeardownInv
<1> QED  BY <1>1, <1>2, <1>3, <1>4, <1>5

-----------------------------------------------------------------------------
(* The inductive invariant *)

\* No step of the controller, a pod or an operator breaks the invariant.
LEMMA StepSafe == ASSUME IInv, [Next]_vars PROVE IInv'
<1>1. CASE Pass
  BY <1>1, ReconcileSafe, FinalizerSafe, DrainSafe, DeleteDeploymentSafe, DeleteAccessSafe,
     FinalizeSafe, ServeSafe DEF Pass
<1>2. CASE PassFails  BY <1>2, PassFailsSafe
<1>3. ASSUME NEW p \in Pods, Pod(p) PROVE IInv'
  BY <1>3, StartSafe, StopSafe, ResolveSafe, ProgramSafe, GoneSafe DEF Pod
<1>4. ASSUME NEW p \in Pods, KillPod(p) PROVE IInv'  BY <1>4, GoneSafe
<1>5. ASSUME NEW p \in Pods, NEW n \in Reporters, ExpireCached(p, n) PROVE IInv'
  BY <1>5, ExpireCachedSafe
<1>6. ASSUME NEW n \in Reporters, Expire(n) PROVE IInv'  BY <1>6, ExpireSafe
<1>7. ASSUME NEW n \in Reporters, NEW claim \in {"ready", "unready"}, publish_report(n, claim)
      PROVE  IInv'
  BY <1>7, PublishSafe
<1>8. CASE \/ \E t \in Targets : CreateBackend(t) \/ \E valid \in BOOLEAN : EditBackend(valid, t)
           \/ DeleteBackend
           \/ \E f \in Fleets : SelectAgents(f)
  BY <1>8, OperatorSafe
<1>9. CASE UNCHANGED vars
  <2>1. TypeOK'  BY <1>9 DEF IInv, TypeOK, vars
  <2> QED  BY <1>9, <2>1, ShardFrame, TeardownFrame, PodFrame DEF IInv, vars
<1> QED  BY <1>1, <1>2, <1>3, <1>4, <1>5, <1>6, <1>7, <1>8, <1>9 DEF Next

\* Nothing is generated before the first pass.
LEMMA InitSafe == ASSUME Init PROVE IInv
<1>1. [NoBackend EXCEPT !.phase = "live"] \in Backends /\ ~NoBackend.finalizer
  BY Blanks DEF NoBackend, Backends
<1>2. backend \in Backends /\ backend.phase = "live" /\ ~backend.finalizer
  BY <1>1, Blanks DEF Init, NoBackend, Backends
<1>3. pass \in Passes /\ pass.stage = "idle"  BY Blanks DEF Init, Idle
<1>4. TypeOK
  BY <1>2, <1>3 DEF Init, TypeOK
<1>5. ShardInv  BY <1>3 DEF Init, ShardInv, Sharding
<1>6. TeardownInv  BY <1>2, <1>3 DEF Init, TeardownInv, Bare
<1>7. PodInv  BY DEF Init, PodInv, Alive
<1> QED  BY <1>4, <1>5, <1>6, <1>7 DEF IInv

\* So the invariant always holds.
LEMMA Invariant == Spec => []IInv
  BY InitSafe, StepSafe, PTL DEF Spec

\* For all agents, selections and numbers of shards: no interleaving of
\* apply_backend_inventory, of passes that die in it and of load_inventory gives
\* a pod an inventory the controller never described.
THEOREM InventoriesAreWhole == Spec => []InventoryWhole
<1>1. IInv => InventoryWhole
  BY DEF IInv, TypeOK, InventoryWhole, Alive, Workloads
<1> QED  BY <1>1, Invariant, PTL

\* For all of them: whatever fails between delete_deployment and
\* finalize_backend, the resource goes last.
THEOREM BackendGoesLast == Spec => []NothingOutlivesBackend
<1>1. IInv => NothingOutlivesBackend
  BY DEF IInv, TeardownInv, Bare, NothingOutlivesBackend
<1> QED  BY <1>1, Invariant, PTL

-----------------------------------------------------------------------------
(* The rotation *)

\* The pods there are stay, on their targets and with their verdicts.
Keeps ==
    \A q \in Alive :
        /\ pods'[q] # None /\ pods'[q].target = pods[q].target
        /\ pods[q].stage = "program" => pods'[q].stage = "program"

\* One pod changes and keeps target and verdict, or is new.
LEMMA PutKeeps ==
  ASSUME IInv, NEW p \in Pods, NEW w \in Workloads, Put(p, w),
         p \in Alive => /\ w.target = pods[p].target
                        /\ pods[p].stage = "program" => w.stage = "program"
  PROVE  Keeps
<1>1. \A q \in Pods : pods'[q] = IF q = p THEN w ELSE pods[q]  BY DEF Put, IInv, TypeOK
<1>2. w # None  BY TrafficAssumption
<1> QED  BY <1>1, <1>2 DEF Keeps, Alive

\* Only programming and the end of a pod touch the rotation or its writers.
LEMMA OtherSteps ==
  ASSUME IInv, [Next]_vars
  PROVE  \/ \E p \in Pods : reconcile(p) \/ KillPod(p) \/ Shutdown(p)
         \/ UNCHANGED balancers /\ Keeps
<1>0. /\ \A p \in Alive : pods[p] \in Workloads
      /\ None \notin Workloads
  BY TrafficAssumption DEF IInv, TypeOK, Alive
<1>1. CASE UNCHANGED <<pods, balancers>>  BY <1>1 DEF Keeps, Alive
<1>2. CASE Undeploy
  <2>1. \A w \in Workloads : /\ [w EXCEPT !.owned = FALSE] \in Workloads
                             /\ [w EXCEPT !.owned = FALSE].stage = w.stage
                             /\ [w EXCEPT !.owned = FALSE].target = w.target
    BY DEF Workloads
  <2>2. \A p \in Alive : pods'[p] = [pods[p] EXCEPT !.owned = FALSE]
    BY <1>2 DEF Undeploy, Alive
  <2>3. \A p \in Alive : /\ pods'[p] \in Workloads /\ pods'[p].target = pods[p].target
                         /\ pods'[p].stage = pods[p].stage
    <3> TAKE p \in Alive
    <3>1. pods[p] \in Workloads /\ pods'[p] = [pods[p] EXCEPT !.owned = FALSE]  BY <1>0, <2>2
    <3> QED  BY <2>1, <3>1
  <2>4. Keeps  BY <1>0, <2>3 DEF Keeps
  <2> QED  BY <1>2, <2>4 DEF Undeploy
<1>3. CASE Pass \/ PassFails
  <2>1. UNCHANGED <<pods, balancers>> \/ Undeploy
    BY <1>3 DEF Pass, PassFails, reconcile_backends, ensure_backend_finalizer,
       drain_backend_projection, WriteShard, delete_deployment, delete_backend_access,
       finalize_backend, deployment_access_changed, apply_backend_inventory,
       reconcile_backend_access, apply_backend_deployment
  <2> QED  BY <1>1, <1>2, <2>1
<1>4. ASSUME NEW p \in Pods, StartPod(p) PROVE UNCHANGED balancers /\ Keeps
  <2> DEFINE w == [target |-> deployment, owned |-> TRUE, stopping |-> FALSE,
                   stage |-> "observe", inventory |-> assemble_backend_inventory(shards),
                   cache |-> [n \in Nodes |-> "none"], ready |-> {}]
  <2>1. assemble_backend_inventory(shards) \in Inventories
    BY <1>4, AssembledWhole DEF StartPod, IInv
  <2>2. deployment \in Targets  BY <1>4 DEF StartPod, IInv, TypeOK
  <2>3. w \in Workloads  BY <2>1, <2>2 DEF Workloads
  <2>4. p = Free  BY <1>4 DEF StartPod
  <2>5. Alive \subseteq Pods  BY DEF Alive
  <2>6. p \notin Alive  BY <2>4, <2>5, TrafficAssumption DEF Free
  <2>7. Put(p, w) /\ UNCHANGED balancers  BY <1>4 DEF StartPod
  <2> HIDE DEF w
  <2> QED  BY <2>3, <2>6, <2>7, PutKeeps
<1>5. ASSUME NEW p \in Pods, StopPod(p) PROVE UNCHANGED balancers /\ Keeps
  <2> DEFINE w == [pods[p] EXCEPT !.stopping = TRUE]
  <2>1. p \in Alive /\ Put(p, w) /\ UNCHANGED balancers  BY <1>5 DEF StopPod
  <2>2. w \in Workloads /\ w.target = pods[p].target /\ w.stage = pods[p].stage
    BY <1>0, <2>1 DEF Workloads
  <2> HIDE DEF w
  <2> QED  BY <2>1, <2>2, PutKeeps
<1>6. ASSUME NEW p \in Pods, resolve_members(p) PROVE UNCHANGED balancers /\ Keeps
  <2>1. p \in Alive /\ pods[p].stage # "program" /\ UNCHANGED balancers
    BY <1>6 DEF resolve_members, Cycles
  <2>2. PICK w \in Workloads : Put(p, w) /\ w.target = pods[p].target
    BY <1>6, Resolved
  <2> QED  BY <2>1, <2>2, PutKeeps
<1>7. ASSUME NEW p \in Pods, NEW n \in Reporters, ExpireCached(p, n)
      PROVE  UNCHANGED balancers /\ Keeps
  <2> DEFINE w == [pods[p] EXCEPT !.cache[n] = Aged(@)]
  <2>1. p \in Alive /\ Put(p, w) /\ UNCHANGED balancers  BY <1>7 DEF ExpireCached
  <2>2. n \in Nodes /\ WellJudged(pods[p])  BY <2>1, TrafficAssumption DEF IInv, PodInv
  <2>3. w \in Workloads /\ w.target = pods[p].target /\ w.stage = pods[p].stage
    BY <1>0, <2>1, <2>2, AgedSafe
  <2> HIDE DEF w
  <2> QED  BY <2>1, <2>3, PutKeeps
<1>8. ASSUME NEW n \in Reporters, Expire(n) PROVE UNCHANGED balancers /\ Keeps
  <2>1. \A p \in Alive : pods'[p] = [pods[p] EXCEPT !.cache[n] = Aged(@)]
    BY <1>8 DEF Expire, Alive
  <2>2. \A p \in Alive : n \in Nodes /\ WellJudged(pods[p])  BY TrafficAssumption DEF IInv, PodInv
  <2>3. \A p \in Alive : /\ pods'[p] \in Workloads /\ pods'[p].target = pods[p].target
                         /\ pods'[p].stage = pods[p].stage
    <3> TAKE p \in Alive
    <3>1. /\ pods[p] \in Workloads /\ WellJudged(pods[p]) /\ n \in Nodes
          /\ pods'[p] = [pods[p] EXCEPT !.cache[n] = Aged(@)]
      BY <1>0, <2>1, <2>2
    <3> QED  BY <3>1, AgedSafe
  <2> QED  BY <1>0, <1>8, <2>3 DEF Keeps, Expire
<1>9. CASE \/ \E n \in Reporters : \E claim \in {"ready", "unready"} : publish_report(n, claim)
           \/ \E t \in Targets : CreateBackend(t) \/ \E valid \in BOOLEAN : EditBackend(valid, t)
           \/ DeleteBackend
           \/ \E f \in Fleets : SelectAgents(f)
           \/ UNCHANGED vars
  BY <1>1, <1>9 DEF publish_report, CreateBackend, EditBackend, DeleteBackend, SelectAgents,
     EditBy, vars
<1> QED  BY <1>3, <1>4, <1>5, <1>6, <1>7, <1>8, <1>9 DEF Next, Pod

\* What programming does to its target, and that it touches no other.
LEMMA Programs ==
  ASSUME IInv, NEW p \in Pods, reconcile(p), NEW t, t = pods[p].target
  PROVE  /\ p \in Alive /\ t \in Targets /\ pods'[p] # None /\ pods'[p].target = t
         /\ pods[p].stage = "program"
         /\ \A q \in Pods \ {p} : pods'[q] = pods[q]
         /\ \A u \in Targets \ {t} : routed'[u] = routed[u]
         /\ routed'[t] \subseteq routed[t] \cup pods[p].ready
         /\ \A n \in routed[t] \cap pods[p].ready : n \in routed'[t]
         /\ \A u \in abandoned : u # t => u \in abandoned'
<1> USE DEF IInv
<1>1. p \in Alive /\ pods[p] \in Workloads /\ pods[p].stage = "program"
  BY DEF reconcile, Alive, TypeOK
<1>2. t \in Targets  BY <1>1 DEF Workloads
<1> DEFINE w == [pods[p] EXCEPT !.stage = "sleep", !.ready = {}]
<1>3. w \in Workloads /\ w.target = t  BY <1>1 DEF Workloads
<1>4. pods' = [pods EXCEPT ![p] = w]  BY DEF reconcile, Put
<1> HIDE DEF w
<1>5. pods'[p] = w /\ \A q \in Pods \ {p} : pods'[q] = pods[q]  BY <1>4 DEF TypeOK
<1>6. PICK told : /\ routed' = IF told = {} THEN routed
                       ELSE [routed EXCEPT ![t] = Programmed(t, told, pods[p].ready)]
                  /\ abandoned' \in {abandoned, abandoned \ {t}}
  BY DEF reconcile
<1>7. /\ Programmed(t, told, pods[p].ready) \subseteq routed[t] \cup pods[p].ready
      /\ routed[t] \cap pods[p].ready \subseteq Programmed(t, told, pods[p].ready)
  BY DEF Programmed
<1>8. /\ \A u \in Targets \ {t} : routed'[u] = routed[u]
      /\ routed'[t] \in {routed[t], Programmed(t, told, pods[p].ready)}
  BY <1>2, <1>6 DEF TypeOK
<1>9. w # None  BY <1>3, TrafficAssumption
<1> QED  BY <1>1, <1>2, <1>3, <1>5, <1>6, <1>7, <1>8, <1>9

\* For all of them: a cycle of run that missed any number of reports takes no
\* node out of rotation whose last known report stands (LastKnownGood).
THEOREM BlindCycleKeepsRotation == Spec => BlipKeepsRotation
<1> DEFINE Kept ==
      \A p \in Alive :
         pods[p].stage = "program" /\ pods'[p] # None /\ pods'[p].stage = "sleep" =>
           \A n \in routed[pods[p].target] \ routed'[pods[p].target] :
             n \notin Active(pods[p].inventory) \/ pods[p].cache[n] # "ready"
<1>1. ASSUME IInv, [Next]_vars PROVE Kept
  <2> SUFFICES ASSUME NEW p \in Alive, pods[p].stage = "program", pods'[p] # None,
                      pods'[p].stage = "sleep", NEW n \in routed[pods[p].target],
                      n \notin routed'[pods[p].target],
                      n \in Active(pods[p].inventory), pods[p].cache[n] = "ready"
               PROVE  FALSE
    OBVIOUS
  <2>1. n \in pods[p].ready  BY <1>1 DEF IInv, PodInv, WellJudged
  <2>2. p \in Pods  BY DEF Alive
  <2>3. CASE reconcile(p)
    BY <1>1, <2>1, <2>2, <2>3, Programs
  <2>4. ASSUME NEW q \in Pods, q # p, reconcile(q) \/ KillPod(q) \/ Shutdown(q) PROVE FALSE
    <3>1. pods'[p] = pods[p]
      BY <1>1, <2>2, <2>4 DEF reconcile, KillPod, Shutdown, Put, IInv, TypeOK
    <3> QED  BY <3>1
  <2>5. CASE KillPod(p) \/ Shutdown(p)
    BY <1>1, <2>2, <2>5 DEF KillPod, Shutdown, Put, IInv, TypeOK
  <2>6. CASE Keeps  BY <2>6 DEF Keeps
  <2> QED  BY <1>1, <2>3, <2>4, <2>5, <2>6, OtherSteps
<1>2. IInv /\ [Next]_vars => [Kept]_vars  BY <1>1
<1>3. Spec => [][Kept]_vars  BY <1>2, Invariant, PTL DEF Spec
<1> QED  BY <1>3 DEF BlipKeepsRotation

\* If the members are declared once and for all, every inventory has them.
LEMMA SameMembers ==
  ASSUME ServersDeclared, NEW inv \in Inventories, NEW f \in Fleets \ {Empty}
  PROVE  DOMAIN inv = DOMAIN f
  BY InventoryFacts DEF ServersDeclared

\* Targets whose writers and rotation are as before stay answered for.
LEMMA RoutedKept ==
  ASSUME RoutedInv, Keeps, UNCHANGED balancers
  PROVE  RoutedInv'
<1>1. Alive \subseteq Alive'  BY DEF Keeps, Alive
<1> QED  BY <1>1 DEF RoutedInv, NothingStranded, Keeps

\* Programming a target leaves its writer there.
LEMMA RoutedByProgram ==
  ASSUME ServersDeclared, IInv, RoutedInv, NEW p \in Pods, reconcile(p)
  PROVE  RoutedInv'
<1> DEFINE t == pods[p].target
<1>1. /\ p \in Alive /\ t \in Targets /\ pods'[p] # None /\ pods'[p].target = t
      /\ \A q \in Pods \ {p} : pods'[q] = pods[q]
      /\ \A u \in Targets \ {t} : routed'[u] = routed[u]
      /\ routed'[t] \subseteq routed[t] \cup pods[p].ready
      /\ \A u \in abandoned : u # t => u \in abandoned'
  BY Programs
<1>2. \A f \in Fleets \ {Empty} : pods[p].ready \subseteq DOMAIN f
  <2>1. pods[p].inventory \in Inventories /\ pods[p].ready \subseteq DOMAIN pods[p].inventory
    BY <1>1 DEF IInv, TypeOK, PodInv, WellJudged, Alive, Workloads
  <2> QED  BY <2>1, SameMembers
<1> HIDE DEF t
<1>3. \A u \in Targets, f \in Fleets \ {Empty} : routed'[u] \subseteq DOMAIN f
  BY <1>1, <1>2 DEF RoutedInv
<1>4. NothingStranded'
  <2> SUFFICES ASSUME NEW u \in Targets, routed'[u] # {}, u \notin abandoned'
               PROVE  \E q \in Pods : pods'[q] # None /\ pods'[q].target = u
    BY DEF NothingStranded, Alive
  <2>1. CASE u = t  BY <1>1, <2>1
  <2>2. CASE u # t
    <3>1. routed[u] # {} /\ u \notin abandoned  BY <1>1, <2>2
    <3>2. PICK q \in Alive : pods[q].target = u  BY <3>1 DEF RoutedInv, NothingStranded
    <3>3. CASE q = p  BY <2>2, <3>2, <3>3 DEF t
    <3>4. CASE q # p  BY <1>1, <3>2, <3>4 DEF Alive
    <3> QED  BY <3>3, <3>4
  <2> QED  BY <2>1, <2>2
<1> QED  BY <1>3, <1>4 DEF RoutedInv

\* A pod that ends has emptied its target, or the target is recorded.
LEMMA RoutedByEnd ==
  ASSUME ServersDeclared, IInv, RoutedInv, NEW p \in Pods, KillPod(p) \/ Shutdown(p)
  PROVE  RoutedInv'
<1> DEFINE t == pods[p].target
           members == DOMAIN pods[p].inventory
<1>1. p \in Alive /\ pods[p] \in Workloads  BY DEF KillPod, Shutdown, Alive, IInv, TypeOK
<1>2. t \in Targets /\ pods[p].inventory \in Inventories  BY <1>1 DEF Workloads
<1>3. \A q \in Pods \ {p} : pods'[q] = pods[q]
  BY DEF KillPod, Shutdown, Put, IInv, TypeOK
<1>4. members # {} /\ routed[t] \subseteq members
  BY <1>2, InventoryFacts, SameMembers DEF RoutedInv
<1>5. /\ \A u \in Targets : routed'[u] \subseteq routed[u]
      /\ \A u \in abandoned : u # t => u \in abandoned'
      /\ routed'[t] = {} \/ t \in abandoned'
  <2>1. CASE KillPod(p)  BY <2>1 DEF KillPod
  <2>2. CASE Shutdown(p)
    <3>1. PICK told :
            /\ routed' = IF told = {} THEN routed ELSE [routed EXCEPT ![t] = Drained(t, told)]
            /\ abandoned' = IF told = members THEN abandoned \ {t} ELSE abandoned \cup {t}
      BY <2>2 DEF Shutdown
    <3> HIDE DEF t, members
    <3>2. Drained(t, told) \subseteq routed[t] /\ (told = members => Drained(t, told) = {})
      BY <1>4 DEF Drained
    <3>3. DOMAIN routed = Targets  BY DEF IInv, TypeOK
    <3>4. CASE told = members
      <4>1. routed' = [routed EXCEPT ![t] = {}] /\ abandoned' = abandoned \ {t}
        BY <1>4, <3>1, <3>2, <3>4
      <4> QED  BY <1>2, <3>3, <4>1
    <3>5. CASE told # members
      <4>1. abandoned' = abandoned \cup {t}  BY <3>1, <3>5
      <4>2. \A u \in Targets : routed'[u] \subseteq routed[u]
        BY <1>2, <3>1, <3>2, <3>3
      <4> QED  BY <4>1, <4>2
    <3> QED  BY <3>4, <3>5
  <2> QED  BY <2>1, <2>2
<1> HIDE DEF t, members
<1>6. \A u \in Targets, f \in Fleets \ {Empty} : routed'[u] \subseteq DOMAIN f
  BY <1>5 DEF RoutedInv
<1>7. NothingStranded'
  <2> SUFFICES ASSUME NEW u \in Targets, routed'[u] # {}, u \notin abandoned'
               PROVE  \E q \in Pods : pods'[q] # None /\ pods'[q].target = u
    BY DEF NothingStranded, Alive
  <2>1. u # t  BY <1>5
  <2>2. routed[u] # {} /\ u \notin abandoned  BY <1>5, <2>1
  <2>3. PICK q \in Alive : pods[q].target = u  BY <2>2 DEF RoutedInv, NothingStranded
  <2>4. q # p  BY <2>1, <2>3 DEF t
  <2> QED  BY <1>3, <2>3, <2>4 DEF Alive
<1> QED  BY <1>6, <1>7 DEF RoutedInv

\* For all agents, targets and pods, if the balancer declares the members of
\* every inventory: a node in rotation has a pod to withdraw it, or its target's
\* last writer was killed or failed in the drain at the end of run.
THEOREM NothingIsStranded == ASSUME ServersDeclared PROVE Spec => []NothingStranded
<1>1. Init => RoutedInv  BY DEF Init, RoutedInv, NothingStranded
<1>2. IInv /\ RoutedInv /\ [Next]_vars => RoutedInv'
  BY OtherSteps, RoutedKept, RoutedByProgram, RoutedByEnd
<1>3. RoutedInv => NothingStranded  BY DEF RoutedInv
<1> QED  BY <1>1, <1>2, <1>3, Invariant, PTL DEF Spec
=============================================================================
