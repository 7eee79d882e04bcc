-------------------------- MODULE RepositoryProofs --------------------------
(***************************************************************************)
(* For any buckets, assignments and periods, and any number of resources   *)
(* created under the name: an object scope that holds anything, or can     *)
(* still be written, is bound to a resource that its finalizer holds, and  *)
(* no pass works on what an earlier resource of the name left behind.      *)
(*                                                                         *)
(* The argument.  The finalizer follows the bind, every write to the scope *)
(* follows the finalizer, and the pass that removes it starts after the    *)
(* drain.  A capability can outlive the last authorization by the memo,    *)
(* the request and its own lifetime; GatewayInv bounds each of the three   *)
(* by the age of the deletion, which the drain exceeds.                    *)
(***************************************************************************)
EXTENDS Repository, TLAPS

Publishing == {"inputs", "publish", "sweep", "record", "status"}
Clearing   == {"clear_admitted", "clear_local", "release"}
Finalizing == {"drain", "prune"} \cup Clearing

\* Deletion is held by the finalizer, and the finalizer follows the bind.
ResourceInv ==
  /\ cr.phase = "absent" => ~cr.finalizer /\ cr.bound = None /\ cr.anchor = 0
  /\ cr.phase # "absent" => cr.bucket \in Buckets /\ cr.uid > 0
  /\ cr.phase = "deleting" => cr.finalizer
  /\ cr.phase # "deleting" => cr.age = 0
  /\ cr.finalizer => cr.bound # None
  /\ cr.anchor # 0 => cr.finalizer /\ cr.anchor = cr.uid
  /\ cr.bound # None => cr.bound = cr.bucket

\* What the pass may conclude about the resource from the step it is at.
PassInv ==
  /\ pass.step \in {"bind", "finalizer"} \cup Publishing =>
       pass.bucket \in Buckets /\ pass.assignment \in Assignments
  /\ pass.step = "bind" =>
       /\ pass.repository.phase # "absent"
       /\ cr.phase # "absent" => cr.bucket = pass.bucket
       /\ pass.repository.bound = None => cr.bound = None
       /\ pass.repository.finalizer => pass.repository.bound # None
  /\ pass.step = "finalizer" =>
       pass.repository.bound = pass.bucket /\ pass.repository.phase # "absent"
  /\ pass.step \in {"bind", "finalizer"} /\ pass.repository.finalizer =>
       cr.finalizer /\ cr.bound = pass.repository.bound /\ cr.uid = pass.repository.uid
  /\ pass.step \in Publishing =>
       cr.finalizer /\ cr.bound = pass.bucket /\ cr.uid = pass.repository.uid
  /\ pass.step \in {"sweep", "record", "status"} => local = cr.uid
  /\ pass.step \in Finalizing => cr.phase = "deleting" /\ pass.repository.bound = cr.bound
  /\ pass.step \in {"prune"} \cup Clearing => cr.age = OBJECT_CAPABILITY_DRAIN
  /\ pass.step \in {"clear_local", "release"} => admitted = 0
  /\ pass.step = "release" => local = 0

\* Everything that is stored belongs to the resource that holds the name.
ScopeInv ==
  /\ \A b \in Buckets : Holds(b) => cr.finalizer /\ cr.bound = b
  /\ \A b \in Buckets : served[b] # None => served[b].root = cr.uid
  /\ pass.step \in Clearing => \A b \in Buckets : ~Holds(b)
  /\ local # 0 => cr.finalizer /\ local = cr.uid
  /\ admitted # 0 => cr.finalizer /\ admitted = cr.uid

\* How long after a deletion a memo answers, a request runs and a capability can be spent.
GatewayInv ==
  /\ memo.left > 0 =>
       cr.finalizer /\ dest = cr.bound /\ memo.left + cr.age <= GATEWAY_AUTHORIZATION_MEMO_TTL
  /\ request.stage # "none" => dest \in Buckets
  /\ request.stage \in {"resolve", "sign"} =>
       /\ request.bucket \in Buckets
       /\ cr.finalizer /\ cr.age <= GATEWAY_AUTHORIZATION_MEMO_TTL - 1 + request.elapsed
  /\ request.stage = "resolve" =>
       dest \in {request.bucket, cr.bucket} /\ cr.age <= request.elapsed
  /\ request.stage = "sign" => request.bucket = cr.bound
  /\ \A c \in caps :
       cr.finalizer /\ c.bucket = cr.bound /\ c.left + cr.age < OBJECT_CAPABILITY_DRAIN

IInv == TypeOK /\ ResourceInv /\ PassInv /\ ScopeInv /\ GatewayInv

USE DEF control, objects, gateway, bounds, At, Publishing, Clearing, Finalizing

-----------------------------------------------------------------------------
(* Frames and types *)

\* The records that stand for "nothing" are well formed.
LEMMA Blanks == Nothing \in Resource /\ Idle \in Pass /\ NoRequest \in Request
<1>1. Nothing \in Resource
  BY RepositoryAssumption DEF Nothing, Resource, OBJECT_CAPABILITY_DRAIN
<1>2. Idle \in Pass  BY <1>1 DEF Idle, Pass, Steps
<1>3. NoRequest \in Request  BY RepositoryAssumption DEF NoRequest, Request
<1> QED  BY <1>1, <1>2, <1>3

\* What a released resource leaves behind is well formed and holds nothing.
LEMMA GoneTyped ==
  ASSUME NEW r \in Resource
  PROVE  /\ Gone(r) \in Resource
         /\ Gone(r).phase = "absent" /\ ~Gone(r).finalizer /\ Gone(r).age = 0
         /\ Gone(r).bound = None /\ Gone(r).anchor = 0
  BY Blanks DEF Gone, Nothing, Resource

\* Going to the next step changes the step only.
LEMMA GotoTyped ==
  ASSUME pass \in Pass, NEW step \in Steps, Goto(step)
  PROVE  /\ pass' \in Pass
         /\ pass'.step = step /\ pass'.repository = pass.repository
         /\ pass'.bucket = pass.bucket /\ pass'.assignment = pass.assignment
  BY DEF Pass, Goto

\* A pass that has ended claims nothing.
LEMMA EndTyped ==
  ASSUME EndPass
  PROVE  pass' \in Pass /\ pass'.step = "idle" /\ PassInv'
<1>1. pass' \in Pass /\ pass'.step = "idle"  BY Blanks DEF EndPass, Idle
<1> QED  BY <1>1 DEF PassInv

\* Each invariant reads only some of the variables.
LEMMA ResourceFrame == ASSUME ResourceInv, UNCHANGED cr PROVE ResourceInv'
  BY DEF ResourceInv

\* The same for the pass.
LEMMA PassFrame == ASSUME PassInv, UNCHANGED <<cr, control>> PROVE PassInv'
  BY DEF PassInv

\* The same for the scopes.
LEMMA ScopeFrame == ASSUME ScopeInv, UNCHANGED <<cr, control, objects>> PROVE ScopeInv'
  BY DEF ScopeInv, Holds

\* The scopes do not depend on the step of a pass that is not clearing.
LEMMA ScopeStep ==
  ASSUME ScopeInv, UNCHANGED <<cr, local, admitted, objects>>, pass'.step \notin Clearing
  PROVE  ScopeInv'
  BY DEF ScopeInv, Holds

\* The same for the gateway.
LEMMA GatewayFrame == ASSUME GatewayInv, UNCHANGED <<cr, gateway>> PROVE GatewayInv'
  BY DEF GatewayInv

-----------------------------------------------------------------------------
(* Operators *)

\* A new resource is unbound; under ~Retargets it has the bucket of the pass that binds.
LEMMA CreateSafe ==
  ASSUME IInv, ~Retargets, NEW b \in Buckets, Create(b)
  PROVE  IInv'
<1> USE DEF IInv
<1>1. TypeOK'
  BY RepositoryAssumption DEF TypeOK, Resource, Create, OBJECT_CAPABILITY_DRAIN
<1>2. ResourceInv'
  BY RepositoryAssumption DEF TypeOK, Resource, ResourceInv, Create
<1>3. PassInv'
  BY RepositoryAssumption DEF TypeOK, Resource, ResourceInv, PassInv, Create
<1>4. ScopeInv'
  BY RepositoryAssumption DEF TypeOK, Resource, ResourceInv, ScopeInv, Holds, Create
<1>5. GatewayInv'
  BY RepositoryAssumption DEF TypeOK, Resource, ResourceInv, GatewayInv, Create
<1> QED  BY <1>1, <1>2, <1>3, <1>4, <1>5

\* A resource without the finalizer disappears at once: nothing was ever written for it.
LEMMA DeleteSafe ==
  ASSUME IInv, Delete
  PROVE  IInv'
<1> USE DEF IInv
<1>1. cr' \in Resource
  BY Blanks DEF TypeOK, Resource, Delete, Gone, Nothing
<1>2. TypeOK'
  BY <1>1 DEF TypeOK, Delete
<1>3. ResourceInv'
  BY DEF TypeOK, Resource, ResourceInv, Delete, Gone, Nothing
<1>4. PassInv'
  BY DEF TypeOK, Resource, ResourceInv, PassInv, Delete, Gone, Nothing
<1>5. ScopeInv'
  BY DEF TypeOK, Resource, ResourceInv, ScopeInv, Holds, Delete, Gone, Nothing
<1>6. GatewayInv'
  BY DEF TypeOK, Resource, ResourceInv, GatewayInv, Delete, Gone, Nothing
<1> QED  BY <1>1, <1>2, <1>3, <1>4, <1>5, <1>6

\* The plan is not part of the argument.
LEMMA EditSafe ==
  ASSUME IInv, Edit
  PROVE  IInv'
<1> USE DEF IInv
<1>1. TypeOK'
  BY RepositoryAssumption DEF TypeOK, Edit
<1>2. ResourceInv' /\ PassInv' /\ ScopeInv' /\ GatewayInv'
  BY ResourceFrame, PassFrame, ScopeFrame, GatewayFrame DEF Edit
<1> QED  BY <1>1, <1>2

-----------------------------------------------------------------------------
(* The pass over a live resource *)

\* A pass binds or drains what it reads; without a resource it clears the state directory.
LEMMA StartSafe ==
  ASSUME IInv, reconcile_once
  PROVE  IInv'
<1> USE DEF IInv
<1>1. pass' \in Pass /\ local' \in 0 .. MaxUid
  BY RepositoryAssumption DEF TypeOK, Pass, Resource, Steps, reconcile_once, Started
<1>2. TypeOK'
  BY <1>1 DEF TypeOK, reconcile_once
<1>3. PassInv'
  BY RepositoryAssumption
    DEF TypeOK, Resource, Pass, ResourceInv, PassInv, reconcile_once, Started
<1>4. ScopeInv'
  BY DEF TypeOK, Resource, Pass, ScopeInv, Holds, reconcile_once, Started
<1>5. ResourceInv' /\ GatewayInv'
  BY ResourceFrame, GatewayFrame DEF reconcile_once
<1> QED  BY <1>1, <1>2, <1>3, <1>4, <1>5

\* The bind: an unbound resource of the name gets the bucket, which is its own.
LEMMA BindSafe ==
  ASSUME IInv, ensure_repository_storage_ownership
  PROVE  IInv'
<1> USE RepositoryAssumption DEF IInv
<1> DEFINE r == pass.repository
<1>1. pass.step = "bind" /\ pass.bucket \in Buckets /\ pass.assignment \in Assignments
  BY DEF ensure_repository_storage_ownership, PassInv
<1>2. /\ r \in Resource /\ r.phase # "absent"
      /\ cr.phase # "absent" => cr.bucket = pass.bucket
      /\ r.bound = None => cr.bound = None
      /\ r.finalizer => r.bound # None /\ cr.finalizer /\ cr.bound = r.bound /\ cr.uid = r.uid
  BY <1>1 DEF TypeOK, Pass, PassInv
<1>3. CASE /\ r.bound = None /\ cr.phase # "absent"
           /\ cr' = [cr EXCEPT !.bound = pass.bucket]
           /\ pass' = [pass EXCEPT !.step = "finalizer", !.repository = cr']
  <2> USE DEF ensure_repository_storage_ownership
  <2>1. /\ cr' \in Resource
        /\ cr'.phase = cr.phase /\ cr'.uid = cr.uid /\ cr'.bucket = cr.bucket
        /\ cr'.finalizer = cr.finalizer /\ cr'.anchor = cr.anchor /\ cr'.age = cr.age
        /\ cr'.bound = pass.bucket
    BY <1>1, <1>3 DEF TypeOK, Resource
  <2>2. /\ pass' \in Pass /\ pass'.step = "finalizer" /\ pass'.repository = cr'
        /\ pass'.bucket = pass.bucket /\ pass'.assignment = pass.assignment
    BY <1>3, <2>1 DEF TypeOK, Pass, Steps
  <2>3. cr.bound = None /\ ~cr.finalizer /\ cr.anchor = 0
    BY <1>2, <1>3 DEF ResourceInv, TypeOK, Resource
  <2>4. TypeOK'  BY <2>1, <2>2 DEF TypeOK
  <2>5. ResourceInv'  BY <1>1, <1>2, <1>3, <2>1, <2>3 DEF ResourceInv
  <2>6. PassInv'
    BY <1>1, <1>3, <2>1, <2>2, <2>3 DEF PassInv
  <2>7. ScopeInv'  BY <2>1, <2>2, <2>3 DEF ScopeInv, Holds
  <2>8. GatewayInv'  BY <2>1, <2>3 DEF GatewayInv
  <2> QED  BY <2>4, <2>5, <2>6, <2>7, <2>8
<1>4. CASE r.bound = pass.bucket /\ Goto("finalizer") /\ UNCHANGED cr
  <2> USE DEF ensure_repository_storage_ownership
  <2>1. /\ pass' \in Pass /\ pass'.step = "finalizer" /\ pass'.repository = r
        /\ pass'.bucket = pass.bucket /\ pass'.assignment = pass.assignment
    BY <1>4, GotoTyped DEF TypeOK, Steps
  <2>2. PassInv'
    BY <1>1, <1>2, <1>4, <2>1 DEF PassInv
  <2> QED  BY <1>4, <2>1, <2>2, ResourceFrame, ScopeStep, GatewayFrame DEF TypeOK
<1>5. CASE EndPass /\ UNCHANGED cr
  BY <1>5, EndTyped, ResourceFrame, ScopeStep, GatewayFrame
    DEF TypeOK, ensure_repository_storage_ownership
<1> QED
  BY <1>3, <1>4, <1>5
    DEF ensure_repository_storage_ownership, repository_storage_ownership_needs_binding

\* The finalizer lands only on the resource the pass read, bound as it was.
LEMMA FinalizerSafe ==
  ASSUME IInv, ensure_repository_finalizer
  PROVE  IInv'
<1> USE RepositoryAssumption DEF IInv
<1> DEFINE r == pass.repository
<1>1. /\ r \in Resource /\ pass.bucket \in Buckets /\ pass.assignment \in Assignments
      /\ r.bound = pass.bucket /\ r.phase # "absent"
      /\ r.finalizer => cr.finalizer /\ cr.bound = r.bound /\ cr.uid = r.uid
  BY DEF ensure_repository_finalizer, TypeOK, Pass, PassInv
<1>2. CASE Goto("inputs")
  <2> USE DEF ensure_repository_finalizer
  <2>1. /\ pass' \in Pass /\ pass'.step = "inputs" /\ pass'.repository = r
        /\ pass'.bucket = pass.bucket /\ pass'.assignment = pass.assignment
    BY <1>2, GotoTyped DEF TypeOK, Steps
  <2>2. /\ cr' \in Resource
        /\ cr'.phase = cr.phase /\ cr'.uid = cr.uid /\ cr'.bucket = cr.bucket
        /\ cr'.bound = cr.bound /\ cr'.anchor = cr.anchor /\ cr'.age = cr.age
        /\ cr'.finalizer
        /\ cr.bound = pass.bucket /\ cr.uid = r.uid
        /\ cr.phase # "absent"
    <3>1. CASE r.finalizer /\ UNCHANGED cr
      BY <1>1, <3>1 DEF TypeOK, ResourceInv
    <3>2. CASE cr = r /\ cr' = [cr EXCEPT !.finalizer = TRUE]
      BY <1>1, <3>2 DEF Resource
    <3> QED  BY <2>1, <3>1, <3>2, EndTyped
  <2>3. TypeOK'  BY <2>1, <2>2 DEF TypeOK
  <2>4. ResourceInv'  BY <1>1, <2>2 DEF ResourceInv
  <2>5. PassInv'  BY <1>1, <2>1, <2>2 DEF PassInv
  <2>6. ScopeInv'  BY <2>1, <2>2 DEF ScopeInv, Holds
  <2>7. GatewayInv'  BY <2>2 DEF GatewayInv
  <2> QED  BY <2>3, <2>4, <2>5, <2>6, <2>7
<1>3. CASE EndPass /\ UNCHANGED cr
  BY <1>3, EndTyped, ResourceFrame, ScopeStep, GatewayFrame
    DEF TypeOK, ensure_repository_finalizer
<1> QED  BY <1>2, <1>3 DEF ensure_repository_finalizer

\* An input goes into the scope the finalizer holds.
LEMMA InputsSafe ==
  ASSUME IInv, put_inputs
  PROVE  IInv'
<1> USE DEF IInv
<1>1. ResourceInv' /\ GatewayInv'
  BY ResourceFrame, GatewayFrame DEF put_inputs
<1>2. CASE EndPass /\ UNCHANGED inputs
  BY <1>1, <1>2, EndTyped, ScopeStep DEF TypeOK, put_inputs
<1>3. CASE /\ inputs' = [inputs EXCEPT ![pass.bucket][pass.assignment] =
                           IF @ = Absent THEN 0 ELSE @]
           /\ Goto("publish")
  <2>1. TypeOK'
    BY <1>3, GotoTyped, RepositoryAssumption
      DEF TypeOK, PassInv, Steps, put_inputs, Absent, PRIVATE_OBJECT_RETIREMENT_GRACE
  <2>2. PassInv'
    BY <1>3 DEF TypeOK, Resource, Pass, PassInv, Goto, put_inputs
  <2>3. ScopeInv'
    BY <1>3 DEF TypeOK, Resource, Pass, PassInv, Goto, ScopeInv, Holds, put_inputs
  <2> QED  BY <1>1, <2>1, <2>2, <2>3
<1> QED  BY <1>2, <1>3 DEF put_inputs

\* The served generation has the root of the state directory, which is this resource's.
LEMMA PublishSafe ==
  ASSUME IInv, publish_repository
  PROVE  IInv'
<1> USE DEF IInv
<1>1. /\ pass.bucket \in Buckets /\ pass.assignment \in Assignments
      /\ cr.finalizer /\ pass.repository.uid = cr.uid /\ cr.uid \in 1 .. MaxUid
  BY RepositoryAssumption DEF TypeOK, Resource, ResourceInv, PassInv, publish_repository
<1>2. local' \in 0 .. MaxUid /\ (~refuse_generation_rollback => local' = cr.uid)
  BY <1>1 DEF TypeOK, ScopeInv, publish_repository
<1>3. pass' \in Pass
  BY GotoTyped, EndTyped DEF TypeOK, Steps, publish_repository
<1>4. served' \in [Buckets -> Generation \cup {None}]
  <2>1. CASE refuse_generation_rollback  BY <2>1 DEF TypeOK, publish_repository
  <2>2. CASE ~refuse_generation_rollback
    <3>1. [assignment |-> pass.assignment, root |-> local'] \in Generation
      BY <1>1, <1>2, <2>2 DEF Generation
    <3> QED  BY <2>2, <3>1 DEF TypeOK, publish_repository
  <2> QED  BY <2>1, <2>2
<1>5. TypeOK'
  BY <1>2, <1>3, <1>4 DEF TypeOK, publish_repository
<1>6. PassInv'
  BY EndTyped DEF TypeOK, Resource, Pass, PassInv, Goto, ScopeInv, publish_repository
<1>7. ScopeInv'
  BY DEF TypeOK, Resource, Pass, PassInv, Goto, ScopeInv, Holds, publish_repository,
         EndPass, Idle
<1>8. ResourceInv' /\ GatewayInv'
  BY ResourceFrame, GatewayFrame DEF publish_repository
<1> QED  BY <1>5, <1>6, <1>7, <1>8

\* The sweep only deletes.
LEMMA SweepSafe ==
  ASSUME IInv, sweep_inputs_before
  PROVE  IInv'
<1> USE DEF IInv
<1>1. TypeOK'
  BY GotoTyped, RepositoryAssumption
    DEF TypeOK, PassInv, Steps, sweep_inputs_before, Absent,
        PRIVATE_OBJECT_RETIREMENT_GRACE
<1>2. PassInv'
  BY DEF TypeOK, Resource, Pass, PassInv, Goto, sweep_inputs_before
<1>3. ScopeInv'
  BY DEF TypeOK, Resource, Pass, PassInv, Goto, ScopeInv, Holds, sweep_inputs_before
<1>4. ResourceInv' /\ GatewayInv'
  BY ResourceFrame, GatewayFrame DEF sweep_inputs_before
<1> QED  BY <1>1, <1>2, <1>3, <1>4

\* The admitted state is recorded under the resource the pass read.
LEMMA RecordSafe ==
  ASSUME IInv, store_admitted_state
  PROVE  IInv'
<1> USE DEF IInv
<1>1. TypeOK'
  BY GotoTyped, RepositoryAssumption DEF TypeOK, Pass, Resource, Steps, store_admitted_state
<1>2. PassInv'
  BY DEF TypeOK, Resource, Pass, PassInv, Goto, store_admitted_state
<1>3. ScopeInv'
  BY DEF TypeOK, Resource, Pass, PassInv, Goto, ScopeInv, Holds, store_admitted_state
<1>4. ResourceInv' /\ GatewayInv'
  BY ResourceFrame, GatewayFrame DEF store_admitted_state
<1> QED  BY <1>1, <1>2, <1>3, <1>4

\* The status pins the root of the state directory.
LEMMA StatusSafe ==
  ASSUME IInv, publish_resource_statuses
  PROVE  IInv'
<1> USE DEF IInv
<1>1. cr.finalizer /\ cr.bound = pass.bucket /\ local = cr.uid
  BY DEF PassInv, publish_resource_statuses
<1>2. /\ cr' \in Resource
      /\ cr'.phase = cr.phase /\ cr'.uid = cr.uid /\ cr'.bucket = cr.bucket
      /\ cr'.finalizer = cr.finalizer /\ cr'.bound = cr.bound /\ cr'.age = cr.age
      /\ cr'.anchor \in {cr.anchor, cr.uid}
  BY <1>1 DEF TypeOK, Resource, publish_resource_statuses
<1>3. TypeOK'
  BY <1>2, EndTyped DEF TypeOK, publish_resource_statuses
<1>4. ResourceInv'
  BY <1>1, <1>2 DEF ResourceInv
<1>5. PassInv'
  BY EndTyped DEF publish_resource_statuses
<1>6. ScopeInv'
  BY <1>2, EndTyped DEF ScopeInv, Holds, publish_resource_statuses
<1>7. GatewayInv'
  BY <1>2 DEF GatewayInv, publish_resource_statuses
<1> QED  BY <1>3, <1>4, <1>5, <1>6, <1>7

-----------------------------------------------------------------------------
(* The pass over a deleted resource *)

\* The scope is pruned only after the drain.
LEMMA DrainSafe ==
  ASSUME IInv, repository_capability_drain
  PROVE  IInv'
<1> USE DEF IInv
<1>1. cr.age = OBJECT_CAPABILITY_DRAIN
  <2>1. OBJECT_CAPABILITY_DRAIN \in Nat  BY RepositoryAssumption DEF OBJECT_CAPABILITY_DRAIN
  <2>2. cr.age \in 0 .. OBJECT_CAPABILITY_DRAIN  BY DEF TypeOK, Resource
  <2> QED  BY <2>1, <2>2 DEF repository_capability_drain
<1>2. TypeOK'
  BY GotoTyped DEF TypeOK, Steps, repository_capability_drain
<1>3. PassInv'
  BY <1>1 DEF TypeOK, Resource, Pass, PassInv, Goto, repository_capability_drain
<1>4. ScopeInv'
  BY DEF TypeOK, Resource, Pass, PassInv, Goto, ScopeInv, Holds, repository_capability_drain
<1>5. ResourceInv' /\ GatewayInv'
  BY ResourceFrame, GatewayFrame DEF repository_capability_drain
<1> QED  BY <1>2, <1>3, <1>4, <1>5

\* After the prune no scope holds anything.
LEMMA PruneSafe ==
  ASSUME IInv, prune_prefix
  PROVE  IInv'
<1> USE DEF IInv
<1>1. pass.repository.bound \in Buckets
  BY DEF TypeOK, Resource, ResourceInv, PassInv, prune_prefix
<1>2. TypeOK'
  BY <1>1, GotoTyped, RepositoryAssumption
    DEF TypeOK, Steps, prune_prefix, Absent, PRIVATE_OBJECT_RETIREMENT_GRACE
<1>3. PassInv'
  BY DEF TypeOK, Resource, Pass, PassInv, Goto, prune_prefix
<1>4. ScopeInv'
  BY DEF TypeOK, Resource, Pass, PassInv, Goto, ScopeInv, Holds, prune_prefix
<1>5. ResourceInv' /\ GatewayInv'
  BY ResourceFrame, GatewayFrame DEF prune_prefix
<1> QED  BY <1>2, <1>3, <1>4, <1>5

\* An interrupted prune only deletes.
LEMMA PruneFailsSafe ==
  ASSUME IInv, prune_fails
  PROVE  IInv'
<1> USE DEF IInv
<1>1. pass.repository.bound \in Buckets
  BY DEF TypeOK, Resource, ResourceInv, PassInv, prune_fails
<1>2. TypeOK'
  <2>1. served' \in [Buckets -> Generation \cup {None}] /\ reports' \subseteq Buckets
    BY <1>1 DEF TypeOK, prune_fails
  <2>2. inputs' \in [Buckets -> [Assignments -> Absent .. PRIVATE_OBJECT_RETIREMENT_GRACE]]
    BY <1>1, RepositoryAssumption
      DEF TypeOK, prune_fails, Absent, PRIVATE_OBJECT_RETIREMENT_GRACE
  <2> QED  BY <2>1, <2>2, EndTyped, RepositoryAssumption DEF TypeOK, prune_fails
<1>3. PassInv'
  BY EndTyped DEF prune_fails
<1>4. ScopeInv'
  BY EndTyped DEF TypeOK, ScopeInv, Holds, prune_fails
<1>5. ResourceInv' /\ GatewayInv'
  BY ResourceFrame, GatewayFrame DEF prune_fails
<1> QED  BY <1>2, <1>3, <1>4, <1>5

\* The admitted state goes.
LEMMA ClearAdmittedSafe ==
  ASSUME IInv, clear_admitted_repository_state
  PROVE  IInv'
<1> USE DEF IInv
<1>1. TypeOK'
  BY GotoTyped, RepositoryAssumption DEF TypeOK, Steps, clear_admitted_repository_state
<1>2. PassInv'
  BY DEF TypeOK, Resource, Pass, PassInv, Goto, clear_admitted_repository_state
<1>3. ScopeInv'
  BY DEF TypeOK, Resource, Pass, PassInv, Goto, ScopeInv, Holds,
         clear_admitted_repository_state
<1>4. ResourceInv' /\ GatewayInv'
  BY ResourceFrame, GatewayFrame DEF clear_admitted_repository_state
<1> QED  BY <1>1, <1>2, <1>3, <1>4

\* The state directory goes.
LEMMA ClearLocalSafe ==
  ASSUME IInv, clear_local_repository_state
  PROVE  IInv'
<1> USE DEF IInv
<1>1. TypeOK'
  BY GotoTyped, RepositoryAssumption DEF TypeOK, Steps, clear_local_repository_state
<1>2. PassInv'
  BY DEF TypeOK, Resource, Pass, PassInv, Goto, clear_local_repository_state
<1>3. ScopeInv'
  BY DEF TypeOK, Resource, Pass, PassInv, Goto, ScopeInv, Holds,
         clear_local_repository_state
<1>4. ResourceInv' /\ GatewayInv'
  BY ResourceFrame, GatewayFrame DEF clear_local_repository_state
<1> QED  BY <1>1, <1>2, <1>3, <1>4

\* The resource goes last, when nothing is left that its finalizer guards.
LEMMA ReleaseSafe ==
  ASSUME IInv, release_finalizer
  PROVE  IInv'
<1> USE DEF IInv
<1>1. cr' \in Resource
  BY GoneTyped DEF TypeOK, release_finalizer
<1>2. TypeOK'
  BY <1>1, EndTyped DEF TypeOK, release_finalizer
<1>3. ResourceInv'
  BY DEF TypeOK, Resource, ResourceInv, release_finalizer, Gone, Nothing
<1>4. PassInv'
  BY EndTyped DEF release_finalizer
<1>5. ScopeInv'
  BY EndTyped
    DEF TypeOK, Resource, PassInv, ScopeInv, Holds, release_finalizer, Gone, Nothing
<1>6. GatewayInv'
  BY RepositoryAssumption
    DEF TypeOK, Resource, Request, Capability, PassInv, GatewayInv, release_finalizer,
        OBJECT_CAPABILITY_DRAIN
<1> QED  BY <1>1, <1>2, <1>3, <1>4, <1>5, <1>6

\* A pass that fails leaves everything where it was.
LEMMA PassFailsSafe ==
  ASSUME IInv, PassFails
  PROVE  IInv'
<1> USE DEF IInv
<1>1. TypeOK'
  BY EndTyped, RepositoryAssumption DEF TypeOK, PassFails
<1>2. PassInv'
  BY EndTyped DEF PassFails
<1>3. ScopeInv'
  BY EndTyped, ScopeStep DEF PassFails
<1>4. ResourceInv' /\ GatewayInv'
  BY ResourceFrame, GatewayFrame DEF PassFails
<1> QED  BY <1>1, <1>2, <1>3, <1>4

-----------------------------------------------------------------------------
(* The gateway *)

\* The gateway loads the bucket of the resource; what was memoized is unaffected.
LEMMA RebuildSafe ==
  ASSUME IInv, rebuild_destination
  PROVE  IInv'
<1> USE DEF IInv
<1>1. TypeOK'
  BY DEF TypeOK, Resource, rebuild_destination
<1>2. GatewayInv'
  BY DEF TypeOK, Resource, ResourceInv, GatewayInv, rebuild_destination
<1>3. ResourceInv' /\ PassInv' /\ ScopeInv'
  BY ResourceFrame, PassFrame, ScopeFrame DEF rebuild_destination
<1> QED  BY <1>1, <1>2, <1>3

\* A memoized answer is younger than the memo's lifetime.
LEMMA AuthorizeSafe ==
  ASSUME IInv,
         NEW kind \in {"inputs", "report"}, NEW a \in Assignments \cup {None},
         authorize_node(kind, a)
  PROVE  IInv'
<1> USE DEF IInv
<1>1. TypeOK'
  BY RepositoryAssumption DEF TypeOK, Request, authorize_node, NoMemo, Memo
<1>2. GatewayInv'
  BY RepositoryAssumption
    DEF TypeOK, Resource, Request, GatewayInv, authorize_node, MemoAnswers, NoMemo, Memo
<1>3. ResourceInv' /\ PassInv' /\ ScopeInv'
  BY ResourceFrame, PassFrame, ScopeFrame DEF authorize_node
<1> QED  BY <1>1, <1>2, <1>3

\* A request that meets a live resource runs at most its timeout after the deletion.
LEMMA LiveSafe ==
  ASSUME IInv, live_repository
  PROVE  IInv'
<1> USE RepositoryAssumption DEF IInv
<1>1. ResourceInv' /\ PassInv' /\ ScopeInv'
  BY ResourceFrame, PassFrame, ScopeFrame DEF live_repository
<1>2. CASE cr.phase = "live" /\ cr.anchor # 0
  <2>1. /\ request' \in Request
        /\ request'.stage = "resolve" /\ request'.bucket = dest
        /\ request'.elapsed = request.elapsed /\ request.elapsed \in Nat
    <3>1. request \in Request /\ dest \in Buckets \cup {None} /\ cr.anchor \in 0 .. MaxUid
      BY DEF TypeOK, Resource
    <3>2. request' = [request EXCEPT !.stage = "resolve", !.bucket = dest, !.anchor = cr.anchor]
      BY <1>2 DEF live_repository
    <3>3. request' = [stage |-> "resolve", kind |-> request.kind,
                      assignment |-> request.assignment, bucket |-> dest,
                      anchor |-> cr.anchor, elapsed |-> request.elapsed]
      BY <3>1, <3>2 DEF Request
    <3> QED  BY <3>1, <3>3 DEF Request
  <2>2. cr.finalizer /\ cr.age = 0
    BY <1>2 DEF ResourceInv
  <2>3. dest \in Buckets
    BY DEF TypeOK, live_repository, GatewayInv
  <2>4. TypeOK'  BY <2>1 DEF TypeOK, live_repository
  <2>5. GatewayInv'  BY <2>1, <2>2, <2>3 DEF GatewayInv, live_repository
  <2> QED  BY <1>1, <2>4, <2>5
<1>3. CASE ~(cr.phase = "live" /\ cr.anchor # 0)
  BY <1>1, <1>3, Blanks DEF TypeOK, GatewayInv, live_repository, NoRequest
<1> QED  BY <1>2, <1>3

\* Metadata under the pinned root is the resource's own, so the scope is its bound one.
LEMMA ResolveSafe ==
  ASSUME IInv, resolve_signed_enrollment
  PROVE  IInv'
<1> USE RepositoryAssumption DEF IInv
<1>1. ResourceInv' /\ PassInv' /\ ScopeInv'
  BY ResourceFrame, PassFrame, ScopeFrame DEF resolve_signed_enrollment
<1>2. /\ request.bucket \in Buckets /\ dest \in {request.bucket, cr.bucket}
      /\ cr.finalizer /\ cr.age <= request.elapsed
      /\ request.elapsed \in Nat /\ cr.age \in Nat
  BY DEF TypeOK, Request, Resource, GatewayInv, resolve_signed_enrollment,
         OBJECT_CAPABILITY_DRAIN
<1>3. CASE /\ Resolved
           /\ memo' = Memo(served[request.bucket].assignment,
                           GATEWAY_AUTHORIZATION_MEMO_TTL - request.elapsed)
           /\ request' = [request EXCEPT !.stage = "sign", !.anchor = 0]
  <2>1. request.bucket = cr.bound /\ cr.bound = cr.bucket
    BY <1>2, <1>3 DEF Resolved, ScopeInv, Holds, ResourceInv
  <2>2. /\ memo' \in [assignment : Assignments \cup {None},
                      left : 0 .. GATEWAY_AUTHORIZATION_MEMO_TTL]
        /\ memo'.left > 0 => memo'.left + request.elapsed = GATEWAY_AUTHORIZATION_MEMO_TTL
    BY <1>2, <1>3 DEF TypeOK, Generation, Resolved, Memo
  <2>3. /\ request' \in Request /\ request'.stage = "sign"
        /\ request'.bucket = request.bucket /\ request'.elapsed = request.elapsed
    <3>1. request \in Request  BY DEF TypeOK
    <3>2. request' = [stage |-> "sign", kind |-> request.kind,
                      assignment |-> request.assignment, bucket |-> request.bucket,
                      anchor |-> 0, elapsed |-> request.elapsed]
      BY <1>3, <3>1 DEF Request
    <3> QED  BY <3>1, <3>2 DEF Request
  <2>4. TypeOK'  BY <2>2, <2>3 DEF TypeOK, resolve_signed_enrollment
  <2>5. memo' \in [assignment : Assignments \cup {None}, left : Nat]
    BY <2>2
  <2>6. GatewayInv'
    BY <1>2, <2>1, <2>2, <2>3, <2>5 DEF GatewayInv, resolve_signed_enrollment
  <2> QED  BY <1>1, <2>4, <2>6
<1>4. CASE request' = NoRequest /\ UNCHANGED memo
  BY <1>1, <1>4, Blanks DEF TypeOK, GatewayInv, resolve_signed_enrollment, NoRequest
<1> QED  BY <1>3, <1>4 DEF resolve_signed_enrollment

\* A capability is minted within memo and timeout of the deletion.
LEMMA MintSafe ==
  ASSUME IInv, signed_object_url
  PROVE  IInv'
<1> USE DEF IInv
<1>1. TypeOK'
  BY Blanks, RepositoryAssumption
    DEF TypeOK, Request, Capability, GatewayInv, signed_object_url, Minted
<1>2. GatewayInv'
  BY RepositoryAssumption
    DEF TypeOK, Resource, Request, NoRequest, Capability, GatewayInv, signed_object_url,
        Minted, OBJECT_CAPABILITY_DRAIN
<1>3. ResourceInv' /\ PassInv' /\ ScopeInv'
  BY ResourceFrame, PassFrame, ScopeFrame DEF signed_object_url
<1> QED  BY <1>1, <1>2, <1>3

\* An upload lands in a scope whose capability is still alive.
LEMMA UploadSafe ==
  ASSUME IInv, NEW c \in caps, Upload(c)
  PROVE  IInv'
<1> USE DEF IInv
<1>1. TypeOK'
  BY DEF TypeOK, Capability, Upload
<1>2. ScopeInv'
  BY RepositoryAssumption
    DEF TypeOK, Resource, Capability, PassInv, ScopeInv, Holds, GatewayInv, Upload,
        OBJECT_CAPABILITY_DRAIN
<1>3. ResourceInv' /\ PassInv' /\ GatewayInv'
  BY ResourceFrame, PassFrame, GatewayFrame DEF Upload
<1> QED  BY <1>1, <1>2, <1>3

\* Time shortens every lifetime by what it adds to the age of the deletion.
LEMMA TickSafe ==
  ASSUME IInv, Tick
  PROVE  IInv'
<1> USE DEF IInv
<1>1. Min2(cr.age + 1, OBJECT_CAPABILITY_DRAIN) \in 0 .. OBJECT_CAPABILITY_DRAIN
  BY RepositoryAssumption DEF TypeOK, Resource, Min2, OBJECT_CAPABILITY_DRAIN
<1>2. cr' \in Resource
  BY <1>1 DEF TypeOK, Resource, Tick
<1>3. inputs' \in [Buckets -> [Assignments -> Absent .. PRIVATE_OBJECT_RETIREMENT_GRACE]]
  BY RepositoryAssumption DEF TypeOK, Tick, Min2, Absent, PRIVATE_OBJECT_RETIREMENT_GRACE
<1>4. memo' \in [assignment : Assignments \cup {None}, left : 0 .. GATEWAY_AUTHORIZATION_MEMO_TTL]
  BY RepositoryAssumption DEF TypeOK, Tick, Memo
<1>5. caps' \subseteq Capability
  <2> SUFFICES ASSUME NEW d \in caps, d.left > 0
               PROVE  [d EXCEPT !.left = @ - 1] \in Capability
    BY DEF Tick
  <2>1. d \in Capability  BY DEF TypeOK
  <2> QED  BY <2>1, RepositoryAssumption DEF Capability
<1>6. request' \in Request
  <2>1. request \in Request  BY DEF TypeOK
  <2>2. CASE request' = NoRequest  BY <2>2, Blanks
  <2>3. CASE /\ request.elapsed < GATEWAY_REQUEST_TIMEOUT
             /\ request' = [request EXCEPT !.elapsed = @ + 1]
    BY <2>1, <2>3, RepositoryAssumption DEF Request
  <2> QED  BY <2>2, <2>3 DEF Tick
<1>7. request' \in Request /\ caps' \subseteq Capability
  BY <1>5, <1>6
<1>8. TypeOK'
  BY <1>2, <1>3, <1>4, <1>7 DEF TypeOK, Tick
<1>9. ResourceInv'
  BY DEF TypeOK, Resource, ResourceInv, Tick
<1>10. PassInv'
  BY RepositoryAssumption DEF TypeOK, Resource, PassInv, Tick, Min2, OBJECT_CAPABILITY_DRAIN
<1>11. ScopeInv'
  BY DEF TypeOK, Resource, ScopeInv, Holds, Tick
<1>12. GatewayInv'
  BY RepositoryAssumption
    DEF TypeOK, Resource, Request, NoRequest, Capability, ResourceInv, GatewayInv, Tick,
        Min2, Memo, OBJECT_CAPABILITY_DRAIN
<1> QED  BY <1>2, <1>3, <1>4, <1>7, <1>8, <1>9, <1>10, <1>11, <1>12

-----------------------------------------------------------------------------
(* The theorems *)

\* The inductive invariant holds initially.
LEMMA InitSafe == Init => IInv
<1> SUFFICES ASSUME Init PROVE IInv
  OBVIOUS
<1> USE RepositoryAssumption DEF Init
<1>1. TypeOK
  BY Blanks DEF TypeOK, NoMemo, Memo, Absent, PRIVATE_OBJECT_RETIREMENT_GRACE
<1>2. ResourceInv  BY DEF ResourceInv, Nothing
<1>3. PassInv  BY DEF PassInv, Idle
<1>4. ScopeInv  BY DEF ScopeInv, Holds, Idle
<1>5. GatewayInv  BY DEF GatewayInv, NoMemo, Memo, NoRequest
<1> QED  BY <1>1, <1>2, <1>3, <1>4, <1>5 DEF IInv

\* Every step preserves it.
LEMMA StepSafe == ASSUME ~Retargets, IInv, [Next]_vars PROVE IInv'
<1>1. ASSUME NEW b \in Buckets, Create(b) PROVE IInv'  BY <1>1, CreateSafe
<1>2. CASE Delete  BY <1>2, DeleteSafe
<1>3. CASE Edit  BY <1>3, EditSafe
<1>4. CASE Controller
  BY <1>4, StartSafe, BindSafe, FinalizerSafe, InputsSafe, PublishSafe, SweepSafe, RecordSafe,
     StatusSafe, DrainSafe, PruneSafe, ClearAdmittedSafe, ClearLocalSafe, ReleaseSafe
    DEF Controller
<1>5. CASE prune_fails  BY <1>5, PruneFailsSafe
<1>6. CASE PassFails  BY <1>6, PassFailsSafe
<1>7. CASE rebuild_destination  BY <1>7, RebuildSafe
<1>8. ASSUME NEW kind \in Kinds, NEW a \in Named(kind), authorize_node(kind, a)
      PROVE  IInv'
  BY <1>8, AuthorizeSafe, RepositoryAssumption DEF Named
<1>9. CASE live_repository  BY <1>9, LiveSafe
<1>10. CASE resolve_signed_enrollment  BY <1>10, ResolveSafe
<1>11. CASE signed_object_url  BY <1>11, MintSafe
<1>12. ASSUME NEW c \in caps, Upload(c) PROVE IInv'  BY <1>12, UploadSafe
<1>13. CASE Tick  BY <1>13, TickSafe
<1>14. CASE UNCHANGED vars
  <2>1. TypeOK'  BY <1>14 DEF IInv, TypeOK, vars
  <2> QED
    BY <1>14, <2>1, ResourceFrame, PassFrame, ScopeFrame, GatewayFrame DEF IInv, vars
<1> QED
  BY <1>1, <1>2, <1>3, <1>4, <1>5, <1>6, <1>7, <1>8, <1>9, <1>10, <1>11, <1>12, <1>13, <1>14
    DEF Next

(***************************************************************************)
(* While a scope holds an object or can be written with a capability, a    *)
(* resource that the finalizer holds is bound to it: finalize_repository   *)
(* releases a name only when its scope is empty for good.                  *)
(***************************************************************************)
THEOREM ScopeOwned == ASSUME ~Retargets PROVE Spec => []CleanSlate
<1>1. IInv => CleanSlate
  BY DEF IInv, ScopeInv, GatewayInv, CleanSlate
<1> QED  BY <1>1, InitSafe, StepSafe, PTL DEF Spec

(***************************************************************************)
(* A publishing pass finds the state directory, the admitted state and the *)
(* served generation empty or of the resource it read, however many        *)
(* resources had the name before.                                          *)
(***************************************************************************)
THEOREM NothingInherited == ASSUME ~Retargets PROVE Spec => []NoInheritance
<1>1. IInv => NoInheritance
  BY DEF IInv, TypeOK, Pass, PassInv, ScopeInv, NoInheritance
<1> QED  BY <1>1, InitSafe, StepSafe, PTL DEF Spec

-----------------------------------------------------------------------------
(* Inputs outlive the metadata that names them *)

\* The pass has put what it is about to publish, and sweeps around what it published.
InputInv ==
  /\ \A b \in Buckets :
       cr.phase # "deleting" /\ served[b] # None => inputs[b][served[b].assignment] # Absent
  /\ pass.step = "publish" => inputs[pass.bucket][pass.assignment] # Absent
  /\ pass.step = "sweep" /\ served[pass.bucket] # None =>
       served[pass.bucket].assignment = pass.assignment

\* Steps that touch neither the metadata nor the inputs.
LEMMA InputFrame ==
  ASSUME IInv, InputInv, UNCHANGED <<served, inputs>>,
         cr.phase = "deleting" => cr'.phase = "deleting" \/ \A b \in Buckets : served[b] = None,
         pass'.step \in {"publish", "sweep"} => UNCHANGED pass
  PROVE  InputInv'
  BY DEF InputInv

\* Every step preserves InputInv.
LEMMA StepInputs == ASSUME ~Retargets, IInv, InputInv, [Next]_vars PROVE InputInv'
<1> USE DEF IInv
<1>1. CASE Controller
  <2>1. CASE put_inputs
    <3>1. CASE EndPass /\ UNCHANGED inputs
      BY <2>1, <3>1, EndTyped, InputFrame DEF put_inputs
    <3>2. CASE /\ inputs' = [inputs EXCEPT ![pass.bucket][pass.assignment] =
                               IF @ = Absent THEN 0 ELSE @]
               /\ Goto("publish")
      BY <2>1, <3>2, RepositoryAssumption
        DEF TypeOK, Pass, PassInv, InputInv, put_inputs, Goto, Absent
    <3> QED  BY <2>1, <3>1, <3>2 DEF put_inputs
  <2>2. CASE publish_repository
    <3>1. CASE EndPass /\ UNCHANGED <<local, served>>
      BY <2>2, <3>1, EndTyped, InputFrame DEF publish_repository
    <3>2. CASE ~refuse_generation_rollback
      <4>1. /\ pass.bucket \in Buckets /\ pass'.bucket = pass.bucket
            /\ pass'.assignment = pass.assignment /\ pass'.step = "sweep"
        BY <2>2, <3>2, GotoTyped DEF TypeOK, PassInv, Steps, publish_repository
      <4>2. /\ served'[pass.bucket].assignment = pass.assignment
            /\ \A b \in Buckets \ {pass.bucket} : served'[b] = served[b]
        BY <2>2, <3>2, <4>1 DEF TypeOK, publish_repository
      <4>3. inputs[pass.bucket][pass.assignment] # Absent
        BY <2>2 DEF InputInv, publish_repository
      <4> QED  BY <2>2, <4>1, <4>2, <4>3 DEF InputInv, publish_repository
    <3> QED  BY <2>2, <3>1, <3>2 DEF publish_repository
  <2>3. CASE sweep_inputs_before
    BY <2>3, RepositoryAssumption
      DEF TypeOK, Pass, PassInv, InputInv, sweep_inputs_before, Sweepable, Goto
  <2>4. CASE prune_prefix
    BY <2>4 DEF TypeOK, Pass, PassInv, InputInv, prune_prefix, Goto
  <2>5. CASE release_finalizer
    BY <2>5, EndTyped, InputFrame
      DEF PassInv, ScopeInv, Holds, release_finalizer
  <2>6. CASE reconcile_once
    BY <2>6, InputFrame DEF TypeOK, reconcile_once, Started
  <2>7. CASE ensure_repository_storage_ownership
    BY <2>7, InputFrame, EndTyped
      DEF TypeOK, Resource, Pass, ensure_repository_storage_ownership, Goto
  <2>8. CASE ensure_repository_finalizer
    BY <2>8, InputFrame, EndTyped
      DEF TypeOK, Resource, Pass, ensure_repository_finalizer, Goto
  <2>9. CASE store_admitted_state \/ clear_admitted_repository_state
             \/ clear_local_repository_state \/ repository_capability_drain
    BY <2>9, InputFrame
      DEF TypeOK, Pass, store_admitted_state, clear_admitted_repository_state,
          clear_local_repository_state, repository_capability_drain, Goto
  <2>10. CASE publish_resource_statuses
    BY <2>10, InputFrame, EndTyped DEF TypeOK, Resource, publish_resource_statuses
  <2> QED
    BY <1>1, <2>1, <2>2, <2>3, <2>4, <2>5, <2>6, <2>7, <2>8, <2>9, <2>10 DEF Controller
<1>2. CASE prune_fails
  BY <1>2, EndTyped DEF PassInv, InputInv, prune_fails
<1>3. CASE PassFails
  BY <1>3, EndTyped, InputFrame DEF PassFails
<1>4. CASE Tick
  <2>1. \A b \in Buckets, a \in Assignments : inputs[b][a] # Absent => inputs'[b][a] # Absent
    BY <1>4, RepositoryAssumption
      DEF TypeOK, Tick, Min2, Absent, PRIVATE_OBJECT_RETIREMENT_GRACE
  <2>2. cr'.phase = cr.phase  BY <1>4 DEF TypeOK, Resource, Tick
  <2> QED
    BY <1>4, <2>1, <2>2 DEF TypeOK, Generation, PassInv, InputInv, Tick
<1>5. CASE (\E b \in Buckets : Create(b)) \/ Delete
  BY <1>5, InputFrame DEF TypeOK, Resource, ScopeInv, Holds, Create, Delete, Gone, Nothing
<1>6. CASE \/ Edit \/ rebuild_destination
           \/ \E kind \in Kinds : \E a \in Named(kind) : authorize_node(kind, a)
           \/ live_repository \/ resolve_signed_enrollment \/ signed_object_url
           \/ \E c \in caps : Upload(c)
           \/ UNCHANGED vars
  BY <1>6, InputFrame
    DEF Edit, rebuild_destination, authorize_node, live_repository,
        resolve_signed_enrollment, signed_object_url, Upload, vars
<1> QED  BY <1>1, <1>2, <1>3, <1>4, <1>5, <1>6 DEF Next

(***************************************************************************)
(* The assignment a live repository serves names an input object that the  *)
(* sweeps have not taken, whatever the periods are.                        *)
(***************************************************************************)
THEOREM ServedInputKept == ASSUME ~Retargets PROVE Spec => []ServedInputExists
<1>1. Init => InputInv
  BY DEF Init, InputInv, Idle
<1>2. InputInv => ServedInputExists
  BY DEF InputInv, ServedInputExists
<1> QED  BY <1>1, <1>2, InitSafe, StepSafe, StepInputs, PTL DEF Spec

=============================================================================
