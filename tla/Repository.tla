----------------------------- MODULE Repository -----------------------------
(***************************************************************************)
(* The life of an UpdateRepository: the controller binds its object scope, *)
(* takes its finalizer, publishes into the scope and, once the resource is *)
(* deleted, drains, prunes and releases it (updatec/src/runtime/           *)
(* repository.rs); the gateway meanwhile hands nodes short-lived           *)
(* capabilities for exact objects of that scope (updatec/src/gateway/      *)
(* data.rs), and an operator creates and deletes resources of one name.    *)
(*                                                                         *)
(* A scope is known by its bucket: the key prefix is a function of the     *)
(* resource's name, and the bucket of a resource is immutable.  Time is    *)
(* counted in ticks and all clocks agree.  One node stands for the fleet:  *)
(* capabilities of different nodes name different objects.                 *)
(***************************************************************************)
EXTENDS Integers

CONSTANTS
  Buckets, Assignments,
  GATEWAY_AUTHORIZATION_MEMO_TTL, GATEWAY_REQUEST_TIMEOUT, OBJECT_CAPABILITY_TTL,
  Kinds,      \* what nodes ask the gateway for
  Retargets,  \* BOOLEAN: a replacement may name another bucket while a pass binds the first
  MaxUid,     \* bound: resources created under the name
  MaxEdits,   \* bound: changes of the assignment the plan wants
  MaxFaults,  \* bound: passes that die or fail
  None

ASSUME RepositoryAssumption ==
  /\ None \notin Buckets \cup Assignments
  /\ GATEWAY_AUTHORIZATION_MEMO_TTL \in Nat \ {0}
  /\ GATEWAY_REQUEST_TIMEOUT \in Nat
  /\ OBJECT_CAPABILITY_TTL \in Nat
  /\ Kinds \subseteq {"inputs", "report"}
  /\ Retargets \in BOOLEAN
  /\ MaxUid \in Nat /\ MaxEdits \in Nat /\ MaxFaults \in Nat

PRIVATE_OBJECT_RETIREMENT_GRACE == 2 * OBJECT_CAPABILITY_TTL

\* Mutant: the drain forgets that an authorization is memoized.
MutDrainWithoutMemo == GATEWAY_REQUEST_TIMEOUT + OBJECT_CAPABILITY_TTL
OBJECT_CAPABILITY_DRAIN ==
  GATEWAY_AUTHORIZATION_MEMO_TTL + GATEWAY_REQUEST_TIMEOUT + OBJECT_CAPABILITY_TTL

Absent == -1

VARIABLES
  cr,        \* the UpdateRepository of the name, as the API server has it
  want,      \* the assignment the plan of the next pass gives the node
  pass,      \* the controller's pass
  local,     \* uid the state directory's TUF repository was initialised for, or 0
  admitted,  \* uid the admitted-state ConfigMaps belong to, or 0
  served,    \* [Buckets -> generation the metadata of the scope commits to, or None]
  inputs,    \* [Buckets -> [Assignments -> age of the input object, or Absent]]
  reports,   \* buckets that hold the node's report object
  dest,      \* the bucket the gateway has loaded, or None
  memo,      \* the gateway's memoized authorization of the node
  request,   \* the node's request at the gateway
  caps,      \* capabilities that are not expired
  edits, faults

control == <<pass, local, admitted>>
objects == <<served, inputs, reports>>
gateway == <<dest, memo, request, caps>>
bounds  == <<edits, faults>>
vars    == <<cr, want, control, objects, gateway, bounds>>

(***************************************************************************)
(* bound is status.storageOwnership, anchor status.routingRootSha256 (the  *)
(* uid its root was initialised for, 0 before the first publication), age  *)
(* the time since the deletion timestamp.  Resources that differ in any    *)
(* field have different resource versions.                                 *)
(***************************************************************************)
Resource == [phase : {"absent", "live", "deleting"}, uid : 0 .. MaxUid,
             bucket : Buckets \cup {None}, bound : Buckets \cup {None},
             finalizer : BOOLEAN, anchor : 0 .. MaxUid,
             age : 0 .. OBJECT_CAPABILITY_DRAIN]

Nothing == [phase |-> "absent", uid |-> 0, bucket |-> None, bound |-> None,
            finalizer |-> FALSE, anchor |-> 0, age |-> 0]

Generation == [assignment : Assignments, root : 1 .. MaxUid]

Steps == {"idle", "bind", "finalizer", "inputs", "publish", "sweep", "record", "status",
          "drain", "prune", "clear_admitted", "clear_local", "release"}

\* repository is the resource as the pass last read it, bucket the destination it derived.
Pass == [step : Steps, repository : Resource, bucket : Buckets \cup {None},
         assignment : Assignments \cup {None}]

Idle == [step |-> "idle", repository |-> Nothing, bucket |-> None, assignment |-> None]

Request == [stage : {"none", "identity", "resolve", "sign"}, kind : {"inputs", "report"},
            assignment : Assignments \cup {None}, bucket : Buckets \cup {None},
            anchor : 0 .. MaxUid, elapsed : 0 .. GATEWAY_REQUEST_TIMEOUT]

Memo(a, left) == IF left > 0 THEN [assignment |-> a, left |-> left]
                 ELSE [assignment |-> None, left |-> 0]

NoMemo == Memo(None, 0)

NoRequest == [stage |-> "none", kind |-> "report", assignment |-> None, bucket |-> None,
              anchor |-> 0, elapsed |-> 0]

Capability == [method : {"GET", "POST"}, bucket : Buckets,
               assignment : Assignments \cup {None}, left : 0 .. OBJECT_CAPABILITY_TTL]

\* One type invariant.
TypeOK ==
  /\ cr \in Resource /\ want \in Assignments /\ pass \in Pass
  /\ local \in 0 .. MaxUid /\ admitted \in 0 .. MaxUid
  /\ served \in [Buckets -> Generation \cup {None}]
  /\ inputs \in [Buckets -> [Assignments -> Absent .. PRIVATE_OBJECT_RETIREMENT_GRACE]]
  /\ reports \subseteq Buckets
  /\ dest \in Buckets \cup {None}
  /\ memo \in [assignment : Assignments \cup {None}, left : 0 .. GATEWAY_AUTHORIZATION_MEMO_TTL]
  /\ request \in Request
  /\ caps \subseteq Capability
  /\ edits \in 0 .. MaxEdits /\ faults \in 0 .. MaxFaults

Init ==
  /\ cr = Nothing /\ want \in Assignments
  /\ pass = Idle /\ local = 0 /\ admitted = 0
  /\ served = [b \in Buckets |-> None]
  /\ inputs = [b \in Buckets |-> [a \in Assignments |-> Absent]]
  /\ reports = {}
  /\ dest = None /\ memo = NoMemo
  /\ request = NoRequest /\ caps = {}
  /\ edits = 0 /\ faults = 0

-----------------------------------------------------------------------------
(* Operators *)

Create(b) ==
  /\ cr.phase = "absent" /\ cr.uid < MaxUid
  /\ pass.step = "bind" => Retargets \/ b = pass.bucket
  /\ cr' = [phase |-> "live", uid |-> cr.uid + 1, bucket |-> b, bound |-> None,
            finalizer |-> FALSE, anchor |-> 0, age |-> 0]
  /\ UNCHANGED <<want, control, objects, gateway, bounds>>

\* What the API server leaves of a resource that no finalizer holds.
Gone(r) == [Nothing EXCEPT !.uid = r.uid]

Delete ==
  /\ cr.phase = "live"
  /\ cr' = IF cr.finalizer THEN [cr EXCEPT !.phase = "deleting"] ELSE Gone(cr)
  /\ UNCHANGED <<want, control, objects, gateway, bounds>>

Edit ==
  /\ edits < MaxEdits
  /\ edits' = edits + 1
  /\ want' \in Assignments \ {want}
  /\ UNCHANGED <<cr, control, objects, gateway, faults>>

-----------------------------------------------------------------------------
(* The controller's pass over a live resource *)

At(step) == pass.step = step
Goto(step) == pass' = [pass EXCEPT !.step = step]
EndPass == pass' = Idle

\* The pass reads the resource; without one it clears the state directory and waits.
Started(finalizing) ==
  pass' = [step |-> IF finalizing THEN "drain" ELSE "bind",
           repository |-> cr, bucket |-> cr.bucket,
           assignment |-> IF finalizing THEN None ELSE want]

\* Mutant: a resource that was never published is not finalized.
MutFinalizePublishedOnly ==
  /\ At("idle") /\ cr.phase # "absent"
  /\ cr.phase = "deleting" => cr.anchor # 0
  /\ Started(cr.phase = "deleting")
  /\ UNCHANGED <<cr, want, local, admitted, objects, gateway, bounds>>
reconcile_once ==
  /\ At("idle")
  /\ \/ cr.phase = "absent" /\ local' = 0 /\ UNCHANGED pass
     \/ cr.phase # "absent" /\ Started(cr.phase = "deleting") /\ UNCHANGED local
  /\ UNCHANGED <<cr, want, admitted, objects, gateway, bounds>>

repository_storage_ownership_needs_binding(r) ==
  r.bound = None /\ ~r.finalizer /\ r.anchor = 0

(***************************************************************************)
(* The status patch names the resource and nothing else: it lands on       *)
(* whatever resource has the name by then.                                 *)
(***************************************************************************)
ensure_repository_storage_ownership ==
  /\ At("bind")
  /\ \/ /\ repository_storage_ownership_needs_binding(pass.repository)
        /\ cr.phase # "absent"
        /\ cr' = [cr EXCEPT !.bound = pass.bucket]
        /\ pass' = [pass EXCEPT !.step = "finalizer", !.repository = cr']
     \/ /\ repository_storage_ownership_needs_binding(pass.repository)
        /\ cr.phase = "absent"
        /\ EndPass /\ UNCHANGED cr
     \/ /\ pass.repository.bound = pass.bucket
        /\ Goto("finalizer") /\ UNCHANGED cr
     \/ /\ ~repository_storage_ownership_needs_binding(pass.repository)
        /\ pass.repository.bound # pass.bucket
        /\ EndPass /\ UNCHANGED cr
  /\ UNCHANGED <<want, local, admitted, objects, gateway, bounds>>

\* The patch carries the resource version of the resource the pass has.
ensure_repository_finalizer ==
  /\ At("finalizer")
  /\ \/ /\ pass.repository.finalizer
        /\ Goto("inputs") /\ UNCHANGED cr
     \/ /\ ~pass.repository.finalizer /\ cr = pass.repository
        /\ cr' = [cr EXCEPT !.finalizer = TRUE]
        /\ Goto("inputs")
     \/ /\ ~pass.repository.finalizer /\ cr # pass.repository
        /\ EndPass /\ UNCHANGED cr
  /\ UNCHANGED <<want, local, admitted, objects, gateway, bounds>>

\* Create-only: an object that is there keeps its age.  A carried assignment whose inputs
\* cannot be derived any more needs the object to be there.
put_inputs ==
  /\ At("inputs")
  /\ \/ /\ inputs' = [inputs EXCEPT ![pass.bucket][pass.assignment] = IF @ = Absent THEN 0 ELSE @]
        /\ Goto("publish")
     \/ /\ inputs[pass.bucket][pass.assignment] = Absent
        /\ EndPass /\ UNCHANGED inputs
  /\ UNCHANGED <<cr, want, local, admitted, served, reports, gateway, bounds>>

(***************************************************************************)
(* Signs what the store does not serve yet and uploads it.  A state        *)
(* directory without a repository may not replace a served generation.     *)
(***************************************************************************)
refuse_generation_rollback == local = 0 /\ served[pass.bucket] # None

publish_repository ==
  /\ At("publish")
  /\ \/ /\ refuse_generation_rollback
        /\ EndPass /\ UNCHANGED <<local, served>>
     \/ /\ ~refuse_generation_rollback
        /\ local' = IF local = 0 THEN pass.repository.uid ELSE local
        /\ served' = [served EXCEPT ![pass.bucket] =
                        [assignment |-> pass.assignment, root |-> local']]
        /\ Goto("sweep")
  /\ UNCHANGED <<cr, want, admitted, inputs, reports, gateway, bounds>>

Retired(age) == age = PRIVATE_OBJECT_RETIREMENT_GRACE

\* Mutant: the sweep spares nothing that is old.
MutSweepAll ==
  /\ At("sweep")
  /\ inputs' = [inputs EXCEPT ![pass.bucket] =
                  [a \in Assignments |-> IF Retired(@[a]) THEN Absent ELSE @[a]]]
  /\ Goto("record")
  /\ UNCHANGED <<cr, want, local, admitted, served, reports, gateway, bounds>>
\* Best effort: a sweep that fails has deleted some of what it would have.
Sweepable == {a \in Assignments : a # pass.assignment /\ Retired(inputs[pass.bucket][a])}

sweep_inputs_before ==
  /\ At("sweep")
  /\ \E removed \in SUBSET Sweepable :
       inputs' = [inputs EXCEPT ![pass.bucket] =
                    [a \in Assignments |-> IF a \in removed THEN Absent ELSE @[a]]]
  /\ Goto("record")
  /\ UNCHANGED <<cr, want, local, admitted, served, reports, gateway, bounds>>

store_admitted_state ==
  /\ At("record")
  /\ admitted' = pass.repository.uid
  /\ Goto("status")
  /\ UNCHANGED <<cr, want, local, objects, gateway, bounds>>

publish_resource_statuses ==
  /\ At("status")
  /\ cr' = IF cr.phase = "absent" THEN cr ELSE [cr EXCEPT !.bound = pass.bucket, !.anchor = local]
  /\ EndPass
  /\ UNCHANGED <<want, local, admitted, objects, gateway, bounds>>

-----------------------------------------------------------------------------
(* The controller's pass over a deleted resource: finalize_repository *)

repository_capability_drain ==
  /\ At("drain") /\ cr.age >= OBJECT_CAPABILITY_DRAIN
  /\ Goto("prune")
  /\ UNCHANGED <<cr, want, local, admitted, objects, gateway, bounds>>

\* The scope is the one the status was bound to, whatever the specification says.
prune_prefix ==
  /\ At("prune")
  /\ served' = [served EXCEPT ![pass.repository.bound] = None]
  /\ inputs' = [inputs EXCEPT ![pass.repository.bound] = [a \in Assignments |-> Absent]]
  /\ reports' = reports \ {pass.repository.bound}
  /\ Goto("clear_admitted")
  /\ UNCHANGED <<cr, want, local, admitted, gateway, bounds>>

\* Index last; the pass goes on once the last ConfigMap is gone.
clear_admitted_repository_state ==
  /\ At("clear_admitted")
  /\ admitted' = 0
  /\ Goto("clear_local")
  /\ UNCHANGED <<cr, want, local, objects, gateway, bounds>>

\* Mutant: the state directory outlives the resource.
MutKeepLocal ==
  /\ At("clear_local")
  /\ Goto("release")
  /\ UNCHANGED <<cr, want, local, admitted, objects, gateway, bounds>>
clear_local_repository_state ==
  /\ At("clear_local")
  /\ local' = 0
  /\ Goto("release")
  /\ UNCHANGED <<cr, want, admitted, objects, gateway, bounds>>

\* An interrupted prune has deleted some of the listing.
prune_fails ==
  /\ At("prune") /\ faults < MaxFaults
  /\ faults' = faults + 1
  /\ served' \in {served, [served EXCEPT ![pass.repository.bound] = None]}
  /\ \E removed \in SUBSET Assignments :
       inputs' = [inputs EXCEPT ![pass.repository.bound] =
                    [a \in Assignments |-> IF a \in removed THEN Absent ELSE @[a]]]
  /\ reports' \in {reports, reports \ {pass.repository.bound}}
  /\ EndPass
  /\ UNCHANGED <<cr, want, local, admitted, gateway, edits>>

SameVersion(r, s) == [r EXCEPT !.age = 0] = [s EXCEPT !.age = 0]

\* The last finalizer goes, and with it the resource.
release_finalizer ==
  /\ At("release")
  /\ cr' = IF SameVersion(cr, pass.repository) THEN Gone(cr) ELSE cr
  /\ EndPass
  /\ UNCHANGED <<want, local, admitted, objects, gateway, bounds>>

\* A call of the pass fails, or the process dies; the state directory stays.
PassFails ==
  /\ pass.step # "idle" /\ faults < MaxFaults
  /\ faults' = faults + 1
  /\ EndPass
  /\ UNCHANGED <<cr, want, local, admitted, objects, gateway, edits>>

Controller ==
  \/ reconcile_once
  \/ ensure_repository_storage_ownership \/ ensure_repository_finalizer
  \/ put_inputs \/ publish_repository \/ sweep_inputs_before
  \/ store_admitted_state \/ publish_resource_statuses
  \/ repository_capability_drain \/ prune_prefix
  \/ clear_admitted_repository_state \/ clear_local_repository_state \/ release_finalizer

-----------------------------------------------------------------------------
(* The gateway *)

\* The reload timer; a rebuild that fails keeps the loaded store.
rebuild_destination ==
  /\ cr.phase # "absent" /\ dest # cr.bucket
  /\ dest' = cr.bucket
  /\ UNCHANGED <<cr, want, control, objects, memo, request, caps, bounds>>

MemoAnswers(kind, a) == memo.left > 0 /\ (kind = "inputs" => memo.assignment = a)

\* Only a request for inputs names the assignment it expects.
Named(kind) == IF kind = "inputs" THEN Assignments ELSE {None}

\* authorize_node up to the live decision: a memoized answer is used with today's destination.
authorize_node(kind, a) ==
  /\ request.stage = "none" /\ dest # None
  /\ \/ /\ MemoAnswers(kind, a)
        /\ request' = [stage |-> "sign", kind |-> kind, assignment |-> a,
                       bucket |-> dest, anchor |-> 0, elapsed |-> 0]
        /\ UNCHANGED memo
     \/ /\ ~MemoAnswers(kind, a)
        /\ request' = [stage |-> "identity", kind |-> kind, assignment |-> a,
                       bucket |-> None, anchor |-> 0, elapsed |-> 0]
        /\ memo' = NoMemo
  /\ UNCHANGED <<cr, want, control, objects, dest, caps, bounds>>

\* A terminating resource authorizes nothing new; an unpublished one is not ready.
live_repository ==
  /\ request.stage = "identity"
  /\ request' = IF cr.phase = "live" /\ cr.anchor # 0
                THEN [request EXCEPT !.stage = "resolve", !.bucket = dest, !.anchor = cr.anchor]
                ELSE NoRequest
  /\ UNCHANGED <<cr, want, control, objects, dest, memo, caps, bounds>>

\* The assignment comes from metadata under the pinned root; the memo counts from the
\* start of the request.
Resolved ==
  /\ served[request.bucket] # None
  /\ served[request.bucket].root = request.anchor
  /\ request.kind = "inputs" => served[request.bucket].assignment = request.assignment

resolve_signed_enrollment ==
  /\ request.stage = "resolve"
  /\ \/ /\ Resolved
        /\ memo' = Memo(served[request.bucket].assignment,
                        GATEWAY_AUTHORIZATION_MEMO_TTL - request.elapsed)
        /\ request' = [request EXCEPT !.stage = "sign", !.anchor = 0]
     \/ ~Resolved /\ request' = NoRequest /\ UNCHANGED memo
  /\ UNCHANGED <<cr, want, control, objects, dest, caps, bounds>>

\* node_inputs mints a download of the assignment's input object, node_report an upload.
\* A newer capability for an object outlives the older ones, which are dropped.
Minted == [method |-> IF request.kind = "inputs" THEN "GET" ELSE "POST",
           bucket |-> request.bucket, assignment |-> request.assignment,
           left |-> OBJECT_CAPABILITY_TTL]

signed_object_url ==
  /\ request.stage = "sign"
  /\ caps' = {c \in caps : [c EXCEPT !.left = OBJECT_CAPABILITY_TTL] # Minted} \cup {Minted}
  /\ request' = NoRequest
  /\ UNCHANGED <<cr, want, control, objects, dest, memo, bounds>>

\* The node uploads its report; the object store decides when the upload arrives.
Upload(c) ==
  /\ c.method = "POST"
  /\ reports' = reports \cup {c.bucket}
  /\ UNCHANGED <<cr, want, control, served, inputs, gateway, bounds>>

Min2(m, n) == IF m < n THEN m ELSE n

\* The router cancels a request whose time is over.
Tick ==
  /\ cr' = IF cr.phase = "deleting"
           THEN [cr EXCEPT !.age = Min2(@ + 1, OBJECT_CAPABILITY_DRAIN)] ELSE cr
  /\ inputs' = [b \in Buckets |-> [a \in Assignments |->
        IF inputs[b][a] = Absent THEN Absent
        ELSE Min2(inputs[b][a] + 1, PRIVATE_OBJECT_RETIREMENT_GRACE)]]
  /\ memo' = Memo(memo.assignment, memo.left - 1)
  /\ caps' = {[c EXCEPT !.left = @ - 1] : c \in {d \in caps : d.left > 0}}
  /\ request' = IF request.stage # "none" /\ request.elapsed < GATEWAY_REQUEST_TIMEOUT
                THEN [request EXCEPT !.elapsed = @ + 1] ELSE NoRequest
  /\ UNCHANGED <<want, control, served, reports, dest, bounds>>

Next ==
  \/ \E b \in Buckets : Create(b)
  \/ Delete \/ Edit
  \/ Controller \/ prune_fails \/ PassFails
  \/ rebuild_destination
  \/ \E kind \in Kinds : \E a \in Named(kind) : authorize_node(kind, a)
  \/ live_repository \/ resolve_signed_enrollment \/ signed_object_url
  \/ \E c \in caps : Upload(c)
  \/ Tick

Spec == Init /\ [][Next]_vars

\* The reconcile loop never stops, and time passes.
FairSpec == Spec /\ WF_vars(Controller) /\ WF_vars(Tick)

-----------------------------------------------------------------------------
(* Properties *)

(***************************************************************************)
(* Whatever lies in a scope is owned: while a scope holds metadata, an     *)
(* input or a report, or can be written with a capability that is still    *)
(* spendable, a resource exists that is bound to it and that the finalizer *)
(* holds.  A name is free only when its scope is empty and stays empty.    *)
(***************************************************************************)
Holds(b) ==
  \/ served[b] # None \/ b \in reports
  \/ \E a \in Assignments : inputs[b][a] # Absent

CleanSlate ==
  \A b \in Buckets :
    Holds(b) \/ (\E c \in caps : c.bucket = b) => cr.finalizer /\ cr.bound = b

(***************************************************************************)
(* A pass that publishes works on state of the incarnation it read: the    *)
(* state directory, the admitted state and the served generation are empty *)
(* or its own.                                                             *)
(***************************************************************************)
NoInheritance ==
  pass.step \in {"inputs", "publish", "sweep", "record", "status"} =>
    /\ local \in {0, pass.repository.uid}
    /\ admitted \in {0, pass.repository.uid}
    /\ served[pass.bucket] # None => served[pass.bucket].root = pass.repository.uid

(***************************************************************************)
(* The assignment a scope serves names an input object that is there: the  *)
(* object is uploaded before the metadata that names it and outlives it.   *)
(***************************************************************************)
ServedInputExists ==
  \A b \in Buckets :
    cr.phase = "live" /\ served[b] # None => inputs[b][served[b].assignment] # Absent

\* A deleted resource goes: drain, prune and release complete.
DeletionCompletes ==
  \A u \in 1 .. MaxUid :
    (cr.phase = "deleting" /\ cr.uid = u) ~> (cr.phase = "absent" \/ cr.uid # u)

=============================================================================
