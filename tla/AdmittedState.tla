--------------------------- MODULE AdmittedState ---------------------------
(***************************************************************************)
(* The admitted rollout state of the control plane, as it is kept in the   *)
(* cluster: one index ConfigMap and two slots of shard ConfigMaps          *)
(* (crates/updatec/src/runtime/admitted.rs).  A pass of the publisher      *)
(* loads the state (load_admitted_state), reclaiming whatever an           *)
(* interrupted predecessor left, and may then store a new one              *)
(* (store_admitted_state): the inactive slot is allocated in the index,    *)
(* filled shard by shard, made active by a compare-and-swap of the index,  *)
(* and the old slot is deleted.                                            *)
(*                                                                         *)
(* Every API call is a step of its own.  A pass can end at any call, with  *)
(* the process dead or the call in error; the request it had sent is then  *)
(* in flight and may still be applied by the API server, or be lost.       *)
(* LateRequests says whether such a request can outlive the pass, i.e.     *)
(* still be unsettled when the next pass starts.                           *)
(*                                                                         *)
(* A document is identified with its revision (the SHA-256 of its bytes),  *)
(* a shard with the revision and the width it was cut for: its slot and    *)
(* its number are its name.                                                *)
(***************************************************************************)
EXTENDS Naturals, FiniteSets

CONSTANTS Revisions,      \* the documents that may be stored
          MaxShards,      \* MAX_ADMITTED_STATE_SHARDS
          LateRequests,   \* may a request outlive the pass that sent it?
          MaxInflight,    \* bound: requests in flight at once
          None

Slots == {"a", "b"}
Numbers == 0 .. (MaxShards - 1)

ASSUME AdmittedAssumption ==
    /\ MaxShards \in Nat \ {0}
    /\ MaxInflight \in Nat
    /\ LateRequests \in BOOLEAN
    /\ None \notin Revisions \cup Slots

VARIABLES index,      \* the index ConfigMap (its default value when absent)
          shards,     \* the shard ConfigMaps by slot and number, None when absent
          pc,         \* the call the current pass makes next
          held,       \* the index as the pass last read or wrote it
          current,    \* is the resourceVersion it holds still the index's?
          todo,       \* the shards left in the loop the pass is in
          doc,        \* the document being stored and its width
          inflight    \* requests sent by ended passes, not settled yet

vars == <<index, shards, pc, held, current, todo, doc, inflight>>

------------------------------------------------------------------------------
(* The stored documents.                                                   *)

Index == [active: Slots \cup {None}, revision: Revisions \cup {None},
          maxShards: 0 .. MaxShards, width: [Slots -> 0 .. MaxShards]]
Shard == [revision: Revisions, total: 1 .. MaxShards]
Request == [kind: {"index"}, index: Index]
           \cup [kind: {"create", "replace"}, slot: Slots, number: Numbers, shard: Shard]
           \cup [kind: {"delete"}, slot: Slots, number: Numbers]

DefaultIndex ==
    [active |-> None, revision |-> None, maxShards |-> 0, width |-> [s \in Slots |-> 0]]

Other(slot) == IF slot = "a" THEN "b" ELSE "a"

\* AdmittedStateIndex::validate, asked of every index read or written.
ValidIndex(ix) ==
    IF ix.active = None
    THEN ix.revision = None /\ ix.maxShards = 0
    ELSE ix.maxShards > 0 /\ ix.width[ix.active] = ix.maxShards /\ ix.revision # None

\* The range of shards an index declares for a slot.
Declared(ix, slot) == {slot} \X {n \in Numbers : n < ix.width[slot]}

\* The slots a load reclaims: all but the active one.
StaleSlots(ix) == IF ix.active = None THEN Slots ELSE {Other(ix.active)}

\* Mutant: every store fills slot a.
MutAlwaysSlotA(ix) == "a"

\* The slot a store fills.
TargetSlot(ix) == IF ix.active = None THEN "a" ELSE Other(ix.active)

\* What load_admitted_state demands of the shards of the active slot.
Readable(ix) ==
    ix.active # None =>
        \A n \in Numbers : n < ix.maxShards =>
            shards[ix.active][n] = [revision |-> ix.revision, total |-> ix.maxShards]

SetWidth(ix, slot, w) == [ix EXCEPT !.width = [ix.width EXCEPT ![slot] = w]]

\* The index after set_shards(slot, 0) of every stale slot.
CleanIndex(ix) ==
    [ix EXCEPT !.width = [s \in Slots |-> IF s \in StaleSlots(ix) THEN 0 ELSE ix.width[s]]]

\* The indexes a store writes: the allocation, the swap, the old slot cleared.
AllocatedIndex(ix) == SetWidth(ix, TargetSlot(ix), doc.width)
SwappedIndex(ix) ==
    [ix EXCEPT !.active = TargetSlot(ix), !.revision = doc.revision, !.maxShards = doc.width]
ClearedIndex(ix) == SetWidth(ix, Other(ix.active), 0)

------------------------------------------------------------------------------
(* The API server.  A replace carries the resourceVersion it was built     *)
(* from, so whatever writes or deletes the object first voids it; a create *)
(* needs the object to be absent when it is applied; a delete carries no   *)
(* precondition at all.                                                    *)

VoidIndex(requests) == {r \in requests : r.kind # "index"}
VoidShard(requests, slot, n) ==
    {r \in requests : ~(r.kind = "replace" /\ r.slot = slot /\ r.number = n)}

SetShard(slot, n, value) ==
    shards' = [shards EXCEPT ![slot] = [shards[slot] EXCEPT ![n] = value]]

NewShard == [revision |-> doc.revision, total |-> doc.width]

DeleteRequest(x) == [kind |-> "delete", slot |-> x[1], number |-> x[2]]
PutRequest(x) ==
    [kind |-> IF shards[x[1]][x[2]] = None THEN "create" ELSE "replace",
     slot |-> x[1], number |-> x[2], shard |-> NewShard]
IndexRequest(ix) == [kind |-> "index", index |-> ix]

Init ==
    /\ index = DefaultIndex
    /\ shards = [s \in Slots |-> [n \in Numbers |-> None]]
    /\ pc = "idle"
    /\ held = DefaultIndex
    /\ current = TRUE
    /\ todo = {}
    /\ doc = None
    /\ inflight = {}

------------------------------------------------------------------------------
(* load_admitted_state.                                                    *)

\* The index is read; the stale slots it declares are to be deleted.
Get ==
    /\ pc = "idle"
    /\ LateRequests \/ inflight = {}
    /\ ValidIndex(index)
    /\ held' = index
    /\ current' = TRUE
    /\ todo' = UNION {Declared(index, s) : s \in StaleSlots(index)}
    /\ pc' = IF todo' = {} THEN "read" ELSE "clean"
    /\ UNCHANGED <<index, shards, doc, inflight>>

\* The shards of the active slot are read and validated.
Read ==
    /\ pc = "read"
    /\ Readable(held)
    /\ pc' = "ready"
    /\ UNCHANGED <<index, shards, held, current, todo, doc, inflight>>

\* One iteration of delete_admitted_state_shards (404 is success).
DeleteShard(x) ==
    /\ pc \in {"clean", "surplus", "reclaim"}
    /\ SetShard(x[1], x[2], None)
    /\ inflight' = VoidShard(inflight, x[1], x[2])
    /\ todo' = todo \ {x}
    /\ UNCHANGED <<index, pc, held, current, doc>>

\* write_admitted_state_index: a replace at the version the pass holds.
WriteIndex(ix) ==
    /\ todo = {}
    /\ ValidIndex(ix)
    /\ current
    /\ index' = ix
    /\ held' = ix
    /\ inflight' = VoidIndex(inflight)
    /\ UNCHANGED <<shards, current, doc>>

WriteClean ==
    /\ pc = "clean"
    /\ WriteIndex(CleanIndex(held))
    /\ pc' = "read"
    /\ UNCHANGED todo

------------------------------------------------------------------------------
(* store_admitted_state.                                                   *)

\* A pass stores a document when the planned state or the configured width
\* differs from what it loaded; shards of the target slot above the new
\* width are deleted first.
Prepare(revision, width) ==
    /\ pc = "ready"
    /\ revision # held.revision \/ width # held.maxShards
    /\ doc' = [revision |-> revision, width |-> width]
    /\ todo' = {x \in Declared(held, TargetSlot(held)) : x[2] >= width}
    /\ pc' = "surplus"
    /\ UNCHANGED <<index, shards, held, current, inflight>>

\* The allocation is recorded before any shard of it exists.
Allocate ==
    /\ pc = "surplus"
    /\ WriteIndex(AllocatedIndex(held))
    /\ todo' = Declared(held', TargetSlot(held))
    /\ pc' = "fill"

\* write_shard: a get, then a create or a replace at the version it saw.
WriteShard(x) ==
    /\ pc = "fill"
    /\ SetShard(x[1], x[2], NewShard)
    /\ inflight' = VoidShard(inflight, x[1], x[2])
    /\ todo' = todo \ {x}
    /\ UNCHANGED <<index, pc, held, current, doc>>

\* Mutant: the store leaves the old slot to nobody.
MutKeepOldSlot ==
    /\ pc = "fill"
    /\ WriteIndex(SwappedIndex(held))
    /\ todo' = {}
    /\ pc' = "ready"

\* The filled slot becomes the active one; the old one is to be deleted.
Swap ==
    /\ pc = "fill"
    /\ WriteIndex(SwappedIndex(held))
    /\ todo' = IF held.active = None THEN {} ELSE Declared(held, held.active)
    /\ pc' = IF held.active = None THEN "ready" ELSE "reclaim"

ClearOld ==
    /\ pc = "reclaim"
    /\ WriteIndex(ClearedIndex(held))
    /\ pc' = "ready"
    /\ UNCHANGED todo

------------------------------------------------------------------------------
(* The end of a pass, and the requests it leaves behind.                   *)

\* The index the pass is about to write, if it is about to write one.
NextIndex ==
    IF pc = "clean" THEN CleanIndex(held)
    ELSE IF pc = "surplus" THEN AllocatedIndex(held)
    ELSE IF pc = "fill" THEN SwappedIndex(held)
    ELSE ClearedIndex(held)

\* The requests the pass may have sent without learning their outcome.
Outstanding ==
    IF pc \notin {"clean", "surplus", "fill", "reclaim"} THEN {}
    ELSE IF todo = {} THEN {r \in {IndexRequest(NextIndex)} : current}
    ELSE IF pc = "fill" THEN {PutRequest(x) : x \in todo}
    ELSE {DeleteRequest(x) : x \in todo}

\* The pass ends: it is done, a call failed, the lease was lost or the
\* process died.  At most the one call it was in is left in flight.
EndPass(sent) ==
    /\ pc # "idle"
    /\ inflight' = inflight \cup sent
    /\ Cardinality(inflight') <= MaxInflight
    /\ pc' = "idle"
    /\ held' = DefaultIndex
    /\ current' = TRUE
    /\ todo' = {}
    /\ doc' = None
    /\ UNCHANGED <<index, shards>>

\* The API server applies a request in flight, if its precondition holds.
Land(r) ==
    /\ \/ /\ r.kind = "index"
          /\ index' = r.index
          /\ current' = (pc = "idle")
          /\ inflight' = VoidIndex(inflight)
          /\ UNCHANGED shards
       \/ /\ r.kind # "index"
          /\ r.kind = "create" => shards[r.slot][r.number] = None
          /\ SetShard(r.slot, r.number, IF r.kind = "delete" THEN None ELSE r.shard)
          /\ inflight' = VoidShard(inflight \ {r}, r.slot, r.number)
          /\ UNCHANGED <<index, current>>
    /\ UNCHANGED <<pc, held, todo, doc>>

\* A request in flight is lost or refused.
Lose(r) ==
    /\ inflight' = inflight \ {r}
    /\ UNCHANGED <<index, shards, pc, held, current, todo, doc>>

Next ==
    \/ Get \/ Read \/ WriteClean \/ Allocate \/ Swap \/ ClearOld
    \/ \E x \in todo : DeleteShard(x) \/ WriteShard(x)
    \/ \E revision \in Revisions, width \in 1 .. MaxShards : Prepare(revision, width)
    \/ \E sent \in {{}} \cup {{r} : r \in Outstanding} : EndPass(sent)
    \/ \E r \in inflight : Land(r) \/ Lose(r)

Spec == Init /\ [][Next]_vars

\* The reconcile loop runs one pass after another and a pass makes its calls
\* without waiting for anyone; what is in flight settles; and passes are not
\* interrupted for ever.
CallStep ==
    \/ Get \/ Read \/ WriteClean \/ Allocate \/ Swap \/ ClearOld
    \/ \E x \in todo : DeleteShard(x) \/ WriteShard(x)
Settle == \E r \in inflight : Land(r) \/ Lose(r)
Interrupted == pc # "ready" /\ pc' = "idle" /\ pc # "idle"

LiveSpec ==
    /\ Spec
    /\ WF_vars(CallStep)
    /\ WF_vars(Settle)
    /\ <>[][~Interrupted]_vars

------------------------------------------------------------------------------
(* Properties.                                                             *)

\* The variables hold the documents, program points and requests of the code.
TypeOK ==
    /\ index \in Index
    /\ shards \in [Slots -> [Numbers -> Shard \cup {None}]]
    /\ pc \in {"idle", "clean", "read", "ready", "surplus", "fill", "reclaim"}
    /\ held \in Index
    /\ current \in BOOLEAN
    /\ todo \subseteq Slots \X Numbers
    /\ doc \in [revision: Revisions, width: 1 .. MaxShards] \cup {None}
    /\ inflight \subseteq Request

\* Whatever call a pass ended at, the index is valid and every shard of the
\* slot it names active is there, of its revision and of its width: the next
\* load_admitted_state reads one whole document, never a partial or mixed one.
ActiveReadable == ValidIndex(index) /\ Readable(index)

\* A shard ConfigMap that exists is inside the range the index declares for its
\* slot, so the next load can reclaim it: an interrupted store leaks nothing.
NoLeakedShard ==
    \A s \in Slots, n \in Numbers : shards[s][n] # None => n < index.width[s]

\* The shards of a slot that is not the active one do not stay: once passes are
\* let through, what an interrupted store or reclamation left is deleted and
\* taken out of the index.
Leftover == \E s \in Slots : s # index.active /\ index.width[s] > 0
LeftoversReclaimed == Leftover ~> ~Leftover

------------------------------------------------------------------------------
(* The register the slots implement.                                       *)

\* The document a reader of the active slot would get now.
Stored ==
    IF index.active = None THEN None
    ELSE IF Readable(index) THEN index.revision ELSE "torn"

\* The document the pass has loaded, or stored since.
Loaded == IF pc \in {"idle", "clean", "read"} THEN {} ELSE {held.revision}

\* The document a request left in flight would make the stored one.
Unsettled == {r.index.revision : r \in {q \in inflight : q.kind = "index"}} \ {Stored}

Register == INSTANCE AdmittedRegister
            WITH Values <- Revisions, value <- Stored, view <- Loaded, pending <- Unsettled

\* The calls of load_admitted_state and store_admitted_state, interrupted anywhere, are
\* together one atomic register: shard writes, allocations and reclamations do not show,
\* a store shows as a whole when the index is swapped, and one that was interrupted shows
\* as a whole or never, before the next load (store_admitted_state's own comment).
ImplementsRegister == Register!Spec
==============================================================================
