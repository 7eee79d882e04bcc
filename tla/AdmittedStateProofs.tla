------------------------ MODULE AdmittedStateProofs ------------------------
(***************************************************************************)
(* That an interrupted store never damages the admitted state, for every   *)
(* set of documents and every number of shards, when no request outlives   *)
(* the pass that sent it (~LateRequests).                                  *)
(*                                                                         *)
(* Readability and the absence of leaks are not inductive: they depend on  *)
(* which shards the loop a pass is in still has to touch (todo), and on    *)
(* the one request an ended pass may have left.  AdmittedInv records both. *)
(***************************************************************************)
EXTENDS AdmittedState, TLAPS

\* A shard that exists is below the width an index gives its slot.
Covers(ix) == \A s \in Slots, n \in Numbers : shards[s][n] # None => n < ix.width[s]

Whole(ix) == ValidIndex(ix) /\ Readable(ix) /\ Covers(ix)

\* A request in flight that may be applied at any moment without harm.
Harmless(r) ==
    IF r.kind = "index"
    THEN r.index \in Index /\ Whole(r.index)
    ELSE /\ r.slot \in StaleSlots(index) /\ r.number \in Numbers
         /\ r.kind # "delete" => r.shard \in Shard /\ r.number < index.width[r.slot]

StaleUnused == \A s \in StaleSlots(index) : index.width[s] = 0

\* What each program point of a pass has established.
AtPoint ==
    /\ pc \in {"read", "ready", "surplus"} => StaleUnused /\ todo = {}
    /\ pc = "clean" =>
        /\ \A x \in todo : x[1] \in StaleSlots(index)
        /\ \A s \in StaleSlots(index), n \in Numbers : shards[s][n] # None => <<s, n>> \in todo
    /\ pc \in {"surplus", "fill"} => doc \in [revision: Revisions, width: 1 .. MaxShards]
    /\ pc = "fill" =>
        LET t == TargetSlot(index) IN
        /\ \A s \in StaleSlots(index) : index.width[s] = IF s = t THEN doc.width ELSE 0
        /\ \A x \in todo : x[1] = t /\ x[2] < doc.width
        /\ \A n \in Numbers : n < doc.width /\ <<t, n>> \notin todo => shards[t][n] = NewShard
    /\ pc = "reclaim" =>
        /\ index.active # None
        /\ \A x \in todo : x[1] = Other(index.active)
        /\ \A n \in Numbers :
              shards[Other(index.active)][n] # None => <<Other(index.active), n>> \in todo

AdmittedInv ==
    /\ index \in Index
    /\ shards \in [Slots -> [Numbers -> Shard \cup {None}]]
    /\ pc \in {"idle", "clean", "read", "ready", "surplus", "fill", "reclaim"}
    /\ todo \subseteq Slots \X Numbers
    /\ Whole(index)
    /\ pc # "idle" => inflight = {} /\ held = index
    /\ AtPoint
    /\ \A r \in inflight : Harmless(r)
    /\ \A r, q \in inflight : r = q

------------------------------------------------------------------------------

\* Every index a pass writes is well formed.
LEMMA IndexTypes ==
    ASSUME NEW ix \in Index, NEW slot \in Slots, NEW w \in 0 .. MaxShards
    PROVE  /\ SetWidth(ix, slot, w) \in Index
           /\ SetWidth(ix, slot, w).active = ix.active
           /\ SetWidth(ix, slot, w).revision = ix.revision
           /\ SetWidth(ix, slot, w).maxShards = ix.maxShards
           /\ SetWidth(ix, slot, w).width = [ix.width EXCEPT ![slot] = w]
           /\ CleanIndex(ix) \in Index
           /\ CleanIndex(ix).active = ix.active
           /\ CleanIndex(ix).revision = ix.revision
           /\ CleanIndex(ix).maxShards = ix.maxShards
           /\ \A s \in Slots : CleanIndex(ix).width[s] =
                                   IF s \in StaleSlots(ix) THEN 0 ELSE ix.width[s]
  BY AdmittedAssumption DEF SetWidth, CleanIndex, Index, Slots

\* The two slots.
LEMMA SlotFacts ==
    ASSUME NEW ix \in Index
    PROVE  /\ \A s \in Slots : Other(s) \in Slots /\ Other(s) # s /\ Other(Other(s)) = s
           /\ TargetSlot(ix) \in Slots /\ TargetSlot(ix) \in StaleSlots(ix)
           /\ TargetSlot(ix) # ix.active
           /\ StaleSlots(ix) \subseteq Slots
           /\ ix.active \notin StaleSlots(ix)
           /\ ix.active # None => /\ ix.active \in Slots
                                  /\ StaleSlots(ix) = {Other(ix.active)}
                                  /\ TargetSlot(ix) = Other(ix.active)
  BY AdmittedAssumption DEF Index, Slots, Other, TargetSlot, StaleSlots

\* An empty cluster has nothing to read and nothing to reclaim.
LEMMA InitInv == Init => AdmittedInv
  BY AdmittedAssumption
  DEF Init, AdmittedInv, DefaultIndex, Index, Whole, ValidIndex, Readable, Covers, AtPoint,
      Slots, Numbers

\* Outside the window between passes, no request is in flight.
LEMMA GetInv ==
    ASSUME ~LateRequests, AdmittedInv, Get  PROVE AdmittedInv'
<1>1. inflight = {} /\ inflight' = {} /\ held' = index' /\ index' = index /\ shards' = shards
  BY DEF Get
<1>2. Whole(index)' /\ todo' \subseteq Slots \X Numbers
  BY SlotFacts DEF AdmittedInv, Get, Whole, ValidIndex, Readable, Covers, Declared
<1>3. AtPoint'
  <2>1. \A x \in todo' : x[1] \in StaleSlots(index)
    BY DEF Get, Declared
  <2>2. \A s \in StaleSlots(index), n \in Numbers : n < index.width[s] => <<s, n>> \in todo'
    BY DEF Get, Declared
  <2>3. \A s \in StaleSlots(index), n \in Numbers : shards[s][n] # None => <<s, n>> \in todo'
    BY <2>2, SlotFacts DEF AdmittedInv, Whole, Covers
  <2>4. CASE todo' = {}
    <3>1. StaleUnused
      <4> SUFFICES ASSUME NEW s \in StaleSlots(index), index.width[s] # 0 PROVE FALSE
        BY DEF StaleUnused
      <4>1. 0 \in Numbers /\ 0 < index.width[s]
        BY AdmittedAssumption, SlotFacts DEF Numbers, AdmittedInv, Index
      <4> QED  BY <4>1, <2>2, <2>4
    <3> QED  BY <3>1, <2>4, <1>1 DEF AtPoint, Get, StaleUnused, StaleSlots
  <2>5. CASE todo' # {}
    BY <2>5, <2>1, <2>3, <1>1 DEF AtPoint, Get, StaleSlots
  <2> QED  BY <2>4, <2>5
<1> QED  BY <1>1, <1>2, <1>3 DEF AdmittedInv, Get

\* Reading the active slot and preparing a document change no object.
LEMMA ReadPrepareInv ==
    ASSUME AdmittedInv,
           Read \/ \E revision \in Revisions, width \in 1 .. MaxShards : Prepare(revision, width)
    PROVE  AdmittedInv'
<1>1. inflight = {} /\ inflight' = {} /\ held = index /\ held' = index' /\ index' = index
      /\ shards' = shards /\ pc' \in {"ready", "surplus"}
  BY DEF AdmittedInv, Read, Prepare
<1>2. StaleUnused /\ todo = {}
  BY DEF AdmittedInv, AtPoint, Read, Prepare
<1>3. todo' = {}
  <2>1. CASE Read  BY <2>1, <1>2 DEF Read
  <2>2. ASSUME NEW revision \in Revisions, NEW width \in 1 .. MaxShards, Prepare(revision, width)
        PROVE  todo' = {}
    <3>1. Declared(held, TargetSlot(held)) = {}
      BY <1>1, <1>2, SlotFacts DEF Declared, StaleUnused, AdmittedInv, Numbers
    <3> QED  BY <2>2, <3>1 DEF Prepare
  <2> QED  BY <2>1, <2>2
<1>4. Whole(index)' /\ StaleUnused'
  BY <1>1, <1>2 DEF AdmittedInv, Whole, ValidIndex, Readable, Covers, StaleUnused, StaleSlots
<1>5. pc' = "surplus" => doc' \in [revision: Revisions, width: 1 .. MaxShards]
  BY DEF Read, Prepare
<1> QED  BY <1>1, <1>3, <1>4, <1>5 DEF AdmittedInv, AtPoint

\* What writing one shard changes.
LEMMA ShardWrite ==
    ASSUME shards \in [Slots -> [Numbers -> Shard \cup {None}]],
           NEW slot \in Slots, NEW n \in Numbers, NEW value \in Shard \cup {None},
           SetShard(slot, n, value)
    PROVE  /\ shards' \in [Slots -> [Numbers -> Shard \cup {None}]]
           /\ shards'[slot][n] = value
           /\ \A t \in Slots, m \in Numbers :
                 t # slot \/ m # n => shards'[t][m] = shards[t][m]
  BY DEF SetShard

\* Writing a shard of a slot that is not active, inside its width, or deleting
\* one, leaves the index whole.
LEMMA WholeAfterShard ==
    ASSUME index \in Index, shards \in [Slots -> [Numbers -> Shard \cup {None}]], Whole(index),
           NEW slot \in StaleSlots(index), NEW n \in Numbers, NEW value \in Shard \cup {None},
           SetShard(slot, n, value), value # None => n < index.width[slot], index' = index
    PROVE  Whole(index)'
<1>1. slot \in Slots /\ slot # index.active
  BY SlotFacts
<1>2. /\ shards'[slot][n] = value
      /\ \A t \in Slots, m \in Numbers : t # slot \/ m # n => shards'[t][m] = shards[t][m]
  BY <1>1, ShardWrite
<1>3. Readable(index)'
  BY <1>1, <1>2, SlotFacts DEF Whole, Readable
<1>4. Covers(index)'
  BY <1>1, <1>2 DEF Whole, Covers
<1> QED  BY <1>3, <1>4 DEF Whole, ValidIndex

\* A loop of delete_admitted_state_shards deletes only shards of a slot that
\* is not active.
LEMMA DeleteShardInv ==
    ASSUME AdmittedInv, NEW x \in todo, DeleteShard(x)  PROVE AdmittedInv'
<1>1. /\ inflight = {} /\ inflight' = {} /\ held = index /\ held' = index' /\ index' = index
      /\ pc' = pc /\ doc' = doc /\ todo' = todo \ {x} /\ pc \in {"clean", "surplus", "reclaim"}
  BY DEF AdmittedInv, DeleteShard, VoidShard
<1>2. x \in Slots \X Numbers /\ x = <<x[1], x[2]>> /\ x[1] \in Slots /\ x[2] \in Numbers
  BY DEF AdmittedInv
<1>3. x[1] \in StaleSlots(index)
  BY <1>1, SlotFacts DEF AdmittedInv, AtPoint
<1>4. SetShard(x[1], x[2], None) /\ index \in Index /\ Whole(index)
      /\ shards \in [Slots -> [Numbers -> Shard \cup {None}]]
  BY DEF AdmittedInv, DeleteShard
<1>5. Whole(index)'
  BY <1>1, <1>2, <1>3, <1>4, WholeAfterShard
<1>6. /\ shards' \in [Slots -> [Numbers -> Shard \cup {None}]]
      /\ shards'[x[1]][x[2]] = None
      /\ \A t \in Slots, m \in Numbers : t # x[1] \/ m # x[2] => shards'[t][m] = shards[t][m]
  BY <1>2, <1>4, ShardWrite
<1>7. \A t \in Slots, m \in Numbers :
         shards'[t][m] # None /\ <<t, m>> \in todo => <<t, m>> \in todo'
  BY <1>1, <1>2, <1>6
<1>8. \A t \in Slots, m \in Numbers : shards'[t][m] # None => shards[t][m] # None
  BY <1>6
<1>9. AtPoint'
  BY <1>1, <1>4, <1>7, <1>8, SlotFacts DEF AdmittedInv, AtPoint, StaleUnused, StaleSlots
<1> QED  BY <1>1, <1>4, <1>5, <1>6, <1>9 DEF AdmittedInv

\* write_shard fills only the slot the index has allocated and not activated.
LEMMA WriteShardInv ==
    ASSUME AdmittedInv, NEW x \in todo, WriteShard(x)  PROVE AdmittedInv'
<1> DEFINE t == TargetSlot(index)
<1>1. /\ inflight = {} /\ inflight' = {} /\ held = index /\ held' = index' /\ index' = index
      /\ pc = "fill" /\ pc' = pc /\ doc' = doc /\ todo' = todo \ {x}
  BY DEF AdmittedInv, WriteShard, VoidShard
<1>2. x \in Slots \X Numbers /\ x = <<x[1], x[2]>> /\ x[1] \in Slots /\ x[2] \in Numbers
  BY DEF AdmittedInv
<1>3. /\ x[1] = t /\ x[2] < doc.width /\ index.width[t] = doc.width
      /\ doc \in [revision: Revisions, width: 1 .. MaxShards]
      /\ \A s \in StaleSlots(index) : index.width[s] = IF s = t THEN doc.width ELSE 0
  BY <1>1, SlotFacts DEF AdmittedInv, AtPoint
<1>4. SetShard(x[1], x[2], NewShard) /\ index \in Index /\ Whole(index)
      /\ shards \in [Slots -> [Numbers -> Shard \cup {None}]]
  BY DEF AdmittedInv, WriteShard
<1>5. NewShard \in Shard /\ NewShard' = NewShard
  BY <1>1, <1>3 DEF NewShard, Shard
<1>6. Whole(index)'
  <2>1. x[1] \in StaleSlots(index)  BY <1>3, <1>4, SlotFacts
  <2> QED  BY <1>1, <1>2, <1>3, <1>4, <1>5, <2>1, WholeAfterShard
<1>7. /\ shards' \in [Slots -> [Numbers -> Shard \cup {None}]]
      /\ shards'[x[1]][x[2]] = NewShard
      /\ \A s \in Slots, m \in Numbers : s # x[1] \/ m # x[2] => shards'[s][m] = shards[s][m]
  BY <1>2, <1>4, <1>5, ShardWrite
<1>8. \A n \in Numbers : n < doc.width /\ <<t, n>> \notin todo' => shards'[t][n] = NewShard
  BY <1>1, <1>2, <1>3, <1>7 DEF AdmittedInv, AtPoint
<1>9. \A y \in todo' : y[1] = t /\ y[2] < doc.width
  BY <1>1 DEF AdmittedInv, AtPoint
<1>10. AtPoint'
  BY <1>1, <1>3, <1>5, <1>8, <1>9 DEF AtPoint, TargetSlot, StaleSlots
<1> QED  BY <1>1, <1>4, <1>6, <1>7, <1>10 DEF AdmittedInv

------------------------------------------------------------------------------
(* The index each write would leave is whole, whether the pass makes the   *)
(* write itself or leaves it in flight.                                    *)

\* The index a load writes once the stale shards are gone loses nothing.
LEMMA CleanWhole ==
    ASSUME AdmittedInv, pc = "clean", todo = {}
    PROVE  CleanIndex(index) \in Index /\ Whole(CleanIndex(index))
<1>1. index \in Index /\ Whole(index)
  BY DEF AdmittedInv
<1>2. \A s \in StaleSlots(index), n \in Numbers : shards[s][n] = None
  BY DEF AdmittedInv, AtPoint
<1>3. "a" \in Slots /\ 0 \in 0 .. MaxShards
  BY AdmittedAssumption DEF Slots
<1>4. /\ CleanIndex(index) \in Index
      /\ CleanIndex(index).active = index.active
      /\ CleanIndex(index).revision = index.revision
      /\ CleanIndex(index).maxShards = index.maxShards
      /\ \A s \in Slots : CleanIndex(index).width[s] =
                              IF s \in StaleSlots(index) THEN 0 ELSE index.width[s]
  BY <1>1, <1>3, IndexTypes
<1>5. ValidIndex(CleanIndex(index)) /\ Readable(CleanIndex(index))
  BY <1>1, <1>4, SlotFacts DEF Whole, ValidIndex, Readable
<1>6. Covers(CleanIndex(index))
  BY <1>1, <1>2, <1>4 DEF Whole, Covers
<1> QED  BY <1>4, <1>5, <1>6 DEF Whole

\* The allocation written before the first shard covers what it will fill.
LEMMA AllocateWhole ==
    ASSUME AdmittedInv, pc = "surplus"
    PROVE  /\ AllocatedIndex(index) \in Index /\ Whole(AllocatedIndex(index))
           /\ AllocatedIndex(index).active = index.active
           /\ \A s \in StaleSlots(index) : AllocatedIndex(index).width[s] =
                                               IF s = TargetSlot(index) THEN doc.width ELSE 0
<1> DEFINE t == TargetSlot(index)
<1>1. index \in Index /\ Whole(index) /\ StaleUnused
      /\ doc \in [revision: Revisions, width: 1 .. MaxShards]
  BY DEF AdmittedInv, AtPoint
<1>2. t \in Slots /\ t # index.active /\ doc.width \in 0 .. MaxShards
  BY <1>1, SlotFacts, AdmittedAssumption
<1>3. /\ AllocatedIndex(index) \in Index
      /\ AllocatedIndex(index).active = index.active
      /\ AllocatedIndex(index).revision = index.revision
      /\ AllocatedIndex(index).maxShards = index.maxShards
      /\ AllocatedIndex(index).width = [index.width EXCEPT ![t] = doc.width]
  BY <1>1, <1>2, IndexTypes DEF AllocatedIndex
<1>4. \A s \in Slots : AllocatedIndex(index).width[s] = IF s = t THEN doc.width ELSE index.width[s]
  BY <1>1, <1>2, <1>3 DEF Index
<1>5. \A n \in Numbers : shards[t][n] = None
  BY <1>1, <1>2, SlotFacts DEF Whole, Covers, StaleUnused, Numbers
<1>6. ValidIndex(AllocatedIndex(index)) /\ Readable(AllocatedIndex(index))
  BY <1>1, <1>2, <1>3, <1>4, SlotFacts DEF Whole, ValidIndex, Readable
<1>7. Covers(AllocatedIndex(index))
  BY <1>1, <1>4, <1>5 DEF Whole, Covers
<1> QED  BY <1>1, <1>3, <1>4, <1>6, <1>7, SlotFacts DEF Whole, StaleUnused

\* The index that names the filled slot active finds all of it written.
LEMMA SwapWhole ==
    ASSUME AdmittedInv, pc = "fill", todo = {}
    PROVE  /\ SwappedIndex(index) \in Index /\ Whole(SwappedIndex(index))
           /\ SwappedIndex(index).active = TargetSlot(index)
           /\ SwappedIndex(index).width = index.width
<1> DEFINE t == TargetSlot(index)
<1>1. /\ index \in Index /\ Whole(index) /\ t \in Slots
      /\ doc \in [revision: Revisions, width: 1 .. MaxShards]
      /\ index.width[t] = doc.width
      /\ \A n \in Numbers : n < doc.width => shards[t][n] = NewShard
  BY SlotFacts DEF AdmittedInv, AtPoint
<1>2. /\ SwappedIndex(index) \in Index
      /\ SwappedIndex(index).active = t
      /\ SwappedIndex(index).revision = doc.revision
      /\ SwappedIndex(index).maxShards = doc.width
      /\ SwappedIndex(index).width = index.width
  BY <1>1 DEF SwappedIndex, Index
<1>3. ValidIndex(SwappedIndex(index))
  BY <1>1, <1>2, AdmittedAssumption DEF ValidIndex, Slots
<1>4. Readable(SwappedIndex(index))
  BY <1>1, <1>2 DEF Readable, NewShard
<1>5. Covers(SwappedIndex(index))
  BY <1>1, <1>2 DEF Whole, Covers
<1> QED  BY <1>2, <1>3, <1>4, <1>5 DEF Whole

\* The index that forgets the old slot is written after its last shard is gone.
LEMMA ClearWhole ==
    ASSUME AdmittedInv, pc = "reclaim", todo = {}
    PROVE  /\ ClearedIndex(index) \in Index /\ Whole(ClearedIndex(index))
           /\ ClearedIndex(index).active = index.active /\ index.active # None
           /\ ClearedIndex(index).width[Other(index.active)] = 0
<1> DEFINE t == Other(index.active)
<1>1. /\ index \in Index /\ Whole(index) /\ index.active # None
      /\ \A n \in Numbers : shards[t][n] = None
  BY DEF AdmittedInv, AtPoint
<1>2. t \in Slots /\ t # index.active /\ index.active \in Slots /\ 0 \in 0 .. MaxShards
  BY <1>1, SlotFacts, AdmittedAssumption
<1>3. /\ ClearedIndex(index) \in Index
      /\ ClearedIndex(index).active = index.active
      /\ ClearedIndex(index).revision = index.revision
      /\ ClearedIndex(index).maxShards = index.maxShards
      /\ ClearedIndex(index).width = [index.width EXCEPT ![t] = 0]
  BY <1>1, <1>2, IndexTypes DEF ClearedIndex
<1>4. \A s \in Slots : ClearedIndex(index).width[s] = IF s = t THEN 0 ELSE index.width[s]
  BY <1>1, <1>2, <1>3 DEF Index
<1>5. ValidIndex(ClearedIndex(index)) /\ Readable(ClearedIndex(index))
  BY <1>1, <1>2, <1>3, <1>4 DEF Whole, ValidIndex, Readable
<1>6. Covers(ClearedIndex(index))
  BY <1>1, <1>4 DEF Whole, Covers
<1> QED  BY <1>1, <1>2, <1>3, <1>4, <1>5, <1>6 DEF Whole

\* A write of a whole index by the pass itself: what remains to be shown is
\* what its next program point claims.
LEMMA IndexWriteInv ==
    ASSUME AdmittedInv, pc # "idle", NEW ix \in Index, Whole(ix), WriteIndex(ix),
           pc' \in {"read", "ready", "fill", "reclaim"}, todo' \subseteq Slots \X Numbers,
           AtPoint'
    PROVE  AdmittedInv'
<1>1. /\ inflight = {} /\ inflight' = {} /\ index' = ix /\ held' = ix /\ shards' = shards
  BY DEF AdmittedInv, WriteIndex, VoidIndex
<1>2. Whole(index)'
  BY <1>1 DEF Whole, ValidIndex, Readable, Covers
<1> QED  BY <1>1, <1>2 DEF AdmittedInv

\* The load's own index write keeps the invariant.
LEMMA WriteCleanInv ==
    ASSUME AdmittedInv, WriteClean  PROVE AdmittedInv'
<1> DEFINE ix == CleanIndex(index)
<1>1. /\ pc = "clean" /\ todo = {} /\ held = index /\ index' = ix /\ pc' = "read" /\ todo' = {}
      /\ WriteIndex(ix) /\ index \in Index
  BY DEF AdmittedInv, WriteClean, WriteIndex
<1>2. ix \in Index /\ Whole(ix)
  BY <1>1, CleanWhole
<1>3. /\ ix.active = index.active
      /\ \A s \in Slots : ix.width[s] = IF s \in StaleSlots(index) THEN 0 ELSE index.width[s]
  <2>1. "a" \in Slots /\ 0 \in 0 .. MaxShards  BY AdmittedAssumption DEF Slots
  <2> QED  BY <1>1, <2>1, IndexTypes
<1>4. StaleUnused'
  BY <1>1, <1>3, SlotFacts DEF StaleUnused, StaleSlots
<1>5. AtPoint'
  BY <1>1, <1>4 DEF AtPoint
<1> HIDE DEF ix
<1> QED  BY <1>1, <1>2, <1>5, IndexWriteInv

\* The allocation keeps the invariant and leads to an empty slot to fill.
LEMMA AllocateInv ==
    ASSUME AdmittedInv, Allocate  PROVE AdmittedInv'
<1> DEFINE ix == AllocatedIndex(index)
           t == TargetSlot(index)
<1>1. /\ pc = "surplus" /\ held = index /\ index' = ix /\ pc' = "fill" /\ doc' = doc
      /\ todo' = Declared(ix, t) /\ WriteIndex(ix) /\ index \in Index
      /\ doc \in [revision: Revisions, width: 1 .. MaxShards]
  BY DEF AdmittedInv, AtPoint, Allocate, WriteIndex
<1>2. /\ ix \in Index /\ Whole(ix) /\ ix.active = index.active
      /\ \A s \in StaleSlots(index) : ix.width[s] = IF s = t THEN doc.width ELSE 0
  BY <1>1, AllocateWhole
<1>3. t \in Slots /\ TargetSlot(ix) = t /\ StaleSlots(ix) = StaleSlots(index)
      /\ ix.width[t] = doc.width
  BY <1>1, <1>2, SlotFacts DEF TargetSlot, StaleSlots
<1>4. todo' = {t} \X {n \in Numbers : n < doc.width}
  BY <1>1, <1>3 DEF Declared
<1> HIDE DEF ix, t
<1>5. todo' \subseteq Slots \X Numbers /\ \A x \in todo' : x[1] = t /\ x[2] < doc.width
  BY <1>3, <1>4
<1>6. \A n \in Numbers : n < doc.width => <<t, n>> \in todo'
  BY <1>4
<1>7. AtPoint'
  BY <1>1, <1>2, <1>3, <1>5, <1>6 DEF AtPoint
<1> QED  BY <1>1, <1>2, <1>5, <1>7, IndexWriteInv

\* The swap keeps the invariant and leaves the old slot to be reclaimed.
LEMMA SwapInv ==
    ASSUME AdmittedInv, Swap  PROVE AdmittedInv'
<1> DEFINE ix == SwappedIndex(index)
           t == TargetSlot(index)
           old == IF index.active = None THEN {} ELSE Declared(index, index.active)
<1>1. /\ pc = "fill" /\ todo = {} /\ held = index /\ index' = ix /\ shards' = shards
      /\ todo' = old /\ WriteIndex(ix) /\ index \in Index /\ Whole(index)
      /\ pc' = IF index.active = None THEN "ready" ELSE "reclaim"
  BY DEF AdmittedInv, Swap, WriteIndex
<1>2. ix \in Index /\ Whole(ix) /\ ix.active = t /\ ix.width = index.width /\ t \in Slots
  BY <1>1, SwapWhole, SlotFacts
<1>3. CASE index.active = None
  <2>1. t = "a" /\ Other(t) = "b"
    BY <1>3 DEF TargetSlot, Other
  <2>2. index.width["b"] = 0
    BY <1>1, <1>3 DEF AdmittedInv, AtPoint, TargetSlot, StaleSlots, Slots
  <2>3. StaleUnused'
    BY <1>1, <1>2, <2>1, <2>2, AdmittedAssumption DEF StaleUnused, StaleSlots, Slots
  <2>4. AtPoint'
    BY <1>1, <1>3, <2>3 DEF AtPoint
  <2>5. todo' = {} /\ pc' = "ready"
    BY <1>1, <1>3
  <2> HIDE DEF ix
  <2> QED  BY <1>1, <1>2, <2>4, <2>5, IndexWriteInv
<1>4. CASE index.active # None
  <2>1. index.active \in Slots /\ Other(t) = index.active /\ t # None
    BY <1>1, <1>2, <1>4, SlotFacts, AdmittedAssumption
  <2>2. todo' = {index.active} \X {n \in Numbers : n < index.width[index.active]}
    BY <1>1, <1>4 DEF Declared
  <2>3. \A n \in Numbers : shards[index.active][n] # None => <<index.active, n>> \in todo'
    BY <1>1, <2>1, <2>2 DEF Whole, Covers
  <2>4. todo' \subseteq Slots \X Numbers /\ \A x \in todo' : x[1] = index.active
    BY <2>1, <2>2
  <2>5. pc' = "reclaim"  BY <1>1, <1>4
  <2>6. index'.active = t  BY <1>1, <1>2
  <2> HIDE DEF ix, t
  <2>7. AtPoint'
    BY <1>1, <2>1, <2>3, <2>4, <2>5, <2>6 DEF AtPoint
  <2> QED  BY <1>1, <1>2, <2>4, <2>5, <2>7, IndexWriteInv
<1> QED  BY <1>3, <1>4

\* The last index write of a store keeps the invariant.
LEMMA ClearOldInv ==
    ASSUME AdmittedInv, ClearOld  PROVE AdmittedInv'
<1> DEFINE ix == ClearedIndex(index)
<1>1. /\ pc = "reclaim" /\ todo = {} /\ held = index /\ index' = ix /\ pc' = "ready" /\ todo' = {}
      /\ WriteIndex(ix) /\ index \in Index
  BY DEF AdmittedInv, ClearOld, WriteIndex
<1>2. /\ ix \in Index /\ Whole(ix) /\ ix.active = index.active /\ index.active # None
      /\ ix.width[Other(index.active)] = 0
  BY <1>1, ClearWhole
<1>3. StaleUnused'
  BY <1>1, <1>2 DEF StaleUnused, StaleSlots
<1>4. AtPoint'
  BY <1>1, <1>3 DEF AtPoint
<1> HIDE DEF ix
<1> QED  BY <1>1, <1>2, <1>4, IndexWriteInv

------------------------------------------------------------------------------

\* The request a pass leaves in flight can be applied later without harm.
LEMMA OutstandingHarmless ==
    ASSUME AdmittedInv, pc # "idle", NEW r \in Outstanding
    PROVE  Harmless(r)
<1>1. held = index /\ index \in Index /\ todo \subseteq Slots \X Numbers
  BY DEF AdmittedInv
<1>2. CASE pc \in {"clean", "surplus", "reclaim"} /\ todo # {}
  <2>1. PICK x \in todo : r = DeleteRequest(x)
    BY <1>2 DEF Outstanding
  <2>2. x[1] \in StaleSlots(index) /\ x[2] \in Numbers
    BY <1>1, <1>2, SlotFacts DEF AdmittedInv, AtPoint
  <2> QED  BY <2>1, <2>2 DEF Harmless, DeleteRequest
<1>3. CASE pc = "fill" /\ todo # {}
  <2>1. PICK x \in todo : r = PutRequest(x)
    BY <1>3 DEF Outstanding
  <2>2. /\ x[1] = TargetSlot(index) /\ x[2] < doc.width /\ x[2] \in Numbers
        /\ doc \in [revision: Revisions, width: 1 .. MaxShards]
        /\ index.width[TargetSlot(index)] = doc.width
        /\ TargetSlot(index) \in StaleSlots(index)
    BY <1>1, <1>3, SlotFacts DEF AdmittedInv, AtPoint
  <2>3. NewShard \in Shard
    BY <2>2 DEF NewShard, Shard
  <2>4. r.kind \in {"create", "replace"} /\ r.slot = x[1] /\ r.number = x[2] /\ r.shard = NewShard
    BY <2>1 DEF PutRequest
  <2> QED  BY <2>2, <2>3, <2>4 DEF Harmless
<1>4. CASE todo = {} /\ pc = "clean"
  <2>1. r = IndexRequest(CleanIndex(index))  BY <1>1, <1>4 DEF Outstanding, NextIndex
  <2> QED  BY <1>4, <2>1, CleanWhole DEF Harmless, IndexRequest
<1>5. CASE todo = {} /\ pc = "surplus"
  <2>1. r = IndexRequest(AllocatedIndex(index))  BY <1>1, <1>5 DEF Outstanding, NextIndex
  <2> QED  BY <1>5, <2>1, AllocateWhole DEF Harmless, IndexRequest
<1>6. CASE todo = {} /\ pc = "fill"
  <2>1. r = IndexRequest(SwappedIndex(index))  BY <1>1, <1>6 DEF Outstanding, NextIndex
  <2> QED  BY <1>6, <2>1, SwapWhole DEF Harmless, IndexRequest
<1>7. CASE todo = {} /\ pc = "reclaim"
  <2>1. r = IndexRequest(ClearedIndex(index))  BY <1>1, <1>7 DEF Outstanding, NextIndex
  <2> QED  BY <1>7, <2>1, ClearWhole DEF Harmless, IndexRequest
<1>8. pc \in {"clean", "surplus", "fill", "reclaim"}
  BY DEF AdmittedInv, Outstanding
<1> QED  BY <1>2, <1>3, <1>4, <1>5, <1>6, <1>7, <1>8

\* A pass may end at any call, with that call in flight.
LEMMA EndPassInv ==
    ASSUME AdmittedInv, NEW sent \in {{}} \cup {{r} : r \in Outstanding}, EndPass(sent)
    PROVE  AdmittedInv'
<1>1. /\ inflight = {} /\ inflight' = sent /\ pc # "idle" /\ pc' = "idle" /\ todo' = {}
      /\ index' = index /\ shards' = shards
  BY DEF AdmittedInv, EndPass
<1>2. \A r \in sent : Harmless(r)
  BY <1>1, OutstandingHarmless
<1>3. \A r \in sent : Harmless(r)'
  BY <1>1, <1>2
  DEF Harmless, StaleSlots, Whole, ValidIndex, Readable, Covers
<1>4. \A r, q \in sent : r = q
  OBVIOUS
<1>5. Whole(index)'
  BY <1>1 DEF AdmittedInv, Whole, ValidIndex, Readable, Covers
<1> QED  BY <1>1, <1>3, <1>4, <1>5 DEF AdmittedInv, AtPoint

\* A request of the last pass lands or is lost before the next pass starts.
LEMMA SettleInv ==
    ASSUME AdmittedInv, NEW r \in inflight, Land(r) \/ Lose(r)
    PROVE  AdmittedInv'
<1>1. pc = "idle" /\ pc' = "idle" /\ todo' = todo /\ inflight = {r} /\ Harmless(r)
  BY DEF AdmittedInv, Land, Lose
<1>2. CASE Lose(r)
  <2>1. inflight' = {} /\ index' = index /\ shards' = shards
    BY <1>1, <1>2 DEF Lose
  <2>2. Whole(index)'
    BY <2>1 DEF AdmittedInv, Whole, ValidIndex, Readable, Covers
  <2> QED  BY <1>1, <2>1, <2>2 DEF AdmittedInv, AtPoint
<1>3. CASE Land(r) /\ r.kind = "index"
  <2>1. index' = r.index /\ shards' = shards /\ inflight' = {}
    BY <1>1, <1>3 DEF Land, VoidIndex
  <2>2. r.index \in Index /\ Whole(r.index)
    BY <1>1, <1>3 DEF Harmless
  <2>3. Whole(index)'
    BY <2>1, <2>2 DEF Whole, ValidIndex, Readable, Covers
  <2> QED  BY <1>1, <2>1, <2>2, <2>3 DEF AdmittedInv, AtPoint
<1>4. CASE Land(r) /\ r.kind # "index"
  <2> DEFINE value == IF r.kind = "delete" THEN None ELSE r.shard
  <2>1. index' = index /\ SetShard(r.slot, r.number, value) /\ inflight' = {}
    BY <1>1, <1>4 DEF Land, VoidShard
  <2>2. /\ r.slot \in StaleSlots(index) /\ r.number \in Numbers /\ value \in Shard \cup {None}
        /\ value # None => r.number < index.width[r.slot]
    BY <1>1, <1>4 DEF Harmless
  <2>3. /\ index \in Index /\ Whole(index) /\ r.slot \in Slots
        /\ shards \in [Slots -> [Numbers -> Shard \cup {None}]]
    BY <2>2, SlotFacts DEF AdmittedInv
  <2> HIDE DEF value
  <2>4. Whole(index)'
    BY <2>1, <2>2, <2>3, WholeAfterShard
  <2>5. shards' \in [Slots -> [Numbers -> Shard \cup {None}]]
    BY <2>1, <2>2, <2>3, ShardWrite
  <2> QED  BY <1>1, <2>1, <2>3, <2>4, <2>5 DEF AdmittedInv, AtPoint
<1> QED  BY <1>2, <1>3, <1>4

\* Every step of the load, the store, an interruption or the API server keeps
\* the invariant.
LEMMA StepInv ==
    ASSUME ~LateRequests, AdmittedInv, [Next]_vars  PROVE AdmittedInv'
<1>1. CASE Get  BY <1>1, GetInv
<1>2. CASE Read \/ \E revision \in Revisions, width \in 1 .. MaxShards : Prepare(revision, width)
  BY <1>2, ReadPrepareInv
<1>3. CASE WriteClean  BY <1>3, WriteCleanInv
<1>4. CASE Allocate  BY <1>4, AllocateInv
<1>5. CASE Swap  BY <1>5, SwapInv
<1>6. CASE ClearOld  BY <1>6, ClearOldInv
<1>7. CASE \E x \in todo : DeleteShard(x) \/ WriteShard(x)
  BY <1>7, DeleteShardInv, WriteShardInv
<1>8. CASE \E sent \in {{}} \cup {{r} : r \in Outstanding} : EndPass(sent)
  BY <1>8, EndPassInv
<1>9. CASE \E r \in inflight : Land(r) \/ Lose(r)
  BY <1>9, SettleInv
<1>10. CASE UNCHANGED vars
  <2>1. Whole(index)'
    BY <1>10 DEF vars, AdmittedInv, Whole, ValidIndex, Readable, Covers
  <2>2. AtPoint'
    BY <1>10 DEF vars, AdmittedInv, AtPoint, StaleUnused, StaleSlots, TargetSlot, NewShard
  <2>3. \A r \in inflight' : Harmless(r)'
    BY <1>10 DEF vars, AdmittedInv, Harmless, StaleSlots, Whole, ValidIndex, Readable, Covers
  <2> QED  BY <1>10, <2>1, <2>2, <2>3 DEF vars, AdmittedInv
<1> QED  BY <1>1, <1>2, <1>3, <1>4, <1>5, <1>6, <1>7, <1>8, <1>9, <1>10 DEF Next

\* Whatever call a pass is interrupted at (store_admitted_state,
\* load_admitted_state), the slot the index names active stays whole.
THEOREM ActiveAlwaysReadable ==
    ASSUME ~LateRequests  PROVE Spec => []ActiveReadable
<1>1. AdmittedInv => ActiveReadable
  BY DEF AdmittedInv, Whole, ActiveReadable
<1> QED  BY <1>1, InitInv, StepInv, PTL DEF Spec

\* No interruption of a store leaves a shard ConfigMap outside the range the
\* index declares for its slot, where no later load would reclaim it.
THEOREM NeverLeaksShard ==
    ASSUME ~LateRequests  PROVE Spec => []NoLeakedShard
<1>1. AdmittedInv => NoLeakedShard
  BY DEF AdmittedInv, Whole, Covers, NoLeakedShard
<1> QED  BY <1>1, InitInv, StepInv, PTL DEF Spec

------------------------------------------------------------------------------
(* The two slots and their index are one atomic register.                  *)

\* A whole active slot reads as the revision the index names.
LEMMA StoredRevision ==
    ASSUME AdmittedInv  PROVE Stored = index.revision
  BY DEF AdmittedInv, Whole, ValidIndex, Stored

\* The same of the state a step leads to.
LEMMA StoredRevisionNext ==
    ASSUME AdmittedInv'  PROVE Stored' = index'.revision
  BY DEF AdmittedInv, Whole, ValidIndex, Stored

\* While a pass runs, nothing of an earlier one is unsettled.
LEMMA PassSettled ==
    ASSUME AdmittedInv, pc # "idle"  PROVE Unsettled = {} /\ held = index
  BY DEF AdmittedInv, Unsettled

\* The index writes of a pass keep the stored document, but for the swap.
LEMMA WritesKeepRevision ==
    ASSUME AdmittedInv
    PROVE  /\ pc = "clean" => CleanIndex(index).revision = index.revision
           /\ pc = "surplus" => AllocatedIndex(index).revision = index.revision
           /\ pc = "reclaim" => ClearedIndex(index).revision = index.revision
           /\ pc = "fill" => /\ SwappedIndex(index).revision = doc.revision
                             /\ doc.revision \in Revisions
  BY DEF AdmittedInv, AtPoint, CleanIndex, AllocatedIndex, ClearedIndex, SwappedIndex, SetWidth,
         Index

\* A pass leaves behind at most one document, and only in the middle of a store.
LEMMA LeftBehind ==
    ASSUME AdmittedInv, pc # "idle", NEW r \in Outstanding, r.kind = "index"
    PROVE  r.index.revision = index.revision \/ (pc = "fill" /\ r.index.revision \in Revisions)
<1>1. held = index  BY PassSettled
<1>2. todo = {}
  BY DEF Outstanding, PutRequest, DeleteRequest
<1>3. r.index = NextIndex /\ pc \in {"clean", "surplus", "fill", "reclaim"}
  BY <1>2 DEF Outstanding, IndexRequest
<1> QED  BY <1>1, <1>3, WritesKeepRevision DEF NextIndex

\* The steps of a pass: only Read and Swap show.
LEMMA CallRefines ==
    ASSUME AdmittedInv, AdmittedInv', pc # "idle", pc' # "idle", [Next]_vars
    PROVE  [Register!Next]_<<Stored, Loaded, Unsettled>>
<1>1. /\ Stored = index.revision /\ Unsettled = {} /\ held = index
      /\ Stored' = index'.revision /\ Unsettled' = {} /\ held' = index'
  BY StoredRevision, StoredRevisionNext, PassSettled DEF AdmittedInv, Unsettled
<1>2. CASE Read
  <2>1. Loaded = {} /\ Loaded' = {index.revision} /\ index' = index
    BY <1>1, <1>2 DEF Read, Loaded
  <2> QED  BY <1>1, <2>1 DEF Register!Next, Register!Load
<1>3. CASE Swap
  <2>1. /\ Loaded = {index.revision} /\ Loaded' = {index'.revision}
        /\ index' = SwappedIndex(index) /\ pc = "fill"
    BY <1>1, <1>3 DEF Swap, WriteIndex, Loaded
  <2>2. index'.revision \in Revisions
    BY <2>1, WritesKeepRevision
  <2> QED  BY <1>1, <2>1, <2>2 DEF Register!Next, Register!Store
<1>4. CASE WriteClean \/ Allocate \/ ClearOld
  <2>1. index'.revision = index.revision
    BY <1>1, <1>4, WritesKeepRevision DEF WriteClean, Allocate, ClearOld, WriteIndex
  <2>2. Loaded' = Loaded
    BY <1>1, <1>4, <2>1 DEF WriteClean, Allocate, ClearOld, Loaded
  <2> QED  BY <1>1, <2>1, <2>2
<1>5. CASE \/ \E x \in todo : DeleteShard(x) \/ WriteShard(x)
           \/ \E revision \in Revisions, width \in 1 .. MaxShards : Prepare(revision, width)
  <2>1. index' = index /\ Loaded' = Loaded
    BY <1>1, <1>5 DEF DeleteShard, WriteShard, Prepare, Loaded
  <2> QED  BY <1>1, <2>1
<1>6. CASE UNCHANGED vars
  BY <1>1, <1>6 DEF vars, Loaded
<1> QED  BY <1>2, <1>3, <1>4, <1>5, <1>6 DEF Next, Get, EndPass, Land, Lose, AdmittedInv

\* The start of a load does not show; the end of a pass may leave a store behind.
LEMMA EndRefines ==
    ASSUME AdmittedInv, AdmittedInv',
           Get \/ \E sent \in {{}} \cup {{r} : r \in Outstanding} : EndPass(sent)
    PROVE  [Register!Next]_<<Stored, Loaded, Unsettled>>
<1>1. Stored = index.revision /\ Stored' = index'.revision /\ index' = index
  BY StoredRevision, StoredRevisionNext DEF Get, EndPass
<1>2. CASE Get
  <2>1. Loaded = {} /\ Loaded' = {}
    BY <1>2 DEF Get, Loaded
  <2>2. Unsettled' = Unsettled
    BY <1>1, <1>2 DEF Get, Unsettled
  <2> QED  BY <1>1, <2>1, <2>2
<1>3. ASSUME NEW sent \in {{}} \cup {{r} : r \in Outstanding}, EndPass(sent)
      PROVE  [Register!Next]_<<Stored, Loaded, Unsettled>>
  <2>1. /\ pc # "idle" /\ Loaded' = {} /\ inflight' = sent /\ Unsettled = {} /\ held = index
    BY <1>3, PassSettled DEF EndPass, Loaded, AdmittedInv
  <2>2. \A v \in Unsettled' : pc = "fill" /\ v \in Revisions
    BY <1>1, <2>1, LeftBehind DEF Unsettled
  <2>3. \A v, w \in Unsettled' : v = w
    BY <2>1 DEF Unsettled
  <2>4. CASE Unsettled' = {} /\ Loaded = {}
    BY <1>1, <2>1, <2>4
  <2>5. CASE Unsettled' = {} /\ Loaded # {}
    BY <1>1, <2>1, <2>5 DEF Register!Next, Register!End
  <2>6. CASE Unsettled' # {}
    <3>1. PICK v \in Revisions : Unsettled' = {v} /\ pc = "fill"
      BY <2>2, <2>3, <2>6
    <3>2. Loaded # {}
      BY <3>1 DEF Loaded
    <3> QED  BY <1>1, <2>1, <3>1, <3>2 DEF Register!Next, Register!End
  <2> QED  BY <2>4, <2>5, <2>6
<1> QED  BY <1>2, <1>3

\* A request that lands or is lost settles the store it belonged to, if to any.
LEMMA SettleRefines ==
    ASSUME AdmittedInv, AdmittedInv', NEW r \in inflight, Land(r) \/ Lose(r)
    PROVE  [Register!Next]_<<Stored, Loaded, Unsettled>>
<1>1. /\ Stored = index.revision /\ Stored' = index'.revision
      /\ pc = "idle" /\ pc' = "idle" /\ inflight = {r}
  BY StoredRevision, StoredRevisionNext DEF AdmittedInv, Land, Lose
<1>2. inflight' = {}
  BY <1>1 DEF Land, Lose, VoidIndex, VoidShard
<1>3. Loaded = {} /\ Loaded' = {} /\ Unsettled' = {}
  BY <1>1, <1>2 DEF Loaded, Unsettled
<1>4. index'.revision \in {index.revision} \cup Unsettled
  <2>1. r.kind = "index" => r.index.revision \in {index.revision} \cup Unsettled
    BY <1>1 DEF Unsettled
  <2> QED  BY <2>1 DEF Land, Lose
<1> QED  BY <1>1, <1>3, <1>4 DEF Register!Next, Register!Settle

\* The slots, the shards and the index together implement one register: no reader ever
\* sees a part of a store, a store is atomic at the swap of the index, and an interrupted
\* store is done or not done before the next pass loads (load_admitted_state and
\* store_admitted_state, whichever of their calls is the last one made).
THEOREM SlotsImplementRegister ==
    ASSUME ~LateRequests  PROVE Spec => ImplementsRegister
<1>1. Init => Register!Init
  BY DEF Init, Register!Init, Stored, Loaded, Unsettled, DefaultIndex
<1>2. ASSUME AdmittedInv, AdmittedInv', [Next]_vars
      PROVE  [Register!Next]_<<Stored, Loaded, Unsettled>>
  <2>1. CASE pc # "idle" /\ pc' # "idle"
    BY <1>2, <2>1, CallRefines
  <2>2. CASE pc = "idle" \/ pc' = "idle"
    <3>1. CASE Get \/ \E sent \in {{}} \cup {{r} : r \in Outstanding} : EndPass(sent)
      BY <1>2, <3>1, EndRefines
    <3>2. CASE \E r \in inflight : Land(r) \/ Lose(r)
      BY <1>2, <3>2, SettleRefines
    <3>3. CASE UNCHANGED vars
      <4>1. UNCHANGED <<index, pc, held, inflight>> BY <3>3 DEF vars
      <4>2. Stored' = Stored  BY <1>2, <4>1, StoredRevision, StoredRevisionNext
      <4> QED  BY <4>1, <4>2 DEF Loaded, Unsettled
    <3> QED
      BY <1>2, <2>2, <3>1, <3>2, <3>3
      DEF Next, Read, WriteClean, Allocate, Swap, ClearOld, DeleteShard, WriteShard, Prepare
  <2> QED  BY <2>1, <2>2
<1> QED  BY <1>1, <1>2, InitInv, StepInv, PTL DEF Spec, ImplementsRegister, Register!Spec, Register!vars
==============================================================================
