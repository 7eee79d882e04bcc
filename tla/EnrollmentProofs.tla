-------------------------- MODULE EnrollmentProofs --------------------------
(***************************************************************************)
(* What enrollment guarantees for any number of machines, names, faults    *)
(* and edits: the fleet-wide Lease makes the count a request took hold     *)
(* until its create is applied, and no write replaces a pinned key.        *)
(***************************************************************************)
EXTENDS Enrollment, FiniteSetTheorems, TLAPS

\* Nearly all of it is first-order; the leaves about arithmetic or records name SMT.
USE Zenon

\* The agents that enrollments created.
Dynamic == {a \in Names : agents[a] # None /\ agents[a].dynamic}

\* The reservation of an operator that has no key yet.
Unpinned(agent) == agent.kind = "reserved" => agent.key = None

\* What a request has established when it gets to a point.
Sound(n, p) ==
  /\ p.pc \in Server => p.key = n
  /\ p.pc = "create" => p.saw = None
  /\ p.pc = "adopt" =>
       p.saw # None /\ p.saw \in Agent /\ p.saw.kind = "reserved" /\ p.saw.key = None

\* Whoever is in the transaction has the Lease, and nothing is left of its last holder.
Leased == \A n \in Nodes : at[n].pc \in Critical => holder = n /\ late = {}

\* A write that outlives its request is the only one, and the Lease is still its own.
Late ==
  \A w \in late :
    /\ w.by = holder /\ late = {w}
    /\ w.over # None => w.over.kind = "reserved" /\ w.over.key = None

\* A create was decided on and is not applied yet.
Creating == (\E n \in Nodes : at[n].pc = "create") \/ (\E w \in late : w.over = None)

\* Room for one more: what the count under the Lease has shown.
Room == Cardinality(Dynamic) < Capacity

\* The inductive invariant.
EnrollInv ==
  /\ TypeOK
  /\ \A n \in Nodes : Sound(n, at[n])
  /\ Leased
  /\ Late
  /\ \A a \in Names : agents[a] # None => Unpinned(agents[a])
  /\ Cardinality(Dynamic) <= Capacity
  /\ Creating => Room

-----------------------------------------------------------------------------
(* Counting *)

\* The agents that enrollments created are finitely many.
LEMMA DynamicFinite == IsFiniteSet(Dynamic) /\ Cardinality(Dynamic) \in Nat
  BY FS_Subset, FS_CardinalityType, EnrollmentAssumption DEF Dynamic

\* A step that adds no agent an enrollment created does not take up room.
LEMMA Shrinks ==
  ASSUME Dynamic' \subseteq Dynamic
  PROVE  /\ Cardinality(Dynamic)' <= Cardinality(Dynamic)
         /\ Cardinality(Dynamic)' \in Nat
  BY DynamicFinite, FS_Subset, FS_CardinalityType

\* A create takes up the place of one agent.
LEMMA GrowsByOne ==
  ASSUME NEW a, Dynamic' \subseteq Dynamic \cup {a}
  PROVE  Cardinality(Dynamic)' <= Cardinality(Dynamic) + 1
<1>1. /\ IsFiniteSet(Dynamic \cup {a})
      /\ Cardinality(Dynamic \cup {a}) <= Cardinality(Dynamic) + 1
  BY SMT, DynamicFinite, FS_AddElement
<1>2. Cardinality(Dynamic)' <= Cardinality(Dynamic \cup {a}) /\ Cardinality(Dynamic)' \in Nat
  BY <1>1, FS_Subset, FS_CardinalityType
<1>. QED  BY SMT, <1>1, <1>2, DynamicFinite, FS_CardinalityType

\* at_enrollment_capacity counts all agents, and so bounds the created ones.
LEMMA CountLeavesRoom ==
  ASSUME ~at_enrollment_capacity
  PROVE  Room
<1>. DEFINE All == {a \in Names : agents[a] # None}
<1>1. IsFiniteSet(All) /\ Cardinality(All) \in Nat
  BY FS_Subset, FS_CardinalityType, EnrollmentAssumption
<1>2. Dynamic \subseteq All
  BY DEF Dynamic
<1>3. Cardinality(Dynamic) <= Cardinality(All)
  BY <1>1, <1>2, FS_Subset
<1>4. Cardinality(All) < Capacity
  BY SMT, <1>1, EnrollmentAssumption DEF at_enrollment_capacity
<1>. QED  BY SMT, <1>1, <1>3, <1>4, DynamicFinite, EnrollmentAssumption DEF Room

-----------------------------------------------------------------------------
(* Steps of one request *)

\* The frame of a step that moves one machine and writes no agent.
Moved(n, p) ==
  /\ at' = [at EXCEPT ![n] = p]
  /\ p \in Place /\ Sound(n, p)
  /\ p.pc \in Critical => at[n].pc \in Critical
  /\ p.pc = "create" => Room
  /\ UNCHANGED <<name, agents, repository, late, faults, edits>>

\* A machine moves and the Lease, the agents and the late writes stay.
LEMMA MoveStep ==
  ASSUME EnrollInv, NEW n \in Nodes, NEW p, Moved(n, p), UNCHANGED holder,
         disk' \in [Nodes -> Disk]
  PROVE  EnrollInv'
<1>1. TypeOK'
  BY DEF EnrollInv, TypeOK, Moved
<1>2. \A m \in Nodes : at'[m] = IF m = n THEN p ELSE at[m]
  BY DEF EnrollInv, TypeOK, Moved
<1>3. \A m \in Nodes : Sound(m, at'[m])
  BY <1>2 DEF EnrollInv, Moved
<1>4. Leased'
  BY <1>2 DEF EnrollInv, Moved, Leased
<1>5. Late'
  BY DEF EnrollInv, Moved, Late
<1>6. /\ \A a \in Names : agents'[a] # None => Unpinned(agents'[a])
      /\ Dynamic' = Dynamic
  BY DEF EnrollInv, Moved, Dynamic
<1>7. Creating' => Room
  BY <1>2 DEF EnrollInv, Moved, Creating
<1>. QED  BY <1>1, <1>3, <1>4, <1>5, <1>6, <1>7 DEF EnrollInv, Room, Sound

\* The places a request goes to next are the records EXCEPT makes of where it is.
LEMMA Places ==
  ASSUME EnrollInv, NEW n \in Nodes
  PROVE  /\ Off \in Place /\ Off.pc = "off"
         /\ \A pc \in Local \cup Server :
              Goto(n, pc) => \E p \in Place :
                at' = [at EXCEPT ![n] = p] /\ p.pc = pc /\ p.key = at[n].key /\ p.saw = None
         /\ \A yes \in BOOLEAN :
              Registered(n, yes) => \E p \in Place :
                at' = [at EXCEPT ![n] = p] /\ p.pc = "release" /\ p.key = at[n].key
<1>1. at \in [Nodes -> Place]
  BY DEF EnrollInv, TypeOK
<1>2. Off \in Place /\ Off.pc = "off"
  BY DEF Off, Place, Local
<1>3. ASSUME NEW pc \in Local \cup Server, Goto(n, pc)
      PROVE  \E p \in Place :
                at' = [at EXCEPT ![n] = p] /\ p.pc = pc /\ p.key = at[n].key /\ p.saw = None
  <2>. DEFINE p == [pc |-> pc, key |-> at[n].key, saw |-> None, yes |-> FALSE]
  <2>1. p \in Place
    BY <1>1 DEF Place
  <2>2. at[n] \in Place
    BY <1>1
  <2>3. at'[n] = p
    BY <1>1, <2>2, <1>3 DEF Goto, Place
  <2>4. at' = [at EXCEPT ![n] = at'[n]]
    BY <1>1, <1>3 DEF Goto
  <2>. HIDE DEF p
  <2>. QED  BY <2>1, <2>3, <2>4 DEF p
<1>4. ASSUME NEW yes \in BOOLEAN, Registered(n, yes)
      PROVE  \E p \in Place :
                at' = [at EXCEPT ![n] = p] /\ p.pc = "release" /\ p.key = at[n].key
  <2>. DEFINE p == [pc |-> "release", key |-> at[n].key, saw |-> None, yes |-> yes]
  <2>1. p \in Place
    BY <1>1 DEF Place, Server, Critical
  <2>2. at[n] \in Place
    BY <1>1
  <2>3. at'[n] = p
    BY <1>1, <2>2, <1>4 DEF Registered, Place
  <2>4. at' = [at EXCEPT ![n] = at'[n]]
    BY <1>1, <1>4 DEF Registered
  <2>. HIDE DEF p
  <2>. QED  BY <2>1, <2>3, <2>4 DEF p
<1>. QED  BY <1>2, <1>3, <1>4

\* A machine that stops, or goes on outside the transaction.
LEMMA OutsideStep ==
  ASSUME EnrollInv, NEW n \in Nodes, UNCHANGED <<name, agents, repository, late, faults, edits>>,
         UNCHANGED holder, disk' \in [Nodes -> Disk],
         \/ at' = [at EXCEPT ![n] = Off]
         \/ \E pc \in Local : Goto(n, pc)
         \/ at' = [at EXCEPT ![n] = [Off EXCEPT !.pc = "lock", !.key = n]]
         \/ at' = [at EXCEPT ![n].pc = "running"]
         \/ UNCHANGED at
  PROVE  EnrollInv'
<1>1. at \in [Nodes -> Place] /\ at[n] \in Place
  BY DEF EnrollInv, TypeOK
<1>. SUFFICES \E p : Moved(n, p)
  BY MoveStep
<1>. DEFINE lock == [Off EXCEPT !.pc = "lock", !.key = n]
            run == [at[n] EXCEPT !.pc = "running"]
<1>2. CASE at' = [at EXCEPT ![n] = Off]
  <2>1. Off \in Place /\ Sound(n, Off) /\ Off.pc \notin Critical
    BY DEF Off, Place, Sound, Local, Server, Critical
  <2>. QED  BY <1>2, <2>1 DEF Moved, Critical
<1>3. CASE \E pc \in Local : Goto(n, pc)
  <2>. PICK pc \in Local, p \in Place : at' = [at EXCEPT ![n] = p] /\ p.pc = pc
    BY SMT, <1>3, Places
  <2>. QED  BY DEF Moved, Sound, Local, Server, Critical
<1>4. CASE at' = [at EXCEPT ![n] = lock]
  <2>1. lock \in Place /\ lock.pc = "lock" /\ lock.key = n
    BY DEF Off, Place, Server, Critical, Keys
  <2>. HIDE DEF lock
  <2>. QED  BY <1>4, <2>1 DEF Moved, Sound, Critical
<1>5. CASE at' = [at EXCEPT ![n].pc = "running"]
  <2>1. run \in Place /\ run.pc = "running" /\ at' = [at EXCEPT ![n] = run]
    BY <1>1, <1>5 DEF Place, Local
  <2>. HIDE DEF run
  <2>. QED  BY <2>1 DEF Moved, Sound, Critical, Server
<1>6. CASE UNCHANGED at
  <2>1. at' = [at EXCEPT ![n] = at[n]]
    BY <1>1, <1>6
  <2>2. at[n].pc = "create" => Room
    BY DEF EnrollInv, Creating
  <2>. QED  BY <1>1, <2>1, <2>2 DEF Moved, EnrollInv
<1>. QED  BY <1>2, <1>3, <1>4, <1>5, <1>6

\* A transaction that ends goes to release with what it found out.
LEMMA RegisteredMoves ==
  ASSUME EnrollInv, NEW n \in Nodes, at[n].pc \in Critical,
         NEW yes \in BOOLEAN, Registered(n, yes),
         UNCHANGED <<name, agents, repository, late, faults, edits>>
  PROVE  \E p : Moved(n, p)
<1>. PICK p \in Place : at' = [at EXCEPT ![n] = p] /\ p.pc = "release" /\ p.key = at[n].key
  BY Places
<1>1. at[n].key = n
  BY DEF EnrollInv, Sound, Server
<1>. QED  BY <1>1 DEF Moved, Sound, Server

\* Inside the transaction a request goes from one read to the next.
LEMMA GotoMoves ==
  ASSUME EnrollInv, NEW n \in Nodes, at[n].pc \in Critical,
         NEW pc \in Critical, pc # "adopt", pc = "create" => Room, Goto(n, pc),
         UNCHANGED <<name, agents, repository, late, faults, edits>>
  PROVE  \E p : Moved(n, p)
<1>. PICK p \in Place :
       at' = [at EXCEPT ![n] = p] /\ p.pc = pc /\ p.key = at[n].key /\ p.saw = None
  BY Places DEF Server
<1>1. at[n].key = n
  BY DEF EnrollInv, Sound, Server
<1>. QED  BY <1>1 DEF Moved, Sound, Server

\* AcceptExisting goes on to complete only a reservation that pins no key.
LEMMA AcceptExistingMoves ==
  ASSUME EnrollInv, NEW n \in Nodes, at[n].pc \in Critical,
         Found(n) # None, AcceptExisting(n, Found(n)),
         UNCHANGED <<name, agents, repository, late, faults, edits>>
  PROVE  \E p : Moved(n, p)
<1>1. Found(n) \in Agent /\ Unpinned(Found(n))
  BY EnrollmentAssumption DEF EnrollInv, TypeOK, Found
<1>2. CASE \E yes \in BOOLEAN : Registered(n, yes)
  BY <1>2, RegisteredMoves
<1>. DEFINE p == [pc |-> "adopt", key |-> at[n].key, saw |-> Found(n), yes |-> FALSE]
<1>3. CASE /\ adopts_preapproval(Found(n))
           /\ at' = [at EXCEPT ![n].pc = "adopt", ![n].saw = Found(n), ![n].yes = FALSE]
  <2>1. at \in [Nodes -> Place] /\ at[n] \in Place /\ at[n].key = n
    BY DEF EnrollInv, TypeOK, Sound, Server
  <2>2. p \in Place
    BY <1>1, <2>1 DEF Place, Server, Critical
  <2>3. at'[n] = p
    BY <1>3, <2>1 DEF Place
  <2>4. at' = [at EXCEPT ![n] = at'[n]]
    BY <1>3, <2>1
  <2>5. Sound(n, p) /\ p.pc = "adopt"
    BY <1>1, <1>3, <2>1 DEF Sound, adopts_preapproval, Unpinned
  <2>. HIDE DEF p
  <2>. QED  BY <2>2, <2>3, <2>4, <2>5 DEF Moved, Critical
<1>. QED  BY <1>2, <1>3 DEF AcceptExisting

\* The steps of a request that only read.
LEMMA ReadStep ==
  ASSUME EnrollInv, NEW n \in Nodes,
         live_repository(n) \/ Lookup(n) \/ List(n) \/ Exists(n) \/ Changed(n)
  PROVE  EnrollInv'
<1>. UNCHANGED <<name, agents, repository, holder, disk, late, faults, edits>>
  BY DEF live_repository, Lookup, List, Exists, Changed
<1>. disk' \in [Nodes -> Disk]
  BY DEF EnrollInv, TypeOK
<1>. at[n].pc \in Critical
  BY DEF live_repository, Lookup, List, Exists, Changed, Critical
<1>. SUFFICES \E p : Moved(n, p)
  BY MoveStep
<1>1. CASE live_repository(n)
  <2>1. CASE Registered(n, FALSE)
    BY <2>1, RegisteredMoves
  <2>. DEFINE p == [at[n] EXCEPT !.pc = "lookup", !.yes = repository = "Open"]
  <2>2. CASE at' = [at EXCEPT ![n].pc = "lookup", ![n].yes = repository = "Open"]
    <3>1. at \in [Nodes -> Place] /\ at[n] \in Place /\ at[n].key = n
      BY DEF EnrollInv, TypeOK, Sound, Server
    <3>2. p \in Place /\ p.pc = "lookup" /\ p.key = n
      BY <3>1 DEF Place, Server, Critical
    <3>3. at'[n] = p
      BY <2>2, <3>1 DEF Place
    <3>4. at' = [at EXCEPT ![n] = at'[n]]
      BY <2>2, <3>1
    <3>. HIDE DEF p
    <3>. QED  BY <3>2, <3>3, <3>4 DEF Moved, Sound, Critical
  <2>. QED  BY <1>1, <2>1, <2>2 DEF live_repository
<1>2. CASE Lookup(n)
  BY <1>2, RegisteredMoves, GotoMoves, AcceptExistingMoves DEF Lookup, Critical
<1>3. CASE List(n)
  BY <1>3, RegisteredMoves, GotoMoves, CountLeavesRoom DEF List, Critical
<1>4. CASE Exists(n)
  BY <1>4, RegisteredMoves, AcceptExistingMoves DEF Exists
<1>5. CASE Changed(n)
  <2>1. matches(Found(n), at[n].key) \in BOOLEAN
    BY DEF matches
  <2>. QED  BY <1>5, <2>1, RegisteredMoves DEF Changed
<1>. QED  BY <1>1, <1>2, <1>3, <1>4, <1>5

-----------------------------------------------------------------------------
(* Steps that take or give back the Lease *)

\* The Lease is taken only when nobody is in the transaction and nothing is under way.
LEMMA AcquireStep ==
  ASSUME EnrollInv, NEW n \in Nodes, acquire_enrollment_lock(n)
  PROVE  EnrollInv'
<1>1. late = {} /\ \A m \in Nodes : at[m].pc \notin Critical
  BY EnrollmentAssumption
     DEF EnrollInv, TypeOK, Late, Leased, acquire_enrollment_lock, Write
<1>2. PICK p \in Place :
        at' = [at EXCEPT ![n] = p] /\ p.pc = "policy" /\ p.key = at[n].key
  BY SMT, Places DEF acquire_enrollment_lock, Server, Critical
<1>3. at[n].key = n
  BY DEF EnrollInv, Sound, Server, acquire_enrollment_lock
<1>4. \A m \in Nodes : at'[m] = IF m = n THEN p ELSE at[m]
  BY <1>2 DEF EnrollInv, TypeOK
<1>5. TypeOK'
  BY <1>2 DEF EnrollInv, TypeOK, acquire_enrollment_lock
<1>6. \A m \in Nodes : Sound(m, at'[m])
  BY <1>2, <1>3, <1>4 DEF EnrollInv, Sound
<1>7. Leased' /\ Late' /\ ~Creating'
  BY <1>1, <1>2, <1>4 DEF Leased, Late, Creating, acquire_enrollment_lock, Critical
<1>8. /\ \A a \in Names : agents'[a] # None => Unpinned(agents'[a])
      /\ Dynamic' = Dynamic
  BY DEF EnrollInv, acquire_enrollment_lock, Dynamic
<1>. QED  BY <1>5, <1>6, <1>7, <1>8 DEF EnrollInv, Sound

\* A request that leaves the transaction leaves nothing of it behind.
LEMMA ReleaseStep ==
  ASSUME EnrollInv, NEW n \in Nodes, release(n)
  PROVE  EnrollInv'
<1>1. late = {} /\ holder = n
  BY DEF EnrollInv, Leased, release, Critical
<1>2. \A m \in Nodes : m # n => at[m].pc \notin Critical
  BY <1>1 DEF EnrollInv, Leased
<1>3. PICK p \in Place : at' = [at EXCEPT ![n] = p] /\ p.pc \notin Critical /\ Sound(n, p)
  <2>1. CASE Goto(n, "recheck")
    <3>1. PICK p \in Place : at' = [at EXCEPT ![n] = p] /\ p.pc = "recheck" /\ p.key = at[n].key
      BY SMT, <2>1, Places DEF Server
    <3>2. at[n].key = n
      BY DEF EnrollInv, Sound, Server, Critical, release
    <3>. QED  BY <3>1, <3>2 DEF Critical, Sound
  <2>2. CASE at' = [at EXCEPT ![n] = Off]
    BY <2>2, Places DEF Critical, Sound, Server
  <2>. QED  BY <2>1, <2>2 DEF release
<1>4. \A m \in Nodes : at'[m] = IF m = n THEN p ELSE at[m]
  BY <1>3 DEF EnrollInv, TypeOK
<1>5. TypeOK'
  BY <1>1, <1>3 DEF EnrollInv, TypeOK, release
<1>6. Leased' /\ Late' /\ ~Creating'
  BY <1>1, <1>2, <1>3, <1>4 DEF Leased, Late, Creating, release, Critical
<1>7. /\ \A a \in Names : agents'[a] # None => Unpinned(agents'[a])
      /\ Dynamic' = Dynamic
  BY DEF EnrollInv, release, Dynamic
<1>8. \A m \in Nodes : Sound(m, at'[m])
  BY <1>3, <1>4 DEF EnrollInv
<1>. QED  BY <1>5, <1>6, <1>7, <1>8 DEF EnrollInv, Sound

\* A Lease runs out when its holder is gone with all its writes.
LEMMA ExpireStep ==
  ASSUME EnrollInv, Expire
  PROVE  EnrollInv'
<1>1. late = {} /\ \A m \in Nodes : at[m].pc \notin Critical
  BY DEF EnrollInv, Late, Leased, Expire
<1>2. TypeOK' /\ Leased' /\ Late' /\ ~Creating' /\ Dynamic' = Dynamic
  BY <1>1 DEF EnrollInv, TypeOK, Leased, Late, Creating, Expire, Dynamic, Critical
<1>. QED  BY <1>2 DEF EnrollInv, Expire, Sound

-----------------------------------------------------------------------------
(* Steps that write agents *)

\* A step that writes agents and adds none of an enrollment's own.
LEMMA RewriteStep ==
  ASSUME EnrollInv, UNCHANGED <<name, repository, holder, at, disk, faults>>,
         late' = late, edits' \in 0 .. MaxEdits,
         NEW a \in Names, NEW agent \in Agent \cup {None},
         agents' = [agents EXCEPT ![a] = agent],
         agent # None => Unpinned(agent),
         agent # None /\ agent.dynamic => agents[a] # None /\ agents[a].dynamic
  PROVE  EnrollInv'
<1>1. \A b \in Names : agents'[b] = IF b = a THEN agent ELSE agents[b]
  BY DEF EnrollInv, TypeOK
<1>2. TypeOK'
  BY DEF EnrollInv, TypeOK
<1>3. Dynamic' \subseteq Dynamic
  BY <1>1 DEF Dynamic
<1>4. Cardinality(Dynamic)' <= Cardinality(Dynamic)
  BY <1>3, Shrinks
<1>5. Cardinality(Dynamic)' <= Capacity /\ (Room => Room')
  BY SMT, <1>3, <1>4, Shrinks, DynamicFinite, EnrollmentAssumption DEF EnrollInv, Room
<1>6. \A b \in Names : agents'[b] # None => Unpinned(agents'[b])
  BY <1>1 DEF EnrollInv
<1>7. Leased' /\ Late' /\ (Creating' => Creating)
  BY DEF EnrollInv, Leased, Late, Creating
<1>. QED  BY <1>2, <1>5, <1>6, <1>7 DEF EnrollInv, Sound

\* The agent an enrollment creates, and the reservation it completes.
LEMMA Written ==
  ASSUME NEW key \in Keys
  PROVE  /\ desired(key) \in Agent /\ Unpinned(desired(key))
         /\ \A agent \in Agent :
              LET done == [agent EXCEPT !.kind = "enrolled", !.key = key]
              IN  /\ done \in Agent /\ Unpinned(done)
                  /\ done.dynamic = agent.dynamic
<1>1. 0 \in 0 .. MaxEdits
  BY SMT, EnrollmentAssumption
<1>. QED  BY <1>1 DEF desired, Agent, Unpinned

\* A write of an enrollment: it creates where there is nothing and a create was
\* under way, or completes the reservation it expects.
LEMMA EnrollWrites ==
  ASSUME EnrollInv, NEW a \in Names, NEW key \in Keys,
         UNCHANGED <<name, repository, holder, disk, faults, edits>>,
         \/ /\ Room
            /\ agents' = [agents EXCEPT ![a] = desired(key)]
         \/ /\ agents[a] # None /\ agents[a] \in Agent
            /\ agents' = [agents EXCEPT ![a] = [agents[a] EXCEPT !.kind = "enrolled",
                                                                  !.key = key]]
  PROVE  /\ agents' \in [Names -> Agent \cup {None}]
         /\ \A b \in Names : agents'[b] # None => Unpinned(agents'[b])
         /\ Cardinality(Dynamic)' <= Capacity
<1>1. agents \in [Names -> Agent \cup {None}]
  BY DEF EnrollInv, TypeOK
<1>2. CASE Room /\ agents' = [agents EXCEPT ![a] = desired(key)]
  <2>1. Dynamic' \subseteq Dynamic \cup {a}
    BY <1>1, <1>2 DEF Dynamic
  <2>2. Cardinality(Dynamic)' <= Cardinality(Dynamic) + 1
    BY <2>1, GrowsByOne
  <2>3. Cardinality(Dynamic)' \in Nat
    BY <2>1, DynamicFinite, FS_AddElement, FS_Subset, FS_CardinalityType
  <2>4. Cardinality(Dynamic)' <= Capacity
    BY SMT, <1>2, <2>2, <2>3, DynamicFinite, EnrollmentAssumption DEF Room
  <2>. QED  BY <1>1, <1>2, <2>4, Written DEF EnrollInv
<1>3. CASE /\ agents[a] # None /\ agents[a] \in Agent
           /\ agents' = [agents EXCEPT ![a] = [agents[a] EXCEPT !.kind = "enrolled",
                                                                 !.key = key]]
  <2>. DEFINE done == [agents[a] EXCEPT !.kind = "enrolled", !.key = key]
  <2>1. done \in Agent /\ Unpinned(done) /\ done.dynamic = agents[a].dynamic
    BY <1>3, Written
  <2>2. \A b \in Names : agents'[b] = IF b = a THEN done ELSE agents[b]
    BY <1>1, <1>3
  <2>. HIDE DEF done
  <2>3. Dynamic' \subseteq Dynamic
    <3>. SUFFICES ASSUME NEW b \in Dynamic' PROVE b \in Dynamic
      OBVIOUS
    <3>1. CASE b # a  BY <2>2, <3>1 DEF Dynamic
    <3>2. CASE b = a  BY <1>3, <2>1, <2>2, <3>2 DEF Dynamic
    <3>. QED  BY <3>1, <3>2
  <2>4. Cardinality(Dynamic)' <= Capacity
    BY SMT, <2>3, Shrinks, DynamicFinite, EnrollmentAssumption DEF EnrollInv
  <2>5. agents' \in [Names -> Agent \cup {None}]
    BY <1>1, <1>3, <2>1 DEF done
  <2>. QED  BY <2>1, <2>2, <2>4, <2>5 DEF EnrollInv
<1>. QED  BY <1>2, <1>3

\* The request whose write is applied is at the end of its transaction.
LEMMA AfterWrite ==
  ASSUME EnrollInv, NEW n \in Nodes, at[n].pc \in Critical, Registered(n, TRUE),
         UNCHANGED <<name, repository, holder, disk, late, faults, edits>>,
         agents' \in [Names -> Agent \cup {None}],
         \A b \in Names : agents'[b] # None => Unpinned(agents'[b]),
         Cardinality(Dynamic)' <= Capacity
  PROVE  EnrollInv'
<1>1. late = {} /\ holder = n
  BY DEF EnrollInv, Leased
<1>2. \A m \in Nodes : m # n => at[m].pc \notin Critical
  BY <1>1 DEF EnrollInv, Leased
<1>3. PICK p \in Place : at' = [at EXCEPT ![n] = p] /\ p.pc = "release" /\ p.key = at[n].key
  BY Places
<1>4. \A m \in Nodes : at'[m] = IF m = n THEN p ELSE at[m]
  BY <1>3 DEF EnrollInv, TypeOK
<1>5. at[n].key = n
  BY DEF EnrollInv, Sound, Server
<1>6. TypeOK'
  BY <1>3 DEF EnrollInv, TypeOK
<1>7. \A m \in Nodes : Sound(m, at'[m])
  BY <1>3, <1>4, <1>5 DEF EnrollInv, Sound
<1>8. Leased' /\ Late' /\ ~Creating'
  BY <1>1, <1>2, <1>3, <1>4 DEF Leased, Late, Creating, Critical
<1>. QED  BY <1>6, <1>7, <1>8 DEF EnrollInv, Sound

\* The create of a request that counted under the Lease.
LEMMA CreateStep ==
  ASSUME EnrollInv, NEW n \in Nodes, create_agent_idempotent(n)
  PROVE  EnrollInv'
<1>1. at[n].pc = "create" /\ at[n].pc \in Critical /\ at[n].key = n /\ n \in Keys
  BY DEF create_agent_idempotent, Critical, EnrollInv, Sound, Server, Keys
<1>2. Room
  BY <1>1 DEF EnrollInv, Creating
<1>3. CASE Found(n) = None
  <2>1. name[n] \in Names
    BY EnrollmentAssumption DEF EnrollInv, TypeOK
  <2>2. agents' = [agents EXCEPT ![name[n]] = desired(at[n].key)] /\ Registered(n, TRUE)
    BY <1>3 DEF create_agent_idempotent
  <2>3. UNCHANGED <<name, repository, holder, disk, late, faults, edits>>
    BY DEF create_agent_idempotent
  <2>4. /\ agents' \in [Names -> Agent \cup {None}]
        /\ \A b \in Names : agents'[b] # None => Unpinned(agents'[b])
        /\ Cardinality(Dynamic)' <= Capacity
    BY <1>1, <1>2, <2>1, <2>2, <2>3, EnrollWrites
  <2>. QED  BY <1>1, <2>2, <2>3, <2>4, AfterWrite
<1>4. CASE Found(n) # None
  <2>1. /\ Goto(n, "exists")
        /\ UNCHANGED <<name, agents, repository, holder, disk, late, faults, edits>>
    BY <1>4 DEF create_agent_idempotent
  <2>2. \E p : Moved(n, p)
    BY <1>1, <2>1, GotoMoves DEF Critical
  <2>3. disk' \in [Nodes -> Disk]
    BY <2>1 DEF EnrollInv, TypeOK
  <2>. QED  BY <2>1, <2>2, <2>3, MoveStep
<1>. QED  BY <1>3, <1>4

\* The reservation that is completed is the one that was read.
LEMMA AdoptStep ==
  ASSUME EnrollInv, NEW n \in Nodes, accept_existing_agent(n)
  PROVE  EnrollInv'
<1>1. at[n].pc = "adopt" /\ at[n].pc \in Critical /\ at[n].key = n /\ n \in Keys
  BY DEF accept_existing_agent, Critical, EnrollInv, Sound, Server, Keys
<1>2. at[n].saw # None /\ at[n].saw \in Agent
  BY <1>1 DEF EnrollInv, Sound
<1>3. CASE Found(n) = at[n].saw
  <2>1. name[n] \in Names
    BY EnrollmentAssumption DEF EnrollInv, TypeOK
  <2>2. /\ agents' = [agents EXCEPT ![name[n]].kind = "enrolled", ![name[n]].key = at[n].key]
        /\ Registered(n, TRUE)
    BY <1>3 DEF accept_existing_agent
  <2>3. UNCHANGED <<name, repository, holder, disk, late, faults, edits>>
    BY DEF accept_existing_agent
  <2>4. agents[name[n]] # None /\ agents[name[n]] \in Agent
    BY <1>2, <1>3 DEF Found
  <2>5. agents' = [agents EXCEPT ![name[n]] = [agents[name[n]] EXCEPT !.kind = "enrolled",
                                                                       !.key = n]]
    BY <1>1, <2>1, <2>2, <2>4 DEF EnrollInv, TypeOK, Agent
  <2>6. /\ agents' \in [Names -> Agent \cup {None}]
        /\ \A b \in Names : agents'[b] # None => Unpinned(agents'[b])
        /\ Cardinality(Dynamic)' <= Capacity
    BY <1>1, <2>1, <2>3, <2>4, <2>5, EnrollWrites
  <2>. QED  BY <1>1, <2>2, <2>3, <2>6, AfterWrite
<1>4. CASE Found(n) # at[n].saw
  <2>1. /\ Goto(n, "changed")
        /\ UNCHANGED <<name, agents, repository, holder, disk, late, faults, edits>>
    BY <1>4 DEF accept_existing_agent
  <2>2. \E p : Moved(n, p)
    BY <1>1, <2>1, GotoMoves DEF Critical
  <2>3. disk' \in [Nodes -> Disk]
    BY <2>1 DEF EnrollInv, TypeOK
  <2>. QED  BY <2>1, <2>2, <2>3, MoveStep
<1>. QED  BY <1>3, <1>4

\* A write that outlived its request is applied under its Lease, or lost.
LEMMA LateStep ==
  ASSUME EnrollInv, NEW w \in late, LateWrite(w)
  PROVE  EnrollInv'
<1>1. w \in Write /\ w.by = holder /\ late = {w} /\ w.by \in Nodes /\ w.key \in Keys
  BY DEF EnrollInv, TypeOK, Late, Write
<1>2. late' = {}
  BY <1>1 DEF LateWrite
<1>3. \A m \in Nodes : at[m].pc \notin Critical
  BY <1>1 DEF EnrollInv, Leased
<1>4. UNCHANGED <<name, repository, holder, at, disk, faults, edits>>
  BY DEF LateWrite
<1>5. /\ agents' \in [Names -> Agent \cup {None}]
      /\ \A b \in Names : agents'[b] # None => Unpinned(agents'[b])
      /\ Cardinality(Dynamic)' <= Capacity
  <2>1. CASE UNCHANGED agents
    <3>1. Dynamic' = Dynamic
      BY <2>1 DEF Dynamic
    <3>. QED  BY <2>1, <3>1 DEF EnrollInv, TypeOK
  <2>2. name[w.by] \in Names
    BY <1>1, EnrollmentAssumption DEF EnrollInv, TypeOK
  <2>3. CASE /\ agents[name[w.by]] = w.over /\ w.over = None
             /\ agents' = [agents EXCEPT ![name[w.by]] = desired(w.key)]
    <3>1. Room
      BY <2>3 DEF EnrollInv, Creating
    <3>. QED  BY <1>1, <1>4, <2>2, <2>3, <3>1, EnrollWrites
  <2>4. CASE /\ agents[name[w.by]] = w.over /\ w.over # None
             /\ agents' = [agents EXCEPT ![name[w.by]] =
                             [w.over EXCEPT !.kind = "enrolled", !.key = w.key]]
    <3>1. agents[name[w.by]] # None /\ agents[name[w.by]] \in Agent
      BY <1>1, <2>4 DEF Write
    <3>. QED  BY <1>1, <1>4, <2>2, <2>4, <3>1, EnrollWrites
  <2>. QED  BY <2>1, <2>3, <2>4 DEF LateWrite
<1>6. TypeOK'
  BY <1>2, <1>4, <1>5 DEF EnrollInv, TypeOK
<1>7. Leased' /\ Late' /\ ~Creating'
  BY <1>2, <1>3, <1>4 DEF Leased, Late, Creating, Critical
<1>. QED  BY <1>4, <1>5, <1>6, <1>7 DEF EnrollInv, Sound

\* A request that dies keeps the Lease, and at most one write of it is left.
LEMMA FailStep ==
  ASSUME EnrollInv, NEW n \in Nodes, Fails(n)
  PROVE  EnrollInv'
<1>. DEFINE w == [by |-> n, key |-> at[n].key, over |-> at[n].saw]
<1>1. /\ at' = [at EXCEPT ![n] = Off]
      /\ UNCHANGED <<name, agents, repository, holder, disk, edits>>
      /\ faults' \in 0 .. MaxFaults
  BY SMT, EnrollmentAssumption DEF Fails, EnrollInv, TypeOK
<1>2. Off \in Place /\ Off.pc \notin Critical /\ Off.pc # "create" /\ Sound(n, Off)
  BY DEF Off, Place, Local, Critical, Server, Sound
<1>3. \A m \in Nodes : at'[m] = IF m = n THEN Off ELSE at[m]
  BY <1>1 DEF EnrollInv, TypeOK
<1>4. \A m \in Nodes : Sound(m, at'[m])
  BY <1>2, <1>3 DEF EnrollInv
<1>5. /\ \A a \in Names : agents'[a] # None => Unpinned(agents'[a])
      /\ Dynamic' = Dynamic
  BY <1>1 DEF EnrollInv, Dynamic
<1>6. at' \in [Nodes -> Place]
  BY <1>1, <1>2 DEF EnrollInv, TypeOK
<1>7. CASE late' = late
  <2>1. TypeOK'
    BY <1>1, <1>6, <1>7 DEF EnrollInv, TypeOK
  <2>2. Leased' /\ Late' /\ (Creating' => Creating)
    BY <1>1, <1>2, <1>3, <1>7 DEF EnrollInv, Leased, Late, Creating
  <2>. QED  BY <1>4, <1>5, <2>1, <2>2 DEF EnrollInv, Room, Sound
<1>8. CASE at[n].pc \in {"create", "adopt"} /\ late' = late \cup {w}
  <2>1. late = {} /\ holder = n /\ at[n].pc \in Critical /\ at[n].key = n
    BY <1>8 DEF EnrollInv, Leased, Critical, Sound, Server
  <2>2. \A m \in Nodes : at'[m].pc \notin Critical
    BY <1>2, <1>3, <2>1 DEF EnrollInv, Leased
  <2>3. w \in Write
    BY <2>1 DEF EnrollInv, TypeOK, Place, Write, Keys
  <2>4. TypeOK'
    BY <1>1, <1>6, <1>8, <2>3 DEF EnrollInv, TypeOK
  <2>5. late' = {w} /\ w.by = n /\ w.over = at[n].saw
    BY <1>8, <2>1
  <2>6. at[n].saw # None => at[n].saw.kind = "reserved" /\ at[n].saw.key = None
    BY <1>8 DEF EnrollInv, Sound
  <2>7. at[n].saw = None => Room
    BY <1>8 DEF EnrollInv, Sound, Creating
  <2>. HIDE DEF w
  <2>8. Leased' /\ Late'
    BY <1>1, <2>1, <2>2, <2>5, <2>6 DEF Leased, Late
  <2>9. Creating' => Room
    BY <2>2, <2>5, <2>7 DEF Creating, Critical
  <2>. QED  BY <1>4, <1>5, <2>4, <2>8, <2>9 DEF EnrollInv, Room, Sound
<1>. QED  BY <1>7, <1>8 DEF Fails

\* Operators and the controller create no agent that counts against the ceiling.
LEMMA OthersStep ==
  ASSUME EnrollInv, NEW a \in Names,
         publish_enrollment_objects(a) \/ Withdraw(a) \/ Declare(a) \/ Delete(a)
  PROVE  EnrollInv'
<1>1. agents \in [Names -> Agent \cup {None}] /\ edits \in 0 .. MaxEdits
  BY DEF EnrollInv, TypeOK
<1>2. agents[a] # None => agents[a] \in Agent /\ Unpinned(agents[a])
  BY <1>1 DEF EnrollInv
<1>3. ASSUME NEW agent, Edit(a, agent), agent \in Agent \cup {None},
             agent # None => Unpinned(agent),
             agent # None /\ agent.dynamic => agents[a] # None /\ agents[a].dynamic
      PROVE  EnrollInv'
  <2>1. edits' \in 0 .. MaxEdits
    BY SMT, <1>1, <1>3, EnrollmentAssumption DEF Edit
  <2>. QED  BY <1>3, <2>1, RewriteStep DEF Edit
<1>4. CASE publish_enrollment_objects(a)
  <2>. DEFINE agent == [agents[a] EXCEPT !.published = TRUE]
  <2>1. agent \in Agent /\ Unpinned(agent) /\ agent.dynamic = agents[a].dynamic
    BY <1>2, <1>4 DEF publish_enrollment_objects, Agent, Unpinned
  <2>2. agents' = [agents EXCEPT ![a] = agent]
    BY <1>4 DEF publish_enrollment_objects
  <2>. HIDE DEF agent
  <2>. QED  BY <1>1, <1>4, <2>1, <2>2, RewriteStep DEF publish_enrollment_objects
<1>5. CASE Withdraw(a)
  <2>. DEFINE agent == [agents[a] EXCEPT !.published = FALSE]
  <2>1. agent \in Agent /\ Unpinned(agent) /\ agent.dynamic = agents[a].dynamic
    BY <1>2, <1>5 DEF Withdraw, Agent, Unpinned
  <2>. QED  BY <1>3, <1>5, <2>1 DEF Withdraw
<1>6. CASE Declare(a)
  <2>. PICK kind \in {"manual", "reserved"} :
         Edit(a, [kind |-> kind, key |-> IF kind = "manual" THEN Operator ELSE None,
                  edit |-> edits + 1, dynamic |-> FALSE, deleting |-> FALSE,
                  published |-> FALSE])
    BY <1>6 DEF Declare
  <2>. DEFINE agent == [kind |-> kind, key |-> IF kind = "manual" THEN Operator ELSE None,
                        edit |-> edits + 1, dynamic |-> FALSE, deleting |-> FALSE,
                        published |-> FALSE]
  <2>1. edits + 1 \in 0 .. MaxEdits
    BY SMT, <1>1, EnrollmentAssumption DEF Edit
  <2>2. agent \in Agent /\ Unpinned(agent) /\ ~agent.dynamic
    BY <2>1 DEF Agent, Unpinned, Keys
  <2>. QED  BY <1>3, <2>2
<1>7. CASE Delete(a)
  <2>. DEFINE agent == [agents[a] EXCEPT !.deleting = TRUE]
  <2>1. agent \in Agent /\ Unpinned(agent) /\ agent.dynamic = agents[a].dynamic
    BY <1>2, <1>7 DEF Delete, Agent, Unpinned
  <2>. QED  BY <1>3, <1>7, <2>1 DEF Delete
<1>. QED  BY <1>4, <1>5, <1>6, <1>7

-----------------------------------------------------------------------------
(* The theorems *)

\* A request, whatever step it takes, keeps the invariant.
LEMMA RequestStep ==
  ASSUME EnrollInv, NEW n \in Nodes, Request(n)
  PROVE  EnrollInv'
<1>1. CASE LockWaitEnds(n) \/ register_enrollment(n)
  <2>1. /\ UNCHANGED <<name, agents, repository, holder, disk, late, faults, edits>>
        /\ at' = [at EXCEPT ![n] = Off] \/ Goto(n, "download")
    BY <1>1 DEF LockWaitEnds, register_enrollment
  <2>2. disk' \in [Nodes -> Disk] /\ "download" \in Local
    BY <2>1 DEF EnrollInv, TypeOK, Local
  <2>. QED  BY <2>1, <2>2, OutsideStep
<1>. QED  BY <1>1, AcquireStep, ReadStep, CreateStep, AdoptStep, ReleaseStep DEF Request

\* A boot, and what a node does with the answer, happen outside the transaction.
LEMMA NodeMoves ==
  ASSUME EnrollInv, NEW n \in Nodes, NodeStep(n)
  PROVE  EnrollInv'
<1>1. disk \in [Nodes -> Disk] /\ at[n].key \in Keys \cup {None}
  BY DEF EnrollInv, TypeOK, Place
<1>2. UNCHANGED <<name, agents, repository, late, faults, edits>> /\ UNCHANGED holder
  BY DEF NodeStep, load_or_enroll_http, download_bundle, persist_leaf, load_or_enroll
<1>3. disk' \in [Nodes -> Disk]
  <2>1. CASE load_or_enroll_http(n)
    <3>1. \/ disk' = [disk EXCEPT ![n].consumed = TRUE]
          \/ UNCHANGED disk
          \/ disk' = [disk EXCEPT ![n].key = n]
      BY <2>1 DEF load_or_enroll_http, durable_key_pem
    <3>. QED  BY <1>1, <3>1 DEF Disk, Keys
  <2>2. CASE download_bundle(n) \/ persist_leaf(n) \/ load_or_enroll(n)
    BY <1>1, <2>2 DEF download_bundle, persist_leaf, load_or_enroll, Disk
  <2>. QED  BY <2>1, <2>2 DEF NodeStep
<1>4. \/ \E pc \in Local : Goto(n, pc)
      \/ at' = [at EXCEPT ![n] = [Off EXCEPT !.pc = "lock", !.key = n]]
      \/ at' = [at EXCEPT ![n].pc = "running"]
      \/ UNCHANGED at
  BY DEF NodeStep, load_or_enroll_http, durable_key_pem, download_bundle, persist_leaf,
         load_or_enroll, Local
<1>. QED  BY <1>2, <1>3, <1>4, OutsideStep

\* The invariant holds at the start: no agent, nobody in a transaction.
LEMMA InitInv == Init => EnrollInv
<1>. SUFFICES ASSUME Init PROVE EnrollInv
  OBVIOUS
<1>1. \A n \in Nodes : at[n] = Off
  BY DEF Init
<1>2. Off \in Place /\ Off.pc = "off"
  BY DEF Off, Place, Local
<1>3. TypeOK
  BY SMT, <1>2, EnrollmentAssumption DEF Init, TypeOK, Disk
<1>4. Dynamic = {} /\ late = {}
  BY DEF Init, Dynamic
<1>5. Cardinality(Dynamic) = 0
  BY <1>4, FS_EmptySet
<1>6. (\A n \in Nodes : Sound(n, at[n])) /\ Leased /\ Late /\ ~Creating
  BY <1>1, <1>2, <1>4 DEF Sound, Leased, Late, Creating, Server, Critical
<1>. QED  BY SMT, <1>3, <1>5, <1>6, EnrollmentAssumption DEF EnrollInv, Init

\* Every step keeps the invariant.
LEMMA NextInv == EnrollInv /\ [Next]_vars => EnrollInv'
<1>. SUFFICES ASSUME EnrollInv, [Next]_vars PROVE EnrollInv'
  OBVIOUS
<1>1. CASE SetMode
  <2>1. TypeOK' /\ Leased' /\ Late' /\ (Creating' => Creating) /\ Dynamic' = Dynamic
    BY SMT, <1>1, EnrollmentAssumption
       DEF SetMode, EnrollInv, TypeOK, Leased, Late, Creating, Dynamic
  <2>. QED  BY <1>1, <2>1 DEF EnrollInv, SetMode, Sound, Room
<1>2. CASE UNCHANGED vars
  <2>1. TypeOK' /\ Leased' /\ Late' /\ (Creating' => Creating) /\ Dynamic' = Dynamic
    BY <1>2 DEF vars, EnrollInv, TypeOK, Leased, Late, Creating, Dynamic
  <2>. QED  BY <1>2, <2>1 DEF vars, EnrollInv, Sound, Room
<1>. QED
  BY <1>1, <1>2, RequestStep, NodeMoves, FailStep, ExpireStep, LateStep, OthersStep DEF Next

\* The inductive invariant holds in every reachable state.
LEMMA Invariant == Spec => []EnrollInv
  BY InitInv, NextInv, PTL DEF Spec

\* Every variable keeps its type, however enrollments, faults and edits interleave.
THEOREM EnrollmentTypeCorrect == Spec => []TypeOK
<1>1. EnrollInv => TypeOK
  BY DEF EnrollInv
<1>. QED  BY Invariant, <1>1, PTL

\* At most one request is inside the gateway's transaction, although a Lease runs out
\* under a request that died and its writes arrive late.
THEOREM LeaseExcludes ==
  Spec => [](\A m, n \in Nodes :
               at[m].pc \in Critical /\ at[n].pc \in Critical => m = n)
<1>1. EnrollInv => \A m, n \in Nodes :
               at[m].pc \in Critical /\ at[n].pc \in Critical => m = n
  BY DEF EnrollInv, Leased
<1>. QED  BY Invariant, <1>1, PTL

\* Enrollments never grow the inventory beyond MAX_BACKEND_INVENTORY_MEMBERS: the count
\* of at_enrollment_capacity still holds when the create it allowed is applied.
THEOREM CapacityNeverExceeded == Spec => []CapacityKept
<1>1. EnrollInv => CapacityKept
  BY DEF EnrollInv, CapacityKept, Dynamic
<1>. QED  BY Invariant, <1>1, PTL

\* No request, late write, reservation or status update replaces a key that is pinned:
\* create_agent_idempotent writes where there is nothing, accept_existing_agent over
\* a reservation, which pins none.
THEOREM PinnedKeyStays == Spec => PinnedForever
<1>. DEFINE Kept == \A a \in Names : agents[a] # None /\ agents[a].key # None /\ agents'[a] # None
                        => agents'[a].key = agents[a].key
<1>1. EnrollInv /\ [Next]_vars => [Kept]_vars
  <2>. SUFFICES ASSUME EnrollInv, Next, NEW a \in Names, agents[a] # None,
                       agents[a].key # None, agents'[a] # None
                PROVE  agents'[a].key = agents[a].key
    BY DEF Kept
  <2>1. agents \in [Names -> Agent \cup {None}] /\ agents[a] \in Agent
    BY DEF EnrollInv, TypeOK
  <2>2. agents[a].kind # "reserved"
    BY DEF EnrollInv, Unpinned
  <2>3. ASSUME NEW n \in Nodes, create_agent_idempotent(n)
        PROVE  agents'[a] = agents[a]
    BY <2>1, <2>3 DEF create_agent_idempotent, Found
  <2>4. ASSUME NEW n \in Nodes, accept_existing_agent(n)
        PROVE  agents'[a] = agents[a]
    <3>1. at[n].saw.kind = "reserved"
      BY <2>4 DEF accept_existing_agent, EnrollInv, Sound
    <3>2. Found(n) = at[n].saw => name[n] # a
      BY <2>2, <3>1 DEF Found
    <3>. QED  BY <2>1, <2>4, <3>2 DEF accept_existing_agent
  <2>5. ASSUME NEW w \in late, LateWrite(w)
        PROVE  agents'[a] = agents[a]
    <3>1. w.over # None => w.over.kind = "reserved"
      BY DEF EnrollInv, Late
    <3>2. agents[name[w.by]] = w.over => name[w.by] # a
      BY <2>2, <3>1
    <3>. QED  BY <2>1, <2>5, <3>2 DEF LateWrite
  <2>6. ASSUME NEW b \in Names,
               publish_enrollment_objects(b) \/ Withdraw(b) \/ Declare(b) \/ Delete(b)
        PROVE  agents'[a].key = agents[a].key
    <3>1. CASE b # a
      BY <2>1, <2>6, <3>1 DEF publish_enrollment_objects, Withdraw, Declare, Delete, Edit
    <3>2. CASE b = a
      <4>1. ~Declare(a)
        BY <2>2 DEF Declare, adopts_preapproval
      <4>2. \/ agents'[a] = [agents[a] EXCEPT !.published = TRUE]
            \/ agents'[a] = [agents[a] EXCEPT !.published = FALSE]
            \/ agents'[a] = [agents[a] EXCEPT !.deleting = TRUE]
        BY <2>1, <2>6, <3>2, <4>1 DEF publish_enrollment_objects, Withdraw, Delete, Edit
      <4>. QED  BY <2>1, <4>2 DEF Agent
    <3>. QED  BY <3>1, <3>2
  <2>7. ASSUME NEW n \in Nodes, Request(n) \/ NodeStep(n) \/ Fails(n)
        PROVE  agents'[a] = agents[a]
    BY <2>3, <2>4, <2>7
       DEF Request, NodeStep, Fails, acquire_enrollment_lock, LockWaitEnds, live_repository,
           Lookup, List, Exists, Changed, release, register_enrollment, load_or_enroll_http,
           download_bundle, persist_leaf, load_or_enroll
  <2>. QED  BY <2>5, <2>6, <2>7 DEF Next, Expire, SetMode
<1>. QED  BY Invariant, <1>1, PTL DEF Spec, PinnedForever, Kept

=============================================================================
