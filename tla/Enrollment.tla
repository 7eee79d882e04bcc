----------------------------- MODULE Enrollment -----------------------------
(***************************************************************************)
(* Enrollment of nodes: the boot of a node that has no identity yet        *)
(* (updated/src/enrollment.rs), the transaction the gateway runs for it    *)
(* under a fleet-wide Lease (updatec/src/gateway/enroll.rs), the           *)
(* controller that projects a bundle object for every agent, and operators *)
(* who reserve, pin and delete agents without taking the lock.             *)
(*                                                                         *)
(* A node waits for its own request, so a node and the request it is in    *)
(* share one program counter.  A request that is cancelled (the client is  *)
(* gone, the router's 30 s are over, the gateway dies) stops where it is:  *)
(* it releases nothing, and a write it has sent may still be applied.      *)
(***************************************************************************)
EXTENDS Naturals, FiniteSets

CONSTANTS
  Nodes,        \* machines
  Names,        \* node names
  Namings,      \* the ways the machines may be named in their configurations
  Preplaced,    \* machines an operator seeded with a bundle
  Capacity,     \* MAX_BACKEND_INVENTORY_MEMBERS
  MaxFaults,    \* bound: crashes, cancelled requests and failed calls
  MaxEdits,     \* bound: operator edits
  Operator,     \* the owner of a key an operator pinned
  None

\* A machine generates one key pair and keeps it; the machine stands for it.
Keys == Nodes \cup {Operator}

ASSUME EnrollmentAssumption ==
  /\ None \notin Nodes
  /\ IsFiniteSet(Names)
  /\ Namings \subseteq [Nodes -> Names]
  /\ Preplaced \subseteq Nodes
  /\ Capacity \in Nat /\ MaxFaults \in Nat /\ MaxEdits \in Nat

VARIABLES
  name,        \* [Nodes -> Names]: enrollment.name of each machine's configuration
  agents,      \* [Names -> Agent or None]: the UpdateAgents of this repository
  repository,  \* enrollment mode of the UpdateRepository, or "Terminating"
  holder,      \* holder of the enrollment Lease, or None
  at,          \* [Nodes -> where the machine, or its request, is]
  disk,        \* [Nodes -> the machine's state directory]
  late,        \* writes of cancelled requests that were not applied yet
  faults, edits

vars == <<name, agents, repository, holder, at, disk, late, faults, edits>>

(***************************************************************************)
(* An agent.  edit is the operator's edit that wrote it: with it two       *)
(* agents are equal only if their resource versions are.  dynamic records  *)
(* that an enrollment created it; published that its status names an       *)
(* enrollment object.                                                      *)
(***************************************************************************)
Agent == [kind : {"manual", "reserved", "enrolled"}, key : Keys \cup {None},
          edit : 0 .. MaxEdits, dynamic : BOOLEAN, deleting : BOOLEAN, published : BOOLEAN]

Local    == {"off", "download", "leaf", "bundle", "consume", "running"}
Critical == {"policy", "lookup", "list", "create", "exists", "adopt", "changed", "release"}
Server   == Critical \cup {"lock", "recheck"}

\* key is the key pair in memory, saw the agent an earlier step of the request read,
\* yes what it has found out: that the policy is open, that the claim is registered.
Place == [pc : Local \cup Server, key : Keys \cup {None}, saw : Agent \cup {None}, yes : BOOLEAN]

Disk == [key : Keys \cup {None}, leaf : Keys \cup {None}, bundle : BOOLEAN, consumed : BOOLEAN]

Write == [by : Nodes, key : Keys, over : Agent \cup {None}]

TypeOK ==
  /\ name \in Namings
  /\ agents \in [Names -> Agent \cup {None}]
  /\ repository \in {"Open", "ReservedOnly", "Terminating"}
  /\ holder \in Nodes \cup {None}
  /\ at \in [Nodes -> Place]
  /\ disk \in [Nodes -> Disk]
  /\ late \subseteq Write
  /\ faults \in 0 .. MaxFaults /\ edits \in 0 .. MaxEdits

Off == [pc |-> "off", key |-> None, saw |-> None, yes |-> FALSE]

Init ==
  /\ name \in Namings
  /\ agents = [a \in Names |-> None]
  /\ repository = "Open"
  /\ holder = None
  /\ at = [n \in Nodes |-> Off]
  /\ disk = [n \in Nodes |->
               [key |-> None, leaf |-> None, bundle |-> n \in Preplaced, consumed |-> FALSE]]
  /\ late = {}
  /\ faults = 0 /\ edits = 0

Goto(n, pc) == at' = [at EXCEPT ![n].pc = pc, ![n].saw = None, ![n].yes = FALSE]

\* The transaction ends and goes on to release the Lease.
Registered(n, yes) == at' = [at EXCEPT ![n].pc = "release", ![n].saw = None, ![n].yes = yes]

-----------------------------------------------------------------------------
(* The gateway's transaction for one node. *)

\* The request's claim on its name is the one the live agent pins.
matches(agent, key) ==
  agent # None /\ ~agent.deleting /\ agent.kind = "enrolled" /\ agent.key = key

\* An operator reserved the name and left the identity to the node.
adopts_preapproval(agent) == ~agent.deleting /\ agent.kind = "reserved"

desired(key) ==
  [kind |-> "enrolled", key |-> key, edit |-> 0,
   dynamic |-> TRUE, deleting |-> FALSE, published |-> FALSE]

Found(n) == agents[name[n]]

\* Takes the Lease if nobody has it.
acquire_enrollment_lock(n) ==
  /\ at[n].pc = "lock" /\ holder = None
  /\ holder' = n
  /\ Goto(n, "policy")
  /\ UNCHANGED <<name, agents, repository, disk, late, faults, edits>>

LockWaitEnds(n) ==
  /\ at[n].pc = "lock" /\ holder # None
  /\ at' = [at EXCEPT ![n] = Off]
  /\ UNCHANGED <<name, agents, repository, holder, disk, late, faults, edits>>

\* Reads the repository; a terminating one admits nobody.
live_repository(n) ==
  /\ at[n].pc = "policy"
  /\ IF repository = "Terminating" THEN Registered(n, FALSE)
     ELSE at' = [at EXCEPT ![n].pc = "lookup", ![n].yes = repository = "Open"]
  /\ UNCHANGED <<name, agents, repository, holder, disk, late, faults, edits>>

\* Mutant: a name that has an identity is taken, whoever asks.
MutRefuseKnown(n, agent) ==
  IF adopts_preapproval(agent)
  THEN at' = [at EXCEPT ![n].pc = "adopt", ![n].saw = agent, ![n].yes = FALSE]
  ELSE Registered(n, FALSE)

\* What the transaction does with an agent it found under its name.
AcceptExisting(n, agent) ==
  IF matches(agent, at[n].key) THEN Registered(n, TRUE)
  ELSE IF adopts_preapproval(agent)
  THEN at' = [at EXCEPT ![n].pc = "adopt", ![n].saw = agent, ![n].yes = FALSE]
  ELSE Registered(n, FALSE)

Lookup(n) ==
  /\ at[n].pc = "lookup"
  /\ IF Found(n) # None THEN AcceptExisting(n, Found(n))
     ELSE IF ~at[n].yes THEN Registered(n, FALSE)
     ELSE Goto(n, "list")
  /\ UNCHANGED <<name, agents, repository, holder, disk, late, faults, edits>>

at_enrollment_capacity == Cardinality({a \in Names : agents[a] # None}) >= Capacity

List(n) ==
  /\ at[n].pc = "list"
  /\ IF at_enrollment_capacity THEN Registered(n, FALSE) ELSE Goto(n, "create")
  /\ UNCHANGED <<name, agents, repository, holder, disk, late, faults, edits>>

\* Creates the agent.  One that appeared meanwhile is read and judged like any other.
create_agent_idempotent(n) ==
  /\ at[n].pc = "create"
  /\ IF Found(n) = None
     THEN agents' = [agents EXCEPT ![name[n]] = desired(at[n].key)] /\ Registered(n, TRUE)
     ELSE Goto(n, "exists") /\ UNCHANGED agents
  /\ UNCHANGED <<name, repository, holder, disk, late, faults, edits>>

Exists(n) ==
  /\ at[n].pc = "exists"
  /\ IF Found(n) = None THEN Registered(n, FALSE) ELSE AcceptExisting(n, Found(n))
  /\ UNCHANGED <<name, agents, repository, holder, disk, late, faults, edits>>

\* Mutant: the reservation is completed without the resource version that was read.
MutCompleteBlindly(n) ==
  /\ at[n].pc = "adopt" /\ Found(n) # None
  /\ agents' = [agents EXCEPT ![name[n]].kind = "enrolled", ![name[n]].key = at[n].key]
  /\ Registered(n, TRUE)
  /\ UNCHANGED <<name, repository, holder, disk, late, faults, edits>>

\* Stamps the identity on the reservation it read, if that is still what is there.
accept_existing_agent(n) ==
  /\ at[n].pc = "adopt"
  /\ IF Found(n) = at[n].saw
     THEN /\ agents' = [agents EXCEPT ![name[n]].kind = "enrolled", ![name[n]].key = at[n].key]
          /\ Registered(n, TRUE)
     ELSE Goto(n, "changed") /\ UNCHANGED agents
  /\ UNCHANGED <<name, repository, holder, disk, late, faults, edits>>

Changed(n) ==
  /\ at[n].pc = "changed"
  /\ Registered(n, matches(Found(n), at[n].key))
  /\ UNCHANGED <<name, agents, repository, holder, disk, late, faults, edits>>

\* Gives the Lease back, if it is still this request's.
release(n) ==
  /\ at[n].pc = "release"
  /\ holder' = IF holder = n THEN None ELSE holder
  /\ IF at[n].yes THEN Goto(n, "recheck") ELSE at' = [at EXCEPT ![n] = Off]
  /\ UNCHANGED <<name, agents, repository, disk, late, faults, edits>>

\* Reads the agent once more, and signs the leaf only for the identity that it pins
\* and once its bundle is published.
register_enrollment(n) ==
  /\ at[n].pc = "recheck"
  /\ IF matches(Found(n), at[n].key) /\ Found(n).published
     THEN Goto(n, "download") ELSE at' = [at EXCEPT ![n] = Off]
  /\ UNCHANGED <<name, agents, repository, holder, disk, late, faults, edits>>

\* Mutant: the Lease is shorter than the transaction that holds it.
MutShortLease ==
  /\ holder # None
  /\ holder' = None
  /\ UNCHANGED <<name, agents, repository, at, disk, late, faults, edits>>

\* A Lease that was not released runs out.  A request is cancelled after 30 s and the
\* Lease lasts 120 s, so its holder is gone and its writes have been applied or lost.
Expire ==
  /\ holder # None
  /\ at[holder].pc \notin Critical
  /\ \A w \in late : w.by # holder
  /\ holder' = None
  /\ UNCHANGED <<name, agents, repository, at, disk, late, faults, edits>>

-----------------------------------------------------------------------------
(* The node. *)

\* The node's durable key is on disk before the request that names it is sent.
durable_key_pem(n) ==
  /\ disk' = [disk EXCEPT ![n].key = n]
  /\ at' = [at EXCEPT ![n] = [Off EXCEPT !.pc = "lock", !.key = n]]

\* A boot: on a bundle with an identity, on a bundle without one, or from nothing.
load_or_enroll_http(n) ==
  /\ at[n].pc = "off"
  /\ IF disk[n].bundle /\ ~disk[n].consumed
     THEN /\ disk' = [disk EXCEPT ![n].consumed = TRUE]
          /\ UNCHANGED at
     ELSE IF disk[n].bundle /\ disk[n].leaf # None
     THEN at' = [at EXCEPT ![n].pc = "running"] /\ UNCHANGED disk
     ELSE (disk[n].bundle \/ ~disk[n].consumed) /\ durable_key_pem(n)
  /\ UNCHANGED <<name, agents, repository, holder, late, faults, edits>>

\* The leaf is for the requested key; the bundle behind the capability is fetched.
download_bundle(n) ==
  /\ at[n].pc = "download"
  /\ Goto(n, "leaf")
  /\ UNCHANGED <<name, agents, repository, holder, disk, late, faults, edits>>

persist_leaf(n) ==
  /\ at[n].pc = "leaf"
  /\ disk' = [disk EXCEPT ![n].leaf = at[n].key]
  /\ Goto(n, IF disk[n].bundle THEN "running" ELSE "bundle")
  /\ UNCHANGED <<name, agents, repository, holder, late, faults, edits>>

\* The bundle first, the marker that it was used second.
load_or_enroll(n) ==
  \/ /\ at[n].pc = "bundle"
     /\ disk' = [disk EXCEPT ![n].bundle = TRUE]
     /\ Goto(n, "consume")
     /\ UNCHANGED <<name, agents, repository, holder, late, faults, edits>>
  \/ /\ at[n].pc = "consume"
     /\ disk' = [disk EXCEPT ![n].consumed = TRUE]
     /\ Goto(n, "running")
     /\ UNCHANGED <<name, agents, repository, holder, late, faults, edits>>

-----------------------------------------------------------------------------
(* Everybody else. *)

\* The node crashes, its request is cancelled or a call of it fails.  A write it was
\* making may be on its way.
Fails(n) ==
  /\ faults < MaxFaults
  /\ at[n].pc \notin {"off", "running"}
  /\ at' = [at EXCEPT ![n] = Off]
  /\ late' \in {late} \cup
       (IF at[n].pc \in {"create", "adopt"}
        THEN {late \cup {[by |-> n, key |-> at[n].key, over |-> at[n].saw]}} ELSE {})
  /\ faults' = faults + 1
  /\ UNCHANGED <<name, agents, repository, holder, disk, edits>>

\* A late write is applied, if what it expects is still there, or lost.
LateWrite(w) ==
  /\ agents' \in {agents} \cup
       (IF agents[name[w.by]] # w.over THEN {}
        ELSE {[agents EXCEPT ![name[w.by]] =
                 IF w.over = None THEN desired(w.key)
                 ELSE [w.over EXCEPT !.kind = "enrolled", !.key = w.key]]})
  /\ late' = late \ {w}
  /\ UNCHANGED <<name, repository, holder, at, disk, faults, edits>>

\* The controller publishes the bundle of an agent and names it in the agent's status.
publish_enrollment_objects(a) ==
  /\ agents[a] # None /\ ~agents[a].published
  /\ agents' = [agents EXCEPT ![a].published = TRUE]
  /\ UNCHANGED <<name, repository, holder, at, disk, late, faults, edits>>

Edit(a, agent) ==
  /\ edits < MaxEdits
  /\ edits' = edits + 1
  /\ agents' = [agents EXCEPT ![a] = agent]
  /\ UNCHANGED <<name, repository, holder, at, disk, late, faults>>

\* The served generation has no assignment for the agent any more: its group is held back,
\* and the next pass clears the pointer.
Withdraw(a) ==
  agents[a] # None /\ agents[a].published /\ Edit(a, [agents[a] EXCEPT !.published = FALSE])

\* An operator reserves a name, or pins a key of their own to it.
Declare(a) ==
  /\ agents[a] # None => adopts_preapproval(agents[a])
  /\ \E kind \in {"manual", "reserved"} :
       Edit(a, [kind |-> kind, key |-> IF kind = "manual" THEN Operator ELSE None,
                edit |-> edits + 1, dynamic |-> FALSE, deleting |-> FALSE, published |-> FALSE])

\* An operator deletes an agent; a finalizer may keep it for a while.
Delete(a) ==
  /\ agents[a] # None
  /\ Edit(a, None) \/ (~agents[a].deleting /\ Edit(a, [agents[a] EXCEPT !.deleting = TRUE]))

SetMode ==
  /\ edits < MaxEdits /\ repository # "Terminating"
  /\ edits' = edits + 1
  /\ repository' \in {"Open", "ReservedOnly", "Terminating"} \ {repository}
  /\ UNCHANGED <<name, agents, holder, at, disk, late, faults>>

-----------------------------------------------------------------------------
Request(n) ==
  \/ acquire_enrollment_lock(n) \/ LockWaitEnds(n) \/ live_repository(n) \/ Lookup(n) \/ List(n)
  \/ create_agent_idempotent(n) \/ Exists(n) \/ accept_existing_agent(n) \/ Changed(n)
  \/ release(n) \/ register_enrollment(n)

NodeStep(n) ==
  load_or_enroll_http(n) \/ download_bundle(n) \/ persist_leaf(n) \/ load_or_enroll(n)

Next ==
  \/ \E n \in Nodes : Request(n) \/ NodeStep(n) \/ Fails(n)
  \/ Expire
  \/ \E w \in late : LateWrite(w)
  \/ \E a \in Names : publish_enrollment_objects(a) \/ Withdraw(a) \/ Declare(a) \/ Delete(a)
  \/ SetMode

Spec == Init /\ [][Next]_vars

(***************************************************************************)
(* A failed boot is relaunched, a request goes on until it ends, the Lease *)
(* runs out, and the controller publishes in every pass.  Relaunches know  *)
(* nothing of the Lease and a request polls it every 50 ms: a node does    *)
(* not for ever ask only while another one has it.                         *)
(***************************************************************************)
Fairness ==
  /\ \A n \in Nodes : /\ WF_vars(Request(n) \/ NodeStep(n))
                      /\ SF_vars(holder = None /\ load_or_enroll_http(n))
                      /\ SF_vars(acquire_enrollment_lock(n))
  /\ WF_vars(Expire)
  /\ WF_vars(\E w \in late : LateWrite(w))
  /\ \A a \in Names : WF_vars(publish_enrollment_objects(a))

FairSpec == Spec /\ Fairness

-----------------------------------------------------------------------------
\* Enrollments never grow the inventory beyond its ceiling: the count a request took
\* under the Lease still bounds the agents when its create is applied, whoever else
\* enrolls, dies with the Lease or adds agents by hand.
CapacityKept == Cardinality({a \in Names : agents[a] # None /\ agents[a].dynamic}) <= Capacity

\* The key that is pinned to a name stays pinned until an operator removes the agent:
\* no request, however late, replaces the identity of an established node.
PinnedForever ==
  [][\A a \in Names : agents[a] # None /\ agents[a].key # None /\ agents'[a] # None
                        => agents'[a].key = agents[a].key]_vars

\* The live agent of the node's name was admitted for this node.
Admitted(n) ==
  Found(n) # None /\ ~Found(n).deleting /\ Found(n).key = n

\* An enrollment that was admitted is completed, although responses get lost, requests
\* die with the Lease and the node reboots: its retries claim the same identity.
AdmittedCompletes ==
  \A n \in Nodes :
    Admitted(n) ~> (at[n].pc = "running" \/ ~Admitted(n) \/ repository = "Terminating")

=============================================================================
