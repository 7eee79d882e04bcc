----------------------------- MODULE Publisher -----------------------------
(***************************************************************************)
(* The publisher of the control plane: the controller replicas of one      *)
(* repository, the lease and the state-volume lock that elect one of them  *)
(* (crates/updatec/src/main.rs, runtime/lease.rs), and the passes it runs: *)
(* load the admitted state, settle the journal of an interrupted           *)
(* publication, plan, sign, upload, record (runtime/reconcile.rs,          *)
(* runtime/publish.rs, runtime/admitted.rs, updated-tuf/src/repo.rs).      *)
(*                                                                         *)
(* The replicas share one state volume (the chart requires it).  A rollout *)
(* state is a plan, which is what a generation publishes, and a note, the  *)
(* part no target carries (vetoes, retired predecessors).  What the        *)
(* planner makes of its inputs is `want`: the environment changes it.      *)
(* A signed timestamp is identified with its version, a root with its      *)
(* version.  The admitted state is the register AdmittedState implements.  *)
(*                                                                         *)
(* Faults: a call of a pass fails and the pass ends; a process dies; the   *)
(* lease expires under a live holder.  The PUT a pass was in when it ended *)
(* may still be applied by the object store; LatePuts says whether it can  *)
(* do so after the next pass has started.                                  *)
(***************************************************************************)
EXTENDS Naturals, FiniteSets

CONSTANTS Replicas, Plans, Notes,
          LatePuts,      \* may a PUT outlive the pass that sent it?
          Backups,       \* may the state volume be replaced by an older copy?
          MaxFaults,     \* bound: failed calls, deaths, lease expiries
          MaxEdits,      \* bound: changes of what the planner wants
          MaxRenewals,   \* bound: passes that find metadata near expiry
          None

States == [plan: Plans, note: Notes]

VARIABLES want,       \* the state the planner computes from its inputs
          budget,     \* what is left of the three bounds
          lease,      \* the Lease object: its holder, and is it unexpired?
          lock,       \* the holder of publisher.lock on the state volume
          pc,         \* where each replica is
          pass,       \* what the pass of each replica remembers
          local,      \* repository/metadata on the state volume
          marker,     \* published.json on the state volume
          journal,    \* pending-state.json on the state volume
          backup,     \* a copy of the state volume taken between passes
          store,      \* root.json and timestamp.json in the object store
          durable,    \* the admitted state in the cluster
          anchor,     \* status.routingRootSha256 of the repository
          inflight    \* PUTs whose sender has moved on

volume == <<local, marker, journal>>
vars == <<want, budget, lease, lock, pc, pass, local, marker, journal, backup, store, durable,
          anchor, inflight>>

Points == {"follow", "top", "load", "recover", "adopt", "settle", "plan", "compare", "refuse",
           "init", "renew", "sign", "journal", "capture", "root", "timestamp", "mark", "record",
           "unjournal", "project"}
InPass == Points \ {"follow", "top"}

\* An absent repository is at version 0; an interrupted init has a root alone.
Local == [root: Nat, version: Nat, plan: Plans \cup {None}]
Marker == [plan: Plans, root: Nat, version: Nat]
Journal == [marker: Marker, state: States]
Backup == [local: Local, marker: Marker \cup {None}, journal: Journal \cup {None}]
Pass == [base: States \cup {None}, fresh: BOOLEAN, planned: States \cup {None},
         renewals: SUBSET {"root", "online"}, seen: [root: Nat, version: Nat]]
Bounds == {"faults", "edits", "renewals"}
Put == [object: {"root", "timestamp"}, local: Local, seen: [root: Nat, version: Nat]]

ASSUME PublisherAssumption ==
    /\ None \notin States \cup Replicas
    /\ None \notin Marker /\ None \notin Journal
    /\ LatePuts \in BOOLEAN /\ Backups \in BOOLEAN
    /\ MaxFaults \in Nat /\ MaxEdits \in Nat /\ MaxRenewals \in Nat

Empty == [root |-> 0, version |-> 0, plan |-> None]
NoPass == [base |-> None, fresh |-> TRUE, planned |-> None, renewals |-> {},
           seen |-> [root |-> 0, version |-> 0]]

\* publication_marker: the planned content and the local signed metadata.
PublicationMarker(r) ==
    [plan |-> pass[r].planned.plan, root |-> local.root, version |-> local.version]
Partial == local.root > 0 /\ local.version = 0

ContentUnchanged(r) == local.version > 0 /\ marker = PublicationMarker(r)
PublicationRequired(r, renewals) == ~ContentUnchanged(r) \/ renewals # {}

\* refuse_generation_rollback
RollbackRefused == store.version > 0 /\ (local.root = 0 \/ local.version < store.version)

\* acquire_or_renew_lease grants the lease, or holds_lease confirms it.
LeaseGranted(r) == lease.holder \in {None, r} \/ ~lease.live
HoldsLease(r) == lease = [holder |-> r, live |-> TRUE]

Goto(r, point) == pc' = [pc EXCEPT ![r] = point]

Init ==
    /\ want \in States
    /\ budget = [b \in Bounds |-> IF b = "faults" THEN MaxFaults
                                  ELSE IF b = "edits" THEN MaxEdits ELSE MaxRenewals]
    /\ lease = [holder |-> None, live |-> FALSE]
    /\ lock = None
    /\ pc = [r \in Replicas |-> "follow"]
    /\ pass = [r \in Replicas |-> NoPass]
    /\ local = Empty
    /\ marker = None
    /\ journal = None
    /\ backup = None
    /\ store = Empty
    /\ durable = None
    /\ anchor = 0
    /\ inflight = {}

------------------------------------------------------------------------------
(* The ends of a pass.                                                     *)

Spend(what) ==
    /\ budget[what] > 0
    /\ budget' = [budget EXCEPT ![what] = @ - 1]

\* A root.json that did not change is not written again.
SameRoot(r) == pc[r] = "root" /\ local.root = pass[r].seen.root

\* The PUT a replica may have sent without learning its outcome.
Outstanding(r) ==
    IF ~LatePuts \/ pc[r] \notin {"root", "timestamp"} \/ SameRoot(r) THEN {}
    ELSE {[object |-> pc[r], local |-> local, seen |-> pass[r].seen]}

LeaveBehind(r) == \E sent \in SUBSET Outstanding(r) : inflight' = inflight \cup sent

\* The pass returns an error (or its last value) and the process goes on.
EndPass(r) ==
    /\ Goto(r, "top")
    /\ pass' = [pass EXCEPT ![r] = NoPass]

\* exit_publisher_epoch, or a death: the kernel releases the lock and the
\* replica is restarted.
ExitProcess(r) ==
    /\ Goto(r, "follow")
    /\ pass' = [pass EXCEPT ![r] = NoPass]
    /\ lock' = IF lock = r THEN None ELSE lock
    /\ LeaveBehind(r)

\* A step of a pass that touches nothing but what the pass remembers.
Quiet == UNCHANGED <<want, budget, lease, lock, volume, backup, store, durable, anchor, inflight>>

------------------------------------------------------------------------------
(* The loop of the controller.                                             *)

\* The top of the loop: the lease, then the lock of the state volume, which a
\* replica keeps for its whole epoch; without the lease an epoch ends.
Lead(r) ==
    /\ pc[r] \in {"follow", "top"}
    /\ LeaseGranted(r)
    /\ lease' = [holder |-> r, live |-> TRUE]
    /\ lock' = IF lock = None THEN r ELSE lock
    /\ Goto(r, IF lock' = r THEN "load" ELSE "follow")
    /\ UNCHANGED <<want, budget, pass, volume, backup, store, durable, anchor, inflight>>

StepDown(r) ==
    /\ pc[r] = "top"
    /\ ~LeaseGranted(r)
    /\ ExitProcess(r)
    /\ UNCHANGED <<want, budget, lease, volume, backup, store, durable, anchor>>

\* The renewal every five seconds beside the pass; it exits on a refusal.
Watchdog(r) ==
    /\ pc[r] \in InPass
    /\ \/ /\ LeaseGranted(r)
          /\ ~HoldsLease(r)
          /\ lease' = [holder |-> r, live |-> TRUE]
          /\ UNCHANGED <<pc, pass, lock, inflight>>
       \/ /\ ~LeaseGranted(r)
          /\ ExitProcess(r)
          /\ UNCHANGED lease
    /\ UNCHANGED <<want, budget, volume, backup, store, durable, anchor>>

\* A call of the pass fails: reconcile_once returns the error.
CallFails(r) ==
    /\ pc[r] \in InPass
    /\ Spend("faults")
    /\ EndPass(r)
    /\ LeaveBehind(r)
    /\ UNCHANGED <<want, lease, lock, volume, backup, store, durable, anchor>>

Die(r) ==
    /\ pc[r] # "follow"
    /\ Spend("faults")
    /\ ExitProcess(r)
    /\ UNCHANGED <<want, lease, volume, backup, store, durable, anchor>>

------------------------------------------------------------------------------
(* load_admitted_state and recover_pending_publication.                    *)

Load(r) ==
    /\ pc[r] = "load"
    /\ pass' = [pass EXCEPT ![r] = [NoPass EXCEPT !.base = durable]]
    /\ Goto(r, IF journal = None THEN "plan" ELSE "recover")
    /\ Quiet

\* Mutant: the local marker decides whether the generation was uploaded.
MutMarkerDecides(r) ==
    /\ pc[r] = "recover"
    /\ Goto(r, IF marker = journal.marker /\ journal.state # pass[r].base THEN "adopt" ELSE "settle")
    /\ UNCHANGED <<want, budget, lease, lock, pass, volume, backup, store, durable, anchor, inflight>>

\* Mutant: every journal is adopted, uploaded or not.
MutAdoptAnyway(r) ==
    /\ pc[r] = "recover"
    /\ marker' = journal.marker
    /\ Goto(r, IF journal.state # pass[r].base THEN "adopt" ELSE "settle")
    /\ UNCHANGED <<want, budget, lease, lock, pass, local, journal, backup, store, durable, anchor,
                   inflight>>

\* The store alone decides whether the journalled generation was uploaded; if
\* so the marker is finished and the journalled state is to be recorded.
Recover(r) ==
    /\ pc[r] = "recover"
    /\ LET landed == store.version = journal.marker.version IN
       /\ marker' = IF landed THEN journal.marker ELSE marker
       /\ Goto(r, IF landed /\ journal.state # pass[r].base THEN "adopt" ELSE "settle")
    /\ UNCHANGED <<want, budget, lease, lock, pass, local, journal, backup, store, durable, anchor,
                   inflight>>

\* store_admitted_state, a compare-and-swap at the version the pass loaded.
StoreAdmitted(r, state) ==
    /\ durable' = state
    /\ pass' = [q \in Replicas |-> IF q = r THEN [pass[q] EXCEPT !.base = state]
                                   ELSE [pass[q] EXCEPT !.fresh = FALSE]]
    /\ UNCHANGED <<want, budget, lease, lock, volume, backup, store, anchor, inflight>>

\* Mutant: the state is adopted but the pass goes on with the one it loaded.
MutAdoptForOthers(r) ==
    /\ pc[r] = "adopt"
    /\ durable' = journal.state /\ Goto(r, "settle")
    /\ UNCHANGED <<want, budget, lease, lock, pass, volume, backup, store, anchor, inflight>>

Adopt(r) ==
    /\ pc[r] = "adopt"
    /\ IF pass[r].fresh
       THEN StoreAdmitted(r, journal.state) /\ Goto(r, "settle")
       ELSE EndPass(r) /\ Quiet

\* remove_pending_publication_journal, whatever the verdict was.
Settle(r) ==
    /\ pc[r] \in {"settle", "unjournal"}
    /\ journal' = None
    /\ Goto(r, IF pc[r] = "settle" THEN "plan" ELSE "project")
    /\ UNCHANGED <<want, budget, lease, lock, pass, local, marker, backup, store, durable, anchor,
                   inflight>>

------------------------------------------------------------------------------
(* Planning, and the decision to sign (reconcile_once, commit).            *)

\* Mutant: a pass without a baseline never plans, whatever is served.
MutNeedBaseline(r) ==
    /\ pc[r] = "plan"
    /\ IF pass[r].base = None
       THEN EndPass(r)
       ELSE pass' = [pass EXCEPT ![r].planned = want] /\ Goto(r, "compare")
    /\ Quiet

\* No baseline while a generation is served: refuse to plan from nothing.
Plan(r) ==
    /\ pc[r] = "plan"
    /\ IF pass[r].base = None /\ store.version > 0
       THEN EndPass(r)
       ELSE pass' = [pass EXCEPT ![r].planned = want] /\ Goto(r, "compare")
    /\ Quiet

\* The roles that are near expiry; a missing document never is.
Expiring == IF local.version = 0 THEN {{}} ELSE SUBSET {"root", "online"}

Compare(r) ==
    /\ pc[r] = "compare"
    /\ \/ Partial /\ EndPass(r) /\ UNCHANGED budget
       \/ /\ ~Partial
          /\ \E expiring \in Expiring :
                /\ IF expiring = {} THEN UNCHANGED budget ELSE Spend("renewals")
                /\ pass' = [pass EXCEPT ![r].renewals = expiring]
                /\ Goto(r, IF PublicationRequired(r, expiring) THEN "refuse" ELSE "record")
    /\ UNCHANGED <<want, lease, lock, volume, backup, store, durable, anchor, inflight>>

Refuse(r) ==
    /\ pc[r] = "refuse"
    /\ \/ RollbackRefused /\ EndPass(r)
       \/ /\ ~RollbackRefused
          /\ Goto(r, IF local.root = 0 THEN "init"
                     ELSE IF "root" \in pass[r].renewals THEN "renew" ELSE "sign")
          /\ UNCHANGED pass
    /\ Quiet

\* init: root.json is on disk before the first online metadata.
InitRepository(r) ==
    /\ pc[r] = "init"
    /\ local' = IF local.root = 0 THEN [local EXCEPT !.root = 1] ELSE [local EXCEPT !.version = 1]
    /\ Goto(r, IF local.root = 0 THEN "init" ELSE "sign")
    /\ UNCHANGED <<want, budget, lease, lock, pass, marker, journal, backup, store, durable, anchor,
                   inflight>>

\* renew_expiring_root: a renewal that fails is dropped and signs nothing.
RenewRoot(r) ==
    /\ pc[r] = "renew"
    /\ \/ local' = [local EXCEPT !.root = @ + 1] /\ UNCHANGED pass
       \/ pass' = [pass EXCEPT ![r].renewals = pass[r].renewals \ {"root"}] /\ UNCHANGED local
    /\ Goto(r, IF PublicationRequired(r, pass'[r].renewals) THEN "sign" ELSE "record")
    /\ UNCHANGED <<want, budget, lease, lock, marker, journal, backup, store, durable, anchor,
                   inflight>>

\* sign_plan numbers the generation from the local metadata.
Sign(r) ==
    /\ pc[r] = "sign"
    /\ local' = [local EXCEPT !.version = @ + 1, !.plan = pass[r].planned.plan]
    /\ Goto(r, "journal")
    /\ UNCHANGED <<want, budget, lease, lock, pass, marker, journal, backup, store, durable, anchor,
                   inflight>>

------------------------------------------------------------------------------
(* The journal, the upload and the record.                                 *)

WriteJournal(r) ==
    /\ pc[r] = "journal"
    /\ IF HoldsLease(r)
       THEN /\ journal' = [marker |-> PublicationMarker(r), state |-> pass[r].planned]
            /\ Goto(r, "capture")
            /\ UNCHANGED pass
       ELSE EndPass(r) /\ UNCHANGED journal
    /\ UNCHANGED <<want, budget, lease, lock, local, marker, backup, store, durable, anchor, inflight>>

\* The versions both conditional writes are made against, captured before the
\* first; a store that is ahead is refused, and so is one that serves the same
\* version in other bytes (every generation is signed by the pass itself).
Capture(r) ==
    /\ pc[r] = "capture"
    /\ IF store.version >= local.version
       THEN EndPass(r)
       ELSE /\ pass' = [pass EXCEPT ![r].seen = [root |-> store.root, version |-> store.version]]
            /\ Goto(r, "root")
    /\ Quiet

\* Mutant: the mutable objects are overwritten unconditionally.
MutUnconditional(object, seen) == TRUE

\* What the object store makes of a conditional PUT.
Applies(object, seen) ==
    IF object = "root" THEN store.root = seen.root ELSE store.version = seen.version
Applied(object, doc) ==
    IF object = "root" THEN [store EXCEPT !.root = doc.root]
    ELSE [store EXCEPT !.version = doc.version, !.plan = doc.plan]

\* commit_conditional_publication_file, for root.json and then timestamp.json.
PutObject(r) ==
    /\ pc[r] \in {"root", "timestamp"}
    /\ IF SameRoot(r) \/ Applies(pc[r], pass[r].seen)
       THEN /\ store' = IF SameRoot(r) THEN store ELSE Applied(pc[r], local)
            /\ Goto(r, IF pc[r] = "root" THEN "timestamp" ELSE "mark")
            /\ UNCHANGED pass
       ELSE EndPass(r) /\ UNCHANGED store
    /\ UNCHANGED <<want, budget, lease, lock, volume, backup, durable, anchor, inflight>>

WriteMarker(r) ==
    /\ pc[r] = "mark"
    /\ marker' = PublicationMarker(r)
    /\ Goto(r, "record")
    /\ UNCHANGED <<want, budget, lease, lock, pass, local, journal, backup, store, durable, anchor,
                   inflight>>

\* The prepared state is stored only if the plan changed it.
Record(r) ==
    /\ pc[r] = "record"
    /\ IF pass[r].planned = pass[r].base
       THEN Goto(r, "unjournal") /\ UNCHANGED pass /\ Quiet
       ELSE IF pass[r].fresh
       THEN StoreAdmitted(r, pass[r].planned) /\ Goto(r, "unjournal")
       ELSE EndPass(r) /\ Quiet

\* The projection: the trust anchor is the digest of the local root.
Project(r) ==
    /\ pc[r] = "project"
    /\ anchor' = IF local.root = 0 THEN anchor ELSE local.root
    /\ EndPass(r)
    /\ UNCHANGED <<want, budget, lease, lock, volume, backup, store, durable, inflight>>

------------------------------------------------------------------------------
(* The environment.                                                        *)

\* The inputs of the planner change (specs, reports, the clock).
Edit ==
    /\ Spend("edits")
    /\ want' \in States \ {want}
    /\ UNCHANGED <<lease, lock, pc, pass, volume, backup, store, durable, anchor, inflight>>

\* A lease runs out: under a live publisher only by a stall.
LeaseExpires ==
    /\ lease.live
    /\ IF pc[lease.holder] = "follow" THEN UNCHANGED budget ELSE Spend("faults")
    /\ lease' = [lease EXCEPT !.live = FALSE]
    /\ UNCHANGED <<want, lock, pc, pass, volume, backup, store, durable, anchor, inflight>>

\* The object store settles a PUT nobody waits for any more.
Land(put) ==
    /\ store' = IF Applies(put.object, put.seen) THEN Applied(put.object, put.local) ELSE store
    /\ inflight' = inflight \ {put}
    /\ UNCHANGED <<want, budget, lease, lock, pc, pass, volume, backup, durable, anchor>>

\* The state volume is copied between passes, and later put back.
TakeBackup ==
    /\ Backups /\ backup = None
    /\ \A r \in Replicas : pc[r] \notin InPass
    /\ backup' = [local |-> local, marker |-> marker, journal |-> journal]
    /\ UNCHANGED <<want, budget, lease, lock, pc, pass, volume, store, durable, anchor, inflight>>

RestoreVolume ==
    /\ backup # None /\ lock = None
    /\ local' = backup.local /\ marker' = backup.marker /\ journal' = backup.journal
    /\ backup' = None
    /\ UNCHANGED <<want, budget, lease, lock, pc, pass, store, durable, anchor, inflight>>

------------------------------------------------------------------------------

PassStep(r) ==
    \/ Load(r) \/ Recover(r) \/ Adopt(r) \/ Settle(r) \/ Plan(r) \/ Compare(r) \/ Refuse(r)
    \/ InitRepository(r) \/ RenewRoot(r) \/ Sign(r) \/ WriteJournal(r) \/ Capture(r)
    \/ PutObject(r) \/ WriteMarker(r) \/ Record(r) \/ Project(r)

LoopStep(r) == Lead(r) \/ StepDown(r) \/ Watchdog(r)

Next ==
    \/ \E r \in Replicas : LoopStep(r) \/ PassStep(r) \/ CallFails(r) \/ Die(r)
    \/ Edit
    \/ LeaseExpires
    \/ \E put \in inflight : Land(put)
    \/ TakeBackup
    \/ RestoreVolume

Spec == Init /\ [][Next]_vars

LiveSpec ==
    /\ Spec
    /\ \A r \in Replicas : WF_vars(LoopStep(r)) /\ WF_vars(PassStep(r))

------------------------------------------------------------------------------
(* Properties.                                                             *)

\* The variables hold the documents and program points of the code.
TypeOK ==
    /\ want \in States
    /\ budget \in [Bounds -> Nat]
    /\ lease \in [holder: Replicas \cup {None}, live: BOOLEAN]
    /\ lock \in Replicas \cup {None}
    /\ pc \in [Replicas -> Points]
    /\ pass \in [Replicas -> Pass]
    /\ local \in Local
    /\ marker \in Marker \cup {None}
    /\ journal \in Journal \cup {None}
    /\ backup \in Backup \cup {None}
    /\ store \in Local
    /\ durable \in States \cup {None}
    /\ anchor \in Nat
    /\ inflight \subseteq Put

\* The generation the store serves is accounted for: the admitted state is the
\* one that generation was planned with, or the journal of that very
\* generation is still there for recover_pending_publication to adopt.
ServedIsAccountedFor ==
    store.version > 0 =>
        \/ durable # None /\ durable.plan = store.plan
        \/ journal # None /\ journal.marker.version = store.version
                          /\ journal.state.plan = store.plan

\* A pass that has planned did so from the state of the generation the store
\* serves, so no node is republished on its predecessor.
PlansFromServed ==
    \A r \in Replicas :
        pc[r] \in {"compare", "refuse", "init", "renew", "sign", "journal", "capture", "root",
                   "timestamp"}
        => IF store.version = 0 THEN pass[r].base = None
           ELSE pass[r].base # None /\ pass[r].base.plan = store.plan

\* The trust anchor that enrollment pins is never a root the store has yet to
\* serve.
AnchorServed == anchor <= store.root

\* The generation the store serves, which clients hold as their rollback floor,
\* never goes back: not by a former publisher's late PUT, nor by a publisher
\* whose state volume is an older copy.
ServedMonotone == [][store'.version > store.version]_(store.version)

\* A write of the admitted state records a state of the generation that is
\* being served when it is made.
RecordsOnlyServed ==
    [][durable' # None /\ durable'.plan = store.plan]_durable

\* Once faults and edits cease, the store serves and the cluster records what
\* the planner wants, and the journal is settled, unless an interrupted
\* initialization left a root without a timestamp.
Settled == store.plan = want.plan /\ durable = want /\ anchor = store.root
Converges == <>[](Settled \/ Partial)
==============================================================================
