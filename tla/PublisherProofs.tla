-------------------------- MODULE PublisherProofs --------------------------
(***************************************************************************)
(* What the publisher guarantees for any number of replicas, plans, faults *)
(* and edits.  FenceInv needs no assumption on late PUTs or on restored    *)
(* volumes; PublisherInv does.                                             *)
(***************************************************************************)
EXTENDS Publisher, TLAPS

\* Nearly all of it is first-order; the leaves about arithmetic or records name SMT.
USE Zenon

\* A replica past the lock is the one that holds it.
Locked == \A r \in Replicas : pc[r] # "follow" => lock = r

\* The points at which a pass has planned.
Planned == {"compare", "refuse", "init", "renew", "sign", "journal", "capture", "root",
            "timestamp", "mark", "record"}

\* What a pass has established when it gets to a point.
Established(r) ==
    /\ pc[r] \in {"recover", "adopt"} => journal # None
    /\ pc[r] \in Planned => pass[r].planned \in States
    /\ pc[r] \in {"root", "timestamp"} => pass[r].seen.version < local.version

\* A PUT carries a generation above the one it may replace.
Rises(put) == put.seen.version < put.local.version

FenceInv ==
    /\ TypeOK
    /\ Locked
    /\ \A r \in Replicas : Established(r)
    /\ \A put \in inflight : Rises(put)

------------------------------------------------------------------------------

\* Before the first pass nothing is signed, served or recorded.
LEMMA InitFence == Init => FenceInv
  BY SMT, PublisherAssumption
  DEF Init, FenceInv, TypeOK, Locked, Established, Planned, States, Bounds, Local, Put, Points,
      Pass, NoPass, Empty

\* While a replica is past the lock every other one is a follower.
LEMMA OthersFollow ==
  ASSUME Locked, NEW r \in Replicas, pc[r] # "follow"
  PROVE  \A q \in Replicas : q # r => pc[q] = "follow"
  BY DEF Locked

\* A step of the lock holder leaves the other replicas where they are, so only
\* its own claims have to be shown again.
LEMMA HolderStep ==
  ASSUME FenceInv, NEW r \in Replicas, pc[r] # "follow",
         NEW point \in Points, pc' = [pc EXCEPT ![r] = point],
         TypeOK', lock' = lock \/ lock' = r \/ point = "follow",
         Established(r)', inflight' = inflight \/ \A put \in inflight' : Rises(put)
  PROVE  FenceInv'
<1>1. \A q \in Replicas : q # r => pc[q] = "follow" /\ pc'[q] = "follow"
  BY OthersFollow DEF FenceInv, TypeOK
<1>2. pc'[r] = point  BY DEF FenceInv, TypeOK
<1>3. Locked'  BY <1>1, <1>2 DEF Locked, FenceInv
<1>4. \A q \in Replicas : Established(q)'
  BY <1>1 DEF Established, Planned
<1> QED  BY <1>3, <1>4 DEF FenceInv

\* The end of a pass keeps the types.
LEMMA EndPassType ==
  ASSUME TypeOK, NEW r \in Replicas
  PROVE  [pass EXCEPT ![r] = NoPass] \in [Replicas -> Pass]
  BY DEF TypeOK, NoPass, Pass

\* Recording a state keeps the types.
LEMMA StoreAdmittedType ==
  ASSUME TypeOK, NEW r \in Replicas, NEW state \in States, StoreAdmitted(r, state)
  PROVE  pass' \in [Replicas -> Pass]
<1>1. \A q \in Replicas : pass[q] \in Pass  BY DEF TypeOK
<1>2. \A q \in Replicas : [pass[q] EXCEPT !.base = state] \in Pass  BY <1>1 DEF Pass
<1>3. \A q \in Replicas : [pass[q] EXCEPT !.fresh = FALSE] \in Pass  BY <1>1 DEF Pass
<1> QED  BY <1>2, <1>3 DEF StoreAdmitted

\* Loading the admitted state keeps the fence.
LEMMA LoadFence ==
  ASSUME FenceInv, NEW r \in Replicas, Load(r)
  PROVE  FenceInv'
<1>1. TypeOK'
  BY DEF FenceInv, TypeOK, Load, Quiet, Goto, Pass, NoPass, volume, Points
<1>2. Established(r)'
  BY DEF FenceInv, TypeOK, Established, Load, Quiet, Goto, volume, Planned
<1> QED  BY <1>1, <1>2, HolderStep DEF Load, Quiet, Goto, Points

\* Deciding whether the journalled generation was uploaded keeps the fence.
LEMMA RecoverFence ==
  ASSUME FenceInv, NEW r \in Replicas, Recover(r)
  PROVE  FenceInv'
<1>0. journal \in Journal  BY DEF FenceInv, Established, TypeOK, Recover
<1>1. TypeOK'
  BY <1>0 DEF FenceInv, TypeOK, Recover, Goto, Points, Journal
<1>2. Established(r)'
  BY <1>0, PublisherAssumption DEF FenceInv, TypeOK, Established, Recover, Goto, Planned
<1> QED  BY <1>1, <1>2, HolderStep DEF Recover, Goto, Points

\* Recording a journalled state keeps the fence.
LEMMA AdoptFence ==
  ASSUME FenceInv, NEW r \in Replicas, Adopt(r)
  PROVE  FenceInv'
<1>0. journal \in Journal  BY DEF FenceInv, Established, TypeOK, Adopt
<1>1. CASE pass[r].fresh
  <2>0. journal.state \in States  BY <1>0 DEF Journal
  <2>1. TypeOK'
    BY <1>1, <2>0, StoreAdmittedType
    DEF FenceInv, TypeOK, Adopt, StoreAdmitted, Goto, Points, volume
  <2>2. Established(r)'
    BY <1>1 DEF FenceInv, TypeOK, Established, Adopt, StoreAdmitted, Goto, Planned, volume
  <2> QED  BY <1>1, <2>1, <2>2, HolderStep DEF Adopt, StoreAdmitted, Goto, Points
<1>2. CASE ~pass[r].fresh
  <2>1. TypeOK'
    BY <1>2, EndPassType DEF FenceInv, TypeOK, Adopt, EndPass, Goto, Points, Quiet, volume
  <2>2. Established(r)'
    BY <1>2 DEF FenceInv, TypeOK, Established, Adopt, EndPass, Goto, Planned, volume
  <2> QED  BY <1>2, <2>1, <2>2, HolderStep DEF Adopt, EndPass, Goto, Points, Quiet
<1> QED  BY <1>1, <1>2 DEF FenceInv, TypeOK, Pass

\* Removing the journal keeps the fence.
LEMMA SettleFence ==
  ASSUME FenceInv, NEW r \in Replicas, Settle(r)
  PROVE  FenceInv'
<1>1. TypeOK'  BY DEF FenceInv, TypeOK, Settle, Goto, Points
<1>2. Established(r)'  BY DEF FenceInv, TypeOK, Established, Settle, Goto, Planned
<1> QED  BY <1>1, <1>2, HolderStep DEF Settle, Goto, Points

\* Planning, or refusing to plan without a baseline keeps the fence.
LEMMA PlanFence ==
  ASSUME FenceInv, NEW r \in Replicas, Plan(r)
  PROVE  FenceInv'
<1>1. [pass EXCEPT ![r].planned = want] \in [Replicas -> Pass]
  BY DEF FenceInv, TypeOK, Pass
<1>2. TypeOK'
  BY <1>1, EndPassType DEF FenceInv, TypeOK, Plan, EndPass, Goto, Points, Quiet, volume
<1>3. Established(r)'
  BY SMT DEF FenceInv, TypeOK, Established, Plan, EndPass, Goto, Planned, Quiet, volume, Pass
<1> QED  BY <1>2, <1>3, HolderStep DEF Plan, EndPass, Goto, Points, Quiet

\* Comparing the marker and the expiry dates keeps the fence.
LEMMA CompareFence ==
  ASSUME FenceInv, NEW r \in Replicas, Compare(r)
  PROVE  FenceInv'
<1>0. \A e \in Expiring : [pass EXCEPT ![r].renewals = e] \in [Replicas -> Pass]
  BY DEF FenceInv, TypeOK, Pass, Expiring
<1>1. budget' \in [Bounds -> Nat]
  BY SMT DEF FenceInv, TypeOK, Compare, Spend, Bounds
<1>2. TypeOK'
  BY SMT, <1>0, <1>1, EndPassType DEF FenceInv, TypeOK, Compare, EndPass, Goto, Points, volume
<1>3. Established(r)'
  BY SMT DEF FenceInv, TypeOK, Established, Compare, EndPass, Goto, Planned, volume, Pass
<1> QED  BY <1>2, <1>3, HolderStep DEF Compare, EndPass, Goto, Points

\* Asking the rollback guard keeps the fence.
LEMMA RefuseFence ==
  ASSUME FenceInv, NEW r \in Replicas, Refuse(r)
  PROVE  FenceInv'
<1>1. TypeOK'
  BY SMT, EndPassType DEF FenceInv, TypeOK, Refuse, EndPass, Goto, Points, Quiet, volume
<1>2. Established(r)'
  BY DEF FenceInv, TypeOK, Established, Refuse, EndPass, Goto, Planned, Quiet, volume
<1> QED  BY <1>1, <1>2, HolderStep DEF Refuse, EndPass, Goto, Points, Quiet

\* Initializing the repository keeps the fence.
LEMMA InitRepositoryFence ==
  ASSUME FenceInv, NEW r \in Replicas, InitRepository(r)
  PROVE  FenceInv'
<1>0. [local EXCEPT !.root = 1] \in Local /\ [local EXCEPT !.version = 1] \in Local
  BY DEF FenceInv, TypeOK, Local
<1>1. local' \in Local  BY <1>0 DEF InitRepository
<1>2. TypeOK'  BY <1>1 DEF FenceInv, TypeOK, InitRepository, Goto, Points
<1>3. Established(r)'  BY DEF FenceInv, TypeOK, Established, InitRepository, Goto, Planned
<1> QED  BY <1>2, <1>3, HolderStep DEF InitRepository, Goto, Points

\* Renewing the root, or failing to keeps the fence.
LEMMA RenewRootFence ==
  ASSUME FenceInv, NEW r \in Replicas, RenewRoot(r)
  PROVE  FenceInv'
<1>0. [local EXCEPT !.root = @ + 1] \in Local  BY SMT DEF FenceInv, TypeOK, Local
<1>1. local' \in Local  BY <1>0 DEF FenceInv, TypeOK, RenewRoot
<1>2. [pass EXCEPT ![r].renewals = pass[r].renewals \ {"root"}] \in [Replicas -> Pass]
  BY DEF FenceInv, TypeOK, Pass
<1>3. TypeOK'  BY <1>1, <1>2 DEF FenceInv, TypeOK, RenewRoot, Goto, Points
<1>4. Established(r)'
  BY DEF FenceInv, TypeOK, Established, RenewRoot, Goto, Planned, Pass
<1> QED  BY <1>3, <1>4, HolderStep DEF RenewRoot, Goto, Points

\* Signing the next generation keeps the fence.
LEMMA SignFence ==
  ASSUME FenceInv, NEW r \in Replicas, Sign(r)
  PROVE  FenceInv'
<1>1. pass[r].planned.plan \in Plans
  BY DEF FenceInv, Established, Planned, Sign, States
<1>0. \A v \in Nat, p \in Plans : [local EXCEPT !.version = v, !.plan = p] \in Local
  BY DEF FenceInv, TypeOK, Local
<1>2. local' \in Local
  <2>1. local.version + 1 \in Nat  BY SMT DEF FenceInv, TypeOK, Local
  <2>2. local' = [local EXCEPT !.version = local.version + 1, !.plan = pass[r].planned.plan]
    BY DEF Sign
  <2> QED  BY <1>0, <1>1, <2>1, <2>2
<1>3. TypeOK'  BY <1>2 DEF FenceInv, TypeOK, Sign, Goto, Points
<1>4. Established(r)'  BY DEF FenceInv, TypeOK, Established, Sign, Goto, Planned
<1> QED  BY <1>3, <1>4, HolderStep DEF Sign, Goto, Points

\* What a pass writes as marker and into the journal.
LEMMA MarkerType ==
  ASSUME FenceInv, NEW r \in Replicas, pc[r] \in Planned
  PROVE  PublicationMarker(r) \in Marker
<1>1. pass[r].planned.plan \in Plans  BY DEF FenceInv, Established, States
<1> QED  BY <1>1 DEF FenceInv, TypeOK, PublicationMarker, Marker, Local

\* Journalling, or giving up without the lease keeps the fence.
LEMMA WriteJournalFence ==
  ASSUME FenceInv, NEW r \in Replicas, WriteJournal(r)
  PROVE  FenceInv'
<1>1. PublicationMarker(r) \in Marker /\ pass[r].planned \in States
  BY MarkerType DEF WriteJournal, Planned, FenceInv, Established
<1>2. journal' \in Journal \cup {None}
  BY SMT, <1>1 DEF FenceInv, TypeOK, WriteJournal, Journal
<1>3. TypeOK'
  BY <1>2, EndPassType DEF FenceInv, TypeOK, WriteJournal, EndPass, Goto, Points
<1>4. Established(r)'
  BY <1>1 DEF FenceInv, TypeOK, Established, WriteJournal, EndPass, Goto, Planned
<1> QED  BY <1>3, <1>4, HolderStep DEF WriteJournal, EndPass, Goto, Points

\* Capturing the versions the PUTs are conditional on keeps the fence.
LEMMA CaptureFence ==
  ASSUME FenceInv, NEW r \in Replicas, Capture(r)
  PROVE  FenceInv'
<1>1. [pass EXCEPT ![r].seen = [root |-> store.root, version |-> store.version]]
          \in [Replicas -> Pass]
  BY SMT DEF FenceInv, TypeOK, Pass, Local
<1>2. TypeOK'
  BY SMT, <1>1, EndPassType DEF FenceInv, TypeOK, Capture, EndPass, Goto, Points, Quiet, volume
<1>3. Established(r)'
  BY SMT DEF FenceInv, TypeOK, Established, Capture, EndPass, Goto, Planned, Quiet, volume, Pass, Local
<1> QED  BY <1>2, <1>3, HolderStep DEF Capture, EndPass, Goto, Points, Quiet

\* What the store holds after a PUT is applied.
LEMMA AppliedType ==
  ASSUME store \in Local, NEW object, NEW doc \in Local
  PROVE  Applied(object, doc) \in Local
<1>1. [store EXCEPT !.root = doc.root] \in Local  BY DEF Local
<1>2. [store EXCEPT !.version = doc.version, !.plan = doc.plan] \in Local  BY DEF Local
<1> QED  BY <1>1, <1>2 DEF Applied

\* A conditional PUT of the pass keeps the fence.
LEMMA PutObjectFence ==
  ASSUME FenceInv, NEW r \in Replicas, PutObject(r)
  PROVE  FenceInv'
<1>1. store' \in Local  BY SMT, AppliedType DEF FenceInv, TypeOK, PutObject
<1>2. TypeOK'
  BY <1>1, EndPassType DEF FenceInv, TypeOK, PutObject, EndPass, Goto, Points, volume
<1>3. Established(r)'
  BY DEF FenceInv, TypeOK, Established, PutObject, EndPass, Goto, Planned, volume
<1> QED  BY <1>2, <1>3, HolderStep DEF PutObject, EndPass, Goto, Points

\* Writing the marker keeps the fence.
LEMMA WriteMarkerFence ==
  ASSUME FenceInv, NEW r \in Replicas, WriteMarker(r)
  PROVE  FenceInv'
<1>1. PublicationMarker(r) \in Marker  BY MarkerType DEF WriteMarker, Planned
<1>2. TypeOK'  BY <1>1 DEF FenceInv, TypeOK, WriteMarker, Goto, Points
<1>3. Established(r)'  BY DEF FenceInv, TypeOK, Established, WriteMarker, Goto, Planned
<1> QED  BY <1>2, <1>3, HolderStep DEF WriteMarker, Goto, Points

\* Recording the planned state keeps the fence.
LEMMA RecordFence ==
  ASSUME FenceInv, NEW r \in Replicas, Record(r)
  PROVE  FenceInv'
<1>0. pass[r].planned \in States  BY DEF FenceInv, Established, Planned, Record
<1>1. CASE pass[r].planned = pass[r].base
  <2>1. TypeOK'  BY <1>1 DEF FenceInv, TypeOK, Record, Goto, Points, Quiet, volume
  <2>2. Established(r)'
    BY <1>1 DEF FenceInv, TypeOK, Established, Record, Goto, Planned, Quiet, volume
  <2> QED  BY <1>1, <2>1, <2>2, HolderStep DEF Record, Goto, Points, Quiet
<1>2. CASE pass[r].planned # pass[r].base /\ pass[r].fresh
  <2>1. TypeOK'
    BY <1>0, <1>2, StoreAdmittedType
    DEF FenceInv, TypeOK, Record, StoreAdmitted, Goto, Points, volume
  <2>2. Established(r)'
    BY <1>2 DEF FenceInv, TypeOK, Established, Record, StoreAdmitted, Goto, Planned, volume
  <2> QED  BY <1>2, <2>1, <2>2, HolderStep DEF Record, StoreAdmitted, Goto, Points
<1>3. CASE pass[r].planned # pass[r].base /\ ~pass[r].fresh
  <2>1. TypeOK'
    BY <1>3, EndPassType DEF FenceInv, TypeOK, Record, EndPass, Goto, Points, Quiet, volume
  <2>2. Established(r)'
    BY <1>3 DEF FenceInv, TypeOK, Established, Record, EndPass, Goto, Planned, Quiet, volume
  <2> QED  BY <1>3, <2>1, <2>2, HolderStep DEF Record, EndPass, Goto, Points, Quiet
<1> QED  BY <1>1, <1>2, <1>3

\* Projecting the trust anchor keeps the fence.
LEMMA ProjectFence ==
  ASSUME FenceInv, NEW r \in Replicas, Project(r)
  PROVE  FenceInv'
<1>1. TypeOK'
  BY EndPassType DEF FenceInv, TypeOK, Project, EndPass, Goto, Points, volume, Local
<1>2. Established(r)'
  BY DEF FenceInv, TypeOK, Established, Project, EndPass, Goto, Planned, volume
<1> QED  BY <1>1, <1>2, HolderStep DEF Project, EndPass, Goto, Points

------------------------------------------------------------------------------
(* The loop, the faults and the environment.                               *)

\* What an interrupted pass leaves in flight.
LEMMA LeaveBehindFence ==
  ASSUME FenceInv, NEW r \in Replicas, LeaveBehind(r)
  PROVE  inflight' \subseteq Put /\ \A put \in inflight' : Rises(put)
<1>1. \A put \in Outstanding(r) : put \in Put /\ Rises(put)
  BY SMT DEF Outstanding, FenceInv, TypeOK, Pass, Put, Established, Rises
<1>2. PICK sent \in SUBSET Outstanding(r) : inflight' = inflight \cup sent
  BY DEF LeaveBehind
<1> QED  BY <1>1, <1>2 DEF FenceInv, TypeOK

\* A process that ends leaves the lock and follows again.
LEMMA ExitFence ==
  ASSUME FenceInv, NEW r \in Replicas, pc[r] # "follow", ExitProcess(r),
         budget' \in [Bounds -> Nat],
         UNCHANGED <<want, lease, volume, backup, store, durable, anchor>>
  PROVE  FenceInv'
<1>1. inflight' \subseteq Put /\ \A put \in inflight' : Rises(put)
  BY LeaveBehindFence DEF ExitProcess
<1>2. TypeOK'
  BY <1>1, EndPassType DEF FenceInv, TypeOK, ExitProcess, Goto, Points, volume
<1>3. Established(r)'
  BY DEF FenceInv, TypeOK, Established, ExitProcess, Goto, Planned
<1> QED  BY <1>1, <1>2, <1>3, HolderStep DEF ExitProcess, Goto, Points

\* Taking or renewing the lease, and the lock keeps the fence.
LEMMA LeadFence ==
  ASSUME FenceInv, NEW r \in Replicas, Lead(r)
  PROVE  FenceInv'
<1>1. TypeOK'  BY DEF FenceInv, TypeOK, Lead, Goto, Points, volume
<1>2. Locked'
  <2>1. CASE lock = None
    BY <2>1, PublisherAssumption DEF FenceInv, TypeOK, Locked, Lead, Goto
  <2>2. CASE lock # None
    BY <2>2 DEF FenceInv, TypeOK, Locked, Lead, Goto
  <2> QED  BY <2>1, <2>2
<1>3. \A q \in Replicas : Established(q)'
  BY DEF FenceInv, TypeOK, Established, Lead, Goto, Planned, volume
<1> QED  BY <1>1, <1>2, <1>3 DEF FenceInv, Lead

\* The loop of a replica, with its watchdog.
LEMMA LoopFence ==
  ASSUME FenceInv, NEW r \in Replicas, LoopStep(r)
  PROVE  FenceInv'
<1>1. CASE Lead(r)  BY <1>1, LeadFence
<1>2. CASE StepDown(r)
  BY <1>2, ExitFence DEF StepDown, FenceInv, TypeOK
<1>3. CASE Watchdog(r) /\ LeaseGranted(r)
  <2>0. /\ lease' = [holder |-> r, live |-> TRUE]
        /\ UNCHANGED <<pc, pass, lock, inflight, want, budget, local, marker, journal, backup,
                       store, durable, anchor>>
    BY <1>3 DEF Watchdog, volume
  <2>1. TypeOK'  BY <2>0 DEF FenceInv, TypeOK
  <2>2. Locked'  BY <2>0 DEF FenceInv, Locked
  <2>3. \A q \in Replicas : Established(q)'  BY <2>0 DEF FenceInv, Established
  <2> QED  BY <2>0, <2>1, <2>2, <2>3 DEF FenceInv
<1>4. CASE Watchdog(r) /\ ~LeaseGranted(r)
  BY <1>4, ExitFence DEF Watchdog, FenceInv, TypeOK, InPass
<1> QED  BY <1>1, <1>2, <1>3, <1>4 DEF LoopStep

\* A failed call or a death.
LEMMA FaultFence ==
  ASSUME FenceInv, NEW r \in Replicas, CallFails(r) \/ Die(r)
  PROVE  FenceInv'
<1>0. budget' \in [Bounds -> Nat]
  BY SMT DEF FenceInv, TypeOK, CallFails, Die, Spend, Bounds
<1>1. CASE CallFails(r)
  <2>1. inflight' \subseteq Put /\ \A put \in inflight' : Rises(put)
    BY <1>1, LeaveBehindFence DEF CallFails
  <2>2. TypeOK'
    BY <1>0, <1>1, <2>1, EndPassType DEF FenceInv, TypeOK, CallFails, EndPass, Goto, Points, volume
  <2>3. Established(r)'
    BY <1>1 DEF FenceInv, TypeOK, Established, CallFails, EndPass, Goto, Planned
  <2> QED  BY <1>1, <2>1, <2>2, <2>3, HolderStep DEF CallFails, EndPass, Goto, Points, InPass
<1>2. CASE Die(r)  BY <1>0, <1>2, ExitFence DEF Die
<1> QED  BY <1>1, <1>2

\* The environment touches neither a pass nor, while one runs, the volume.
LEMMA EnvironmentFence ==
  ASSUME FenceInv,
         Edit \/ LeaseExpires \/ (\E put \in inflight : Land(put)) \/ TakeBackup \/ RestoreVolume
  PROVE  FenceInv'
<1>1. CASE Edit
  <2>1. budget' \in [Bounds -> Nat]  BY SMT, <1>1 DEF FenceInv, TypeOK, Edit, Spend, Bounds
  <2> QED  BY <1>1, <2>1 DEF FenceInv, TypeOK, Locked, Established, Edit, volume
<1>2. CASE LeaseExpires
  <2>1. budget' \in [Bounds -> Nat]  BY SMT, <1>2 DEF FenceInv, TypeOK, LeaseExpires, Spend, Bounds
  <2> QED  BY <1>2, <2>1 DEF FenceInv, TypeOK, Locked, Established, LeaseExpires, volume
<1>3. CASE \E put \in inflight : Land(put)
  <2>1. PICK put \in inflight : Land(put)  BY <1>3
  <2>2. put.local \in Local  BY DEF FenceInv, TypeOK, Put
  <2>3. store' \in Local  BY <2>1, <2>2, AppliedType DEF Land, FenceInv, TypeOK
  <2> QED  BY <2>1, <2>3 DEF FenceInv, TypeOK, Locked, Established, Land, volume
<1>4. CASE TakeBackup
  <2>1. backup' \in Backup  BY <1>4 DEF FenceInv, TypeOK, TakeBackup, Backup
  <2> QED  BY <1>4, <2>1 DEF FenceInv, TypeOK, Locked, Established, TakeBackup, volume
<1>5. CASE RestoreVolume
  <2>1. backup \in Backup  BY <1>5 DEF FenceInv, TypeOK, RestoreVolume
  <2>2. TypeOK'  BY <1>5, <2>1 DEF FenceInv, TypeOK, RestoreVolume, Backup
  <2>3. \A r \in Replicas : pc[r] = "follow" /\ pc'[r] = "follow"
    BY <1>5, PublisherAssumption DEF FenceInv, Locked, RestoreVolume
  <2> QED  BY <1>5, <2>2, <2>3 DEF FenceInv, Locked, Established, RestoreVolume, Planned
<1> QED  BY <1>1, <1>2, <1>3, <1>4, <1>5

\* Every step keeps the fence.
LEMMA StepFence == FenceInv /\ [Next]_vars => FenceInv'
<1> SUFFICES ASSUME FenceInv, [Next]_vars PROVE FenceInv'  OBVIOUS
<1>1. ASSUME NEW r \in Replicas, PassStep(r) PROVE FenceInv'
  BY <1>1, LoadFence, RecoverFence, AdoptFence, SettleFence, PlanFence, CompareFence, RefuseFence,
     InitRepositoryFence, RenewRootFence, SignFence, WriteJournalFence, CaptureFence,
     PutObjectFence, WriteMarkerFence, RecordFence, ProjectFence
  DEF PassStep
<1>2. ASSUME NEW r \in Replicas, LoopStep(r) PROVE FenceInv'  BY <1>2, LoopFence
<1>3. ASSUME NEW r \in Replicas, CallFails(r) \/ Die(r) PROVE FenceInv'  BY <1>3, FaultFence
<1>4. CASE UNCHANGED vars
  BY <1>4 DEF FenceInv, TypeOK, Locked, Established, Rises, vars
<1> QED  BY <1>1, <1>2, <1>3, <1>4, EnvironmentFence DEF Next

\* An applied PUT raises the version or leaves it alone.
LEMMA AppliedRises ==
  ASSUME store \in Local, NEW object, NEW doc \in Local, NEW seen,
         Applies(object, seen), seen.version < doc.version
  PROVE  \/ Applied(object, doc).version = store.version
         \/ Applied(object, doc).version > store.version
<1>1. CASE object = "root"
  <2>1. [store EXCEPT !.root = doc.root].version = store.version  BY DEF Local
  <2> QED  BY <1>1, <2>1 DEF Applied
<1>2. CASE object # "root"
  <2>1. store.version = seen.version  BY <1>2 DEF Applies
  <2>2. [store EXCEPT !.version = doc.version, !.plan = doc.plan].version = doc.version
    BY DEF Local
  <2> QED  BY <1>2, <2>1, <2>2 DEF Applied, Local
<1> QED  BY <1>1, <1>2

\* The steps other than a PUT leave the store alone.
LEMMA OnlyPutsWrite ==
  ASSUME [Next]_vars, store' # store
  PROVE  (\E r \in Replicas : PutObject(r)) \/ (\E put \in inflight : Land(put))
<1>1. ASSUME NEW r \in Replicas, LoopStep(r) \/ CallFails(r) \/ Die(r) PROVE FALSE
  BY <1>1 DEF LoopStep, Lead, StepDown, Watchdog, CallFails, Die
<1>2. ASSUME NEW r \in Replicas, PassStep(r) PROVE PutObject(r)
  BY <1>2 DEF PassStep, Load, Recover, Adopt, Settle, Plan, Compare, Refuse, InitRepository,
     RenewRoot, Sign, WriteJournal, Capture, WriteMarker, Record, Project, StoreAdmitted, Quiet
<1>3. ~Edit /\ ~LeaseExpires /\ ~TakeBackup /\ ~RestoreVolume /\ ~UNCHANGED vars
  BY DEF Edit, LeaseExpires, TakeBackup, RestoreVolume, vars
<1> QED  BY <1>1, <1>2, <1>3 DEF Next

\* The compare-and-swap of timestamp.json (publish_repository) fences every
\* writer: with any number of replicas, PUTs that land arbitrarily late and
\* state volumes replaced by older copies, the served generation never goes
\* back.
THEOREM ServedNeverGoesBack == Spec => ServedMonotone
<1>1. ASSUME FenceInv, [Next]_vars PROVE [store'.version > store.version]_(store.version)
  <2>1. CASE store' = store  BY <2>1
  <2>2. ASSUME NEW r \in Replicas, PutObject(r), store' # store
        PROVE  [store'.version > store.version]_(store.version)
    <3>1. /\ Applies(pc[r], pass[r].seen)
          /\ store' = Applied(pc[r], local)
          /\ pc[r] \in {"root", "timestamp"}
      BY <2>2 DEF PutObject
    <3>2. pass[r].seen.version < local.version /\ store \in Local /\ local \in Local
      BY <1>1, <3>1 DEF FenceInv, Established, TypeOK
    <3> QED  BY <3>1, <3>2, AppliedRises
  <2>3. ASSUME NEW put \in inflight, Land(put), store' # store
        PROVE  [store'.version > store.version]_(store.version)
    <3>1. Applies(put.object, put.seen) /\ store' = Applied(put.object, put.local)
      BY <2>3 DEF Land
    <3>2. put.seen.version < put.local.version /\ store \in Local /\ put.local \in Local
      BY <1>1 DEF FenceInv, Rises, TypeOK, Put
    <3> QED  BY <3>1, <3>2, AppliedRises
  <2> QED  BY <1>1, <2>1, <2>2, <2>3, OnlyPutsWrite
<1> QED  BY <1>1, InitFence, StepFence, PTL DEF Spec, ServedMonotone
-----------------------------------------------------------------------------
(***************************************************************************)
(* The journal, the store and the admitted state agree: what a pass plans  *)
(* from, records and announces is what the store serves.  This rests on    *)
(* two assumptions the fence above does without: no PUT outlives the pass  *)
(* that sent it, and the state volume is never replaced by an older copy.  *)
(***************************************************************************)

\* The admitted state is the one the served generation was planned with.
Matches ==
    IF store.version = 0 THEN durable = None
    ELSE durable \in States /\ durable.plan = store.plan

\* The journal describes the generation the store serves.
Pending ==
    /\ journal # None
    /\ journal.marker.version = store.version
    /\ journal.state.plan = store.plan

\* The journal's generation is signed and not older than what is served.
JournalHonest ==
    journal # None =>
        /\ journal.marker.version > 0
        /\ journal.marker.version \in store.version .. local.version
        /\ journal.marker.version = store.version =>
              /\ journal.marker.plan = store.plan
              /\ journal.state.plan = store.plan
              /\ journal.marker.root <= store.root

\* The marker names a generation that was uploaded.
MarkerHonest ==
    marker # None =>
        /\ marker.version <= store.version
        /\ marker.version = store.version =>
              /\ marker.plan = store.plan
              /\ marker.root <= store.root

Global ==
    /\ inflight = {} /\ backup = None
    /\ store.version <= local.version
    /\ store.root <= local.root
    /\ local.root = 0 => local.version = 0
    /\ anchor <= store.root
    /\ Matches \/ Pending
    /\ JournalHonest
    /\ MarkerHonest

Unjournalled == {"plan", "compare", "refuse", "init", "renew", "sign", "journal"}
Uploading == {"capture", "root", "timestamp"}

\* What the pass of the lock holder knows at each of its points.
At(r) ==
    /\ pc[r] \in InPass \ {"load"} => pass[r].fresh /\ pass[r].base = durable
    /\ pc[r] = "adopt" => Pending
    /\ pc[r] \in {"settle", "unjournal"} => Matches
    /\ pc[r] \in Unjournalled => journal = None
    /\ pc[r] = "init" => local.version = 0
    /\ pc[r] = "renew" => "root" \in pass[r].renewals
    /\ pc[r] \in {"renew", "sign"} => local.root > 0
    /\ pc[r] = "journal" => store.version < local.version /\ local.plan = pass[r].planned.plan
    /\ pc[r] \in Uploading \cup {"mark"} =>
          /\ journal = [marker |-> PublicationMarker(r), state |-> pass[r].planned]
          /\ local.plan = pass[r].planned.plan
    /\ pc[r] \in Uploading => Matches /\ store.version < local.version
    /\ pc[r] = "root" => pass[r].seen.root = store.root
    /\ pc[r] = "timestamp" => store.root = local.root
    /\ pc[r] = "mark" => Pending /\ store.version = local.version /\ store.root = local.root
    /\ pc[r] = "record" => store.version > 0 /\ store.plan = pass[r].planned.plan
    /\ pc[r] \in {"record", "unjournal", "project"} => local.root <= store.root

PublisherInv == FenceInv /\ Global /\ \A r \in Replicas : At(r)

------------------------------------------------------------------------------

\* The values an inequality is about are naturals.
LEMMA NaturalFields ==
  ASSUME FenceInv
  PROVE  /\ local.version \in Nat /\ local.root \in Nat
         /\ store.version \in Nat /\ store.root \in Nat
         /\ anchor \in Nat
         /\ marker # None => marker.version \in Nat /\ marker.root \in Nat
         /\ journal # None => journal.marker.version \in Nat /\ journal.marker.root \in Nat
  BY DEF FenceInv, TypeOK, Local, Marker, Journal

\* Before the first pass the records agree.
LEMMA InitRecord == Init => Global /\ \A r \in Replicas : At(r)
  BY SMT DEF Init, Global, At, Matches, JournalHonest, MarkerHonest, Empty, InPass, Points,
     Unjournalled, Uploading

\* A step that writes none of the records keeps their agreement.
LEMMA GlobalFrame ==
  ASSUME Global,
         UNCHANGED <<inflight, backup, local, store, anchor, durable, journal, marker>>
  PROVE  Global'
  BY DEF Global, Matches, Pending, JournalHonest, MarkerHonest

\* What a replica claims depends on its own state and the records only.
LEMMA AtFrame ==
  ASSUME NEW q \in Replicas, At(q), pc'[q] = pc[q],
         UNCHANGED <<pass, local, store, durable, journal>>
  PROVE  At(q)'
  BY SMT DEF At, Matches, Pending, PublicationMarker

\* A replica outside a pass claims nothing.
LEMMA AtRest ==
  ASSUME NEW q \in Replicas, pc'[q] \in {"follow", "top"}
  PROVE  At(q)'
  BY DEF At, InPass, Unjournalled, Uploading

\* After a step of the lock holder only its own claims have to be shown again.
LEMMA HolderRecord ==
  ASSUME PublisherInv, FenceInv', NEW r \in Replicas, pc[r] # "follow",
         NEW point, pc' = [pc EXCEPT ![r] = point],
         Global', At(r)'
  PROVE  PublisherInv'
<1>1. \A q \in Replicas : q # r => pc'[q] = "follow"
  BY OthersFollow DEF PublisherInv, FenceInv, TypeOK
<1>2. \A q \in Replicas : At(q)'  BY <1>1, AtRest
<1> QED  BY <1>2 DEF PublisherInv

\* The end of a pass, when nothing else is written.
LEMMA EndPassRecord ==
  ASSUME PublisherInv, FenceInv', NEW r \in Replicas, pc[r] # "follow",
         NEW point \in {"top", "follow"}, pc' = [pc EXCEPT ![r] = point],
         UNCHANGED <<inflight, backup, local, store, anchor, durable, journal, marker>>
  PROVE  PublisherInv'
<1>1. Global'  BY GlobalFrame DEF PublisherInv
<1>2. At(r)'  BY AtRest DEF PublisherInv, FenceInv, TypeOK
<1> QED  BY <1>1, <1>2, HolderRecord

\* Loading the admitted state keeps the agreement of the records.
LEMMA LoadRecord ==
  ASSUME PublisherInv, NEW r \in Replicas, Load(r)
  PROVE  PublisherInv'
<1>0. FenceInv'  BY LoadFence DEF PublisherInv
<1>1. Global'  BY GlobalFrame DEF PublisherInv, Load, Quiet, volume
<1>2. pc'[r] = (IF journal = None THEN "plan" ELSE "recover") /\ UNCHANGED <<journal, durable>>
  BY DEF PublisherInv, FenceInv, TypeOK, Load, Goto, Quiet, volume
<1>3. pass'[r].base = durable /\ pass'[r].fresh
  BY DEF PublisherInv, FenceInv, TypeOK, Load, NoPass
<1>4. At(r)'  BY <1>2, <1>3 DEF At, Unjournalled, Uploading
<1> QED  BY <1>0, <1>1, <1>4, HolderRecord DEF Load, Goto

\* Deciding whether the journalled generation was uploaded keeps the
\* agreement of the records.
LEMMA RecoverRecord ==
  ASSUME PublisherInv, NEW r \in Replicas, Recover(r)
  PROVE  PublisherInv'
<1>0. FenceInv'  BY RecoverFence DEF PublisherInv
<1>1. journal \in Journal /\ journal # None
  BY DEF PublisherInv, FenceInv, Established, TypeOK, Recover
<1>2. /\ pass[r].fresh /\ pass[r].base = durable
      /\ UNCHANGED <<pass, local, journal, store, durable, anchor, inflight, backup>>
  BY DEF PublisherInv, At, Recover, InPass, Points
<1>3. Global'
  <2>1. MarkerHonest'
    BY SMT, <1>1, <1>2, NaturalFields DEF PublisherInv, Global, MarkerHonest, JournalHonest, Recover
  <2> QED  BY <1>2, <2>1 DEF PublisherInv, Global, Matches, Pending, JournalHonest
<1>4. CASE store.version = journal.marker.version
  <2>1. Pending  BY <1>1, <1>4 DEF PublisherInv, Global, JournalHonest, Pending
  <2>2. CASE journal.state # durable
    <3>1. pc'[r] = "adopt"
      BY <1>2, <1>4, <2>2 DEF PublisherInv, FenceInv, TypeOK, Recover, Goto
    <3>2. At(r)'  BY <1>2, <2>1, <3>1 DEF At, Unjournalled, Uploading, Pending
    <3> QED  BY <1>0, <1>3, <3>2, HolderRecord DEF Recover, Goto
  <2>3. CASE journal.state = durable
    <3>1. pc'[r] = "settle"
      BY <1>2, <1>4, <2>3 DEF PublisherInv, FenceInv, TypeOK, Recover, Goto
    <3>2. Matches  BY SMT, <1>1, <2>1, <2>3 DEF Matches, Pending, Journal, PublisherInv, Global, JournalHonest
    <3>3. At(r)'  BY <1>2, <3>1, <3>2 DEF At, Unjournalled, Uploading, Matches
    <3> QED  BY <1>0, <1>3, <3>3, HolderRecord DEF Recover, Goto
  <2> QED  BY <2>2, <2>3
<1>5. CASE store.version # journal.marker.version
  <2>1. pc'[r] = "settle"
    BY <1>2, <1>5 DEF PublisherInv, FenceInv, TypeOK, Recover, Goto
  <2>2. Matches  BY <1>5 DEF PublisherInv, Global, Pending
  <2>3. At(r)'  BY <1>2, <2>1, <2>2 DEF At, Unjournalled, Uploading, Matches
  <2> QED  BY <1>0, <1>3, <2>3, HolderRecord DEF Recover, Goto
<1> QED  BY <1>4, <1>5

\* The effect of a record on the pass that makes it.
LEMMA StoreAdmittedEffect ==
  ASSUME TypeOK, NEW r \in Replicas, NEW state \in States, StoreAdmitted(r, state)
  PROVE  /\ durable' = state
         /\ pass'[r].base = state /\ pass'[r].fresh = pass[r].fresh
         /\ pass'[r].planned = pass[r].planned
         /\ UNCHANGED <<local, marker, journal, backup, store, anchor, inflight>>
<1>1. pass[r] \in Pass  BY DEF TypeOK
<1>2. pass'[r] = [pass[r] EXCEPT !.base = state]  BY DEF StoreAdmitted
<1> QED  BY <1>1, <1>2 DEF StoreAdmitted, volume, Pass

\* Recording a journalled state keeps the agreement of the records.
LEMMA AdoptRecord ==
  ASSUME PublisherInv, NEW r \in Replicas, Adopt(r)
  PROVE  PublisherInv'
<1>0. FenceInv'  BY AdoptFence DEF PublisherInv
<1>1. journal \in Journal /\ journal # None /\ TypeOK
  BY DEF PublisherInv, FenceInv, Established, TypeOK, Adopt
<1>2. pass[r].fresh /\ Pending
  BY DEF PublisherInv, At, Adopt, InPass, Points
<1>3. journal.state \in States  BY <1>1 DEF Journal
<1>4. /\ durable' = journal.state /\ pass'[r].base = durable' /\ pass'[r].fresh
      /\ UNCHANGED <<local, marker, journal, backup, store, anchor, inflight>>
  BY <1>1, <1>2, <1>3, StoreAdmittedEffect DEF Adopt
<1>5. Matches'
  BY SMT, <1>2, <1>3, <1>4 DEF Matches, Pending, PublisherInv, Global, JournalHonest
<1>6. Global'
  BY <1>4, <1>5 DEF PublisherInv, Global, JournalHonest, MarkerHonest
<1>7. pc' = [pc EXCEPT ![r] = "settle"]  BY <1>2 DEF Adopt, Goto
<1>8. pc'[r] = "settle"  BY <1>1, <1>7 DEF TypeOK
<1>9. At(r)'  BY <1>4, <1>5, <1>8 DEF At, Unjournalled, Uploading
<1> QED  BY <1>0, <1>6, <1>7, <1>9, HolderRecord DEF Adopt

\* Removing the journal keeps the agreement of the records.
LEMMA SettleRecord ==
  ASSUME PublisherInv, NEW r \in Replicas, Settle(r)
  PROVE  PublisherInv'
<1>0. FenceInv'  BY SettleFence DEF PublisherInv
<1>1. /\ Matches /\ pass[r].fresh /\ pass[r].base = durable
      /\ pc[r] = "unjournal" => local.root <= store.root
  BY DEF PublisherInv, At, Settle, InPass, Points
<1>2. /\ journal' = None
      /\ UNCHANGED <<pass, local, marker, backup, store, durable, anchor, inflight>>
  BY DEF Settle
<1>3. Matches'  BY <1>1, <1>2 DEF Matches
<1>4. Global'  BY <1>2, <1>3 DEF PublisherInv, Global, JournalHonest, MarkerHonest
<1>5. pc'[r] = (IF pc[r] = "settle" THEN "plan" ELSE "project")
  BY DEF PublisherInv, FenceInv, TypeOK, Settle, Goto
<1>6. At(r)'  BY <1>1, <1>2, <1>5 DEF At, Unjournalled, Uploading, Settle
<1> QED  BY <1>0, <1>4, <1>6, HolderRecord DEF Settle, Goto

\* Planning, or refusing to plan without a baseline keeps the agreement of
\* the records.
LEMMA PlanRecord ==
  ASSUME PublisherInv, NEW r \in Replicas, Plan(r)
  PROVE  PublisherInv'
<1>0. FenceInv'  BY PlanFence DEF PublisherInv
<1>1. UNCHANGED <<inflight, backup, local, store, anchor, durable, journal, marker>>
  BY DEF Plan, Quiet, volume
<1>2. CASE pass[r].base = None /\ store.version > 0
  BY <1>0, <1>1, <1>2, EndPassRecord DEF Plan, EndPass, Goto
<1>3. CASE ~(pass[r].base = None /\ store.version > 0)
  <2>1. Global'  BY <1>1, GlobalFrame DEF PublisherInv
  <2>2. /\ pc' = [pc EXCEPT ![r] = "compare"] /\ pc'[r] = "compare"
        /\ pass'[r].base = pass[r].base /\ pass'[r].fresh = pass[r].fresh
    BY SMT, <1>3 DEF PublisherInv, FenceInv, TypeOK, Plan, Goto, Pass
  <2>3. pass[r].fresh /\ pass[r].base = durable /\ journal = None
    BY DEF PublisherInv, At, Plan, InPass, Points, Unjournalled
  <2>4. At(r)'  BY <1>1, <2>2, <2>3 DEF At, Unjournalled, Uploading
  <2> QED  BY <1>0, <2>1, <2>2, <2>4, HolderRecord DEF Plan
<1> QED  BY <1>2, <1>3

\* A pass that need not publish is at a generation that is served.
LEMMA UnchangedIsServed ==
  ASSUME PublisherInv, NEW r \in Replicas, pc[r] \in Planned, ContentUnchanged(r)
  PROVE  store.version > 0 /\ store.plan = pass[r].planned.plan /\ local.root <= store.root
<1>1. marker = PublicationMarker(r) /\ marker # None /\ local.version > 0
  BY MarkerType, PublisherAssumption DEF ContentUnchanged, PublisherInv
<1>2. marker.version = local.version /\ marker.root = local.root
      /\ marker.plan = pass[r].planned.plan
  BY <1>1 DEF PublicationMarker
<1>3. marker.version = store.version
  BY SMT, <1>1, <1>2, NaturalFields DEF PublisherInv, Global, MarkerHonest
<1> QED  BY <1>1, <1>2, <1>3 DEF PublisherInv, Global, MarkerHonest

\* Comparing the marker and the expiry dates keeps the agreement of the
\* records.
LEMMA CompareRecord ==
  ASSUME PublisherInv, NEW r \in Replicas, Compare(r)
  PROVE  PublisherInv'
<1>0. FenceInv'  BY CompareFence DEF PublisherInv
<1>1. UNCHANGED <<inflight, backup, local, store, anchor, durable, journal, marker>>
  BY DEF Compare, volume
<1>2. CASE Partial
  BY <1>0, <1>1, <1>2, EndPassRecord DEF Compare, EndPass, Goto
<1>3. CASE ~Partial
  <2>1. Global'  BY <1>1, GlobalFrame DEF PublisherInv
  <2>2. PICK expiring \in Expiring :
           /\ pass' = [pass EXCEPT ![r].renewals = expiring]
           /\ pc' = [pc EXCEPT ![r] =
                        IF PublicationRequired(r, expiring) THEN "refuse" ELSE "record"]
    BY <1>3 DEF Compare, Goto
  <2>3. /\ pass'[r].base = pass[r].base /\ pass'[r].fresh = pass[r].fresh
        /\ pass'[r].planned = pass[r].planned
    BY <2>2 DEF PublisherInv, FenceInv, TypeOK, Pass
  <2>4. pass[r].fresh /\ pass[r].base = durable /\ journal = None
    BY DEF PublisherInv, At, Compare, InPass, Points, Unjournalled
  <2>5. CASE PublicationRequired(r, expiring)
    <3>1. pc'[r] = "refuse"  BY <2>2, <2>5 DEF PublisherInv, FenceInv, TypeOK
    <3>2. At(r)'  BY <1>1, <2>3, <2>4, <3>1 DEF At, Unjournalled, Uploading
    <3> QED  BY <1>0, <2>1, <2>2, <3>2, HolderRecord DEF Compare
  <2>6. CASE ~PublicationRequired(r, expiring)
    <3>1. pc'[r] = "record"  BY <2>2, <2>6 DEF PublisherInv, FenceInv, TypeOK
    <3>2. store.version > 0 /\ store.plan = pass[r].planned.plan /\ local.root <= store.root
      BY <2>6, UnchangedIsServed DEF PublicationRequired, Compare, Planned
    <3>3. At(r)'  BY <1>1, <2>3, <2>4, <3>1, <3>2 DEF At, Unjournalled, Uploading
    <3> QED  BY <1>0, <2>1, <2>2, <3>3, HolderRecord DEF Compare
  <2> QED  BY <2>5, <2>6
<1> QED  BY <1>2, <1>3

\* Asking the rollback guard keeps the agreement of the records.
LEMMA RefuseRecord ==
  ASSUME PublisherInv, NEW r \in Replicas, Refuse(r)
  PROVE  PublisherInv'
<1>0. FenceInv'  BY RefuseFence DEF PublisherInv
<1>1. UNCHANGED <<inflight, backup, local, store, anchor, durable, journal, marker>>
  BY DEF Refuse, Quiet, volume
<1>2. CASE RollbackRefused
  BY <1>0, <1>1, <1>2, EndPassRecord DEF Refuse, EndPass, Goto
<1>3. CASE ~RollbackRefused
  <2>1. Global'  BY <1>1, GlobalFrame DEF PublisherInv
  <2>2. /\ UNCHANGED pass
        /\ pc' = [pc EXCEPT ![r] = IF local.root = 0 THEN "init"
                                   ELSE IF "root" \in pass[r].renewals THEN "renew" ELSE "sign"]
    BY <1>3 DEF Refuse, Goto
  <2>3. pc'[r] = IF local.root = 0 THEN "init"
                 ELSE IF "root" \in pass[r].renewals THEN "renew" ELSE "sign"
    BY <2>2 DEF PublisherInv, FenceInv, TypeOK
  <2>4. /\ pass[r].fresh /\ pass[r].base = durable /\ journal = None
        /\ local.root = 0 => local.version = 0
    BY DEF PublisherInv, Global, At, Refuse, InPass, Points, Unjournalled
  <2>5. local.root \in Nat  BY NaturalFields DEF PublisherInv
  <2>6. At(r)'  BY SMT, <1>1, <2>2, <2>3, <2>4, <2>5 DEF At, Unjournalled, Uploading
  <2> QED  BY <1>0, <2>1, <2>2, <2>6, HolderRecord DEF Refuse
<1> QED  BY <1>2, <1>3

\* While there is no journal, metadata that only grows disturbs no record.
LEMMA LocalGrows ==
  ASSUME PublisherInv, journal = None, local' \in Local,
         local'.version >= local.version, local'.root >= local.root, local'.root > 0,
         UNCHANGED <<inflight, backup, store, anchor, durable, journal, marker>>
  PROVE  Global'
<1>1. /\ store.version <= local'.version /\ store.root <= local'.root
      /\ local'.root = 0 => local'.version = 0
  BY SMT, NaturalFields DEF PublisherInv, Global, Local
<1> QED  BY <1>1 DEF PublisherInv, Global, Matches, Pending, JournalHonest, MarkerHonest

\* Initializing the repository keeps the agreement of the records.
LEMMA InitRepositoryRecord ==
  ASSUME PublisherInv, NEW r \in Replicas, InitRepository(r)
  PROVE  PublisherInv'
<1>0. FenceInv' /\ local' \in Local  BY InitRepositoryFence DEF PublisherInv, FenceInv, TypeOK
<1>1. /\ pass[r].fresh /\ pass[r].base = durable /\ journal = None /\ local.version = 0
      /\ UNCHANGED <<pass, marker, journal, backup, store, durable, anchor, inflight>>
  BY DEF PublisherInv, At, InitRepository, InPass, Points, Unjournalled
<1>2. local \in Local  BY DEF PublisherInv, FenceInv, TypeOK
<1>3. /\ local.root = 0 => local'.root = 1 /\ local'.version = 0
      /\ local.root # 0 => local'.root = local.root /\ local'.version = 1
  BY <1>1, <1>2 DEF InitRepository, Local
<1>4. Global'  BY SMT, <1>0, <1>1, <1>2, <1>3, LocalGrows DEF Local
<1>5. pc' = [pc EXCEPT ![r] = IF local.root = 0 THEN "init" ELSE "sign"]
  BY DEF InitRepository, Goto
<1>6. pc'[r] = IF local.root = 0 THEN "init" ELSE "sign"
  BY <1>5 DEF PublisherInv, FenceInv, TypeOK
<1>7. At(r)'  BY SMT, <1>1, <1>2, <1>3, <1>6 DEF At, Unjournalled, Uploading, Local
<1> QED  BY <1>0, <1>4, <1>5, <1>7, HolderRecord DEF InitRepository

\* Renewing the root, or failing to keeps the agreement of the records.
LEMMA RenewRootRecord ==
  ASSUME PublisherInv, NEW r \in Replicas, RenewRoot(r)
  PROVE  PublisherInv'
<1>0. FenceInv' /\ local' \in Local /\ local \in Local
  BY RenewRootFence DEF PublisherInv, FenceInv, TypeOK
<1>1. /\ pass[r].fresh /\ pass[r].base = durable /\ journal = None
      /\ "root" \in pass[r].renewals
      /\ UNCHANGED <<marker, journal, backup, store, durable, anchor, inflight>>
  BY DEF PublisherInv, At, RenewRoot, InPass, Points, Unjournalled
<1>2. pc' = [pc EXCEPT ![r] = IF PublicationRequired(r, pass'[r].renewals)
                              THEN "sign" ELSE "record"]
  BY DEF RenewRoot, Goto
<1>3. pc'[r] = IF PublicationRequired(r, pass'[r].renewals) THEN "sign" ELSE "record"
  BY <1>2 DEF PublisherInv, FenceInv, TypeOK
<1>4. CASE local' = [local EXCEPT !.root = @ + 1] /\ UNCHANGED pass
  <2>1. local'.root = local.root + 1 /\ local'.version = local.version
    BY <1>0, <1>4 DEF Local
  <2>2. Global'  BY SMT, <1>0, <1>1, <2>1, LocalGrows DEF Local
  <2>3. pc'[r] = "sign"  BY <1>1, <1>3, <1>4 DEF PublicationRequired
  <2>4. At(r)'  BY SMT, <1>0, <1>1, <1>4, <2>1, <2>3 DEF At, Unjournalled, Uploading, Local
  <2> QED  BY <1>0, <1>2, <2>2, <2>4, HolderRecord DEF RenewRoot
<1>5. CASE UNCHANGED local /\ pass' = [pass EXCEPT ![r].renewals = pass[r].renewals \ {"root"}]
  <2>1. Global'  BY <1>1, <1>5, GlobalFrame DEF PublisherInv
  <2>2. /\ pass'[r].base = pass[r].base /\ pass'[r].fresh = pass[r].fresh
        /\ pass'[r].planned = pass[r].planned
    BY <1>5 DEF PublisherInv, FenceInv, TypeOK, Pass
  <2>3. local.root > 0  BY DEF PublisherInv, At, RenewRoot
  <2>4. ~PublicationRequired(r, pass'[r].renewals) =>
           store.version > 0 /\ store.plan = pass[r].planned.plan /\ local.root <= store.root
    BY UnchangedIsServed DEF PublicationRequired, RenewRoot, Planned
  <2>5. At(r)'
    BY <1>1, <1>3, <1>5, <2>2, <2>3, <2>4 DEF At, Unjournalled, Uploading
  <2> QED  BY <1>0, <1>2, <2>1, <2>5, HolderRecord DEF RenewRoot
<1> QED  BY <1>4, <1>5 DEF RenewRoot

\* Signing the next generation keeps the agreement of the records.
LEMMA SignRecord ==
  ASSUME PublisherInv, NEW r \in Replicas, Sign(r)
  PROVE  PublisherInv'
<1>0. FenceInv' /\ local' \in Local /\ local \in Local
  BY SignFence DEF PublisherInv, FenceInv, TypeOK
<1>1. /\ pass[r].fresh /\ pass[r].base = durable /\ journal = None /\ local.root > 0
      /\ UNCHANGED <<pass, marker, journal, backup, store, durable, anchor, inflight>>
  BY DEF PublisherInv, At, Sign, InPass, Points, Unjournalled
<1>2. /\ local'.version = local.version + 1 /\ local'.root = local.root
      /\ local'.plan = pass[r].planned.plan
  BY <1>0 DEF Sign, Local
<1>3. Global'  BY SMT, <1>0, <1>1, <1>2, LocalGrows DEF Local
<1>4. pc'[r] = "journal"  BY DEF PublisherInv, FenceInv, TypeOK, Sign, Goto
<1>5. store.version < local'.version  BY SMT, <1>2, NaturalFields DEF PublisherInv, Global
<1>6. At(r)'  BY <1>1, <1>2, <1>4, <1>5 DEF At, Unjournalled, Uploading
<1> QED  BY <1>0, <1>3, <1>6, HolderRecord DEF Sign, Goto

\* Journalling, or giving up without the lease keeps the agreement of the
\* records.
LEMMA WriteJournalRecord ==
  ASSUME PublisherInv, NEW r \in Replicas, WriteJournal(r)
  PROVE  PublisherInv'
<1>0. FenceInv'  BY WriteJournalFence DEF PublisherInv
<1>1. UNCHANGED <<local, marker, backup, store, durable, anchor, inflight>>
  BY DEF WriteJournal
<1>2. CASE ~HoldsLease(r)
  BY <1>0, <1>1, <1>2, EndPassRecord DEF WriteJournal, EndPass, Goto
<1>3. CASE HoldsLease(r)
  <2>1. /\ pass[r].fresh /\ pass[r].base = durable /\ journal = None
        /\ store.version < local.version /\ local.plan = pass[r].planned.plan
    BY DEF PublisherInv, At, WriteJournal, InPass, Points, Unjournalled
  <2>2. /\ journal' = [marker |-> PublicationMarker(r), state |-> pass[r].planned]
        /\ pc' = [pc EXCEPT ![r] = "capture"] /\ UNCHANGED pass
    BY <1>3 DEF WriteJournal, Goto
  <2>3. /\ journal'.marker.version = local.version /\ journal'.marker.root = local.root
        /\ PublicationMarker(r)' = PublicationMarker(r)
    BY <1>1, <2>2 DEF PublicationMarker
  <2>4. Matches  BY <2>1 DEF PublisherInv, Global, Pending
  <2>5. Matches'  BY <1>1, <2>4 DEF Matches
  <2>6. JournalHonest'
    BY SMT, <1>1, <2>1, <2>3, NaturalFields DEF JournalHonest, PublisherInv
  <2>7. Global'  BY <1>1, <2>5, <2>6 DEF PublisherInv, Global, MarkerHonest
  <2>8. pc'[r] = "capture"  BY <2>2 DEF PublisherInv, FenceInv, TypeOK
  <2>9. At(r)'  BY <1>1, <2>1, <2>2, <2>3, <2>5, <2>8 DEF At, Unjournalled, Uploading
  <2> QED  BY <1>0, <2>2, <2>7, <2>9, HolderRecord DEF WriteJournal
<1> QED  BY <1>2, <1>3

\* What a pass knows while it uploads.
LEMMA UploadFacts ==
  ASSUME PublisherInv, NEW r \in Replicas, pc[r] \in Uploading
  PROVE  /\ pass[r].fresh /\ pass[r].base = durable
         /\ journal = [marker |-> PublicationMarker(r), state |-> pass[r].planned]
         /\ local.plan = pass[r].planned.plan
         /\ Matches /\ store.version < local.version
  BY DEF PublisherInv, At, Uploading, InPass, Points

\* Capturing the versions the PUTs are conditional on keeps the agreement of
\* the records.
LEMMA CaptureRecord ==
  ASSUME PublisherInv, NEW r \in Replicas, Capture(r)
  PROVE  PublisherInv'
<1>0. FenceInv'  BY CaptureFence DEF PublisherInv
<1>1. UNCHANGED <<inflight, backup, local, store, anchor, durable, journal, marker>>
  BY DEF Capture, Quiet, volume
<1>2. CASE store.version >= local.version
  BY <1>0, <1>1, <1>2, EndPassRecord DEF Capture, EndPass, Goto
<1>3. CASE ~(store.version >= local.version)
  <2>1. Global'  BY <1>1, GlobalFrame DEF PublisherInv
  <2>2. /\ pass' = [pass EXCEPT ![r].seen = [root |-> store.root, version |-> store.version]]
        /\ pc' = [pc EXCEPT ![r] = "root"]
    BY <1>3 DEF Capture, Goto
  <2>3. /\ pass'[r].base = pass[r].base /\ pass'[r].fresh = pass[r].fresh
        /\ pass'[r].planned = pass[r].planned /\ pass'[r].seen.root = store.root
        /\ pc'[r] = "root"
    BY <2>2 DEF PublisherInv, FenceInv, TypeOK, Pass
  <2>4. PublicationMarker(r)' = PublicationMarker(r)
    BY <1>1, <2>3 DEF PublicationMarker
  <2>5. At(r)'
    BY <1>1, <2>3, <2>4, UploadFacts DEF At, Unjournalled, Uploading, Matches, Capture
  <2> QED  BY <1>0, <2>1, <2>2, <2>5, HolderRecord DEF Capture
<1> QED  BY <1>2, <1>3

\* The root is in the store before the timestamp that needs it.
LEMMA PutRootRecord ==
  ASSUME PublisherInv, NEW r \in Replicas, PutObject(r), pc[r] = "root"
  PROVE  PublisherInv'
<1>0. FenceInv' /\ store \in Local
  BY PutObjectFence DEF PublisherInv, FenceInv, TypeOK
<1>1. pass[r].seen.root = store.root  BY DEF PublisherInv, At
<1>2. Applies("root", pass[r].seen)  BY <1>1 DEF Applies
<1>3. /\ pc' = [pc EXCEPT ![r] = "timestamp"]
      /\ UNCHANGED <<pass, local, marker, journal, backup, durable, anchor, inflight>>
      /\ store' = IF SameRoot(r) THEN store ELSE Applied("root", local)
  BY <1>2 DEF PutObject, Goto, volume
<1>4. store'.root = local.root /\ store'.version = store.version /\ store'.plan = store.plan
  BY <1>0, <1>1, <1>3 DEF SameRoot, Applied, Local
<1>5. PublicationMarker(r)' = PublicationMarker(r)  BY <1>3 DEF PublicationMarker
<1>6. journal.marker.version = local.version /\ journal # None
  BY SMT, UploadFacts, PublisherAssumption, MarkerType
  DEF Uploading, PublicationMarker, PublisherInv, FenceInv, Established, Planned, Journal
<1>7. Matches'  BY <1>3, <1>4, UploadFacts DEF Matches, Uploading
<1>8. Global'
  <2>1. /\ store'.root <= local'.root /\ anchor' <= store'.root
        /\ store'.version <= local'.version
    BY SMT, <1>3, <1>4, NaturalFields DEF PublisherInv, Global
  <2>2. JournalHonest'
    BY SMT, <1>3, <1>4, <1>6, UploadFacts, NaturalFields
    DEF JournalHonest, PublisherInv, Global, Uploading
  <2>3. MarkerHonest'
    BY SMT, <1>3, <1>4, NaturalFields DEF MarkerHonest, PublisherInv, Global
  <2> QED  BY <1>3, <1>7, <2>1, <2>2, <2>3 DEF PublisherInv, Global
<1>9. pc'[r] = "timestamp"  BY <1>3 DEF PublisherInv, FenceInv, TypeOK
<1>10. At(r)'
  BY <1>3, <1>4, <1>5, <1>7, <1>9, UploadFacts DEF At, Unjournalled, Uploading
<1> QED  BY <1>0, <1>3, <1>8, <1>10, HolderRecord

\* The timestamp makes the journalled generation the served one.
LEMMA PutTimestampRecord ==
  ASSUME PublisherInv, NEW r \in Replicas, PutObject(r), pc[r] = "timestamp"
  PROVE  PublisherInv'
<1>0. FenceInv' /\ store \in Local /\ local \in Local
  BY PutObjectFence DEF PublisherInv, FenceInv, TypeOK
<1>1. UNCHANGED <<local, marker, journal, backup, durable, anchor, inflight>>
  BY DEF PutObject, volume
<1>2. ~SameRoot(r)  BY DEF SameRoot
<1>3. CASE ~Applies("timestamp", pass[r].seen)
  BY <1>0, <1>1, <1>2, <1>3, EndPassRecord DEF PutObject, EndPass, Goto
<1>4. CASE Applies("timestamp", pass[r].seen)
  <2>1. /\ pc' = [pc EXCEPT ![r] = "mark"] /\ UNCHANGED pass
        /\ store' = Applied("timestamp", local)
    BY <1>2, <1>4 DEF PutObject, Goto
  <2>2. store'.version = local.version /\ store'.plan = local.plan /\ store'.root = store.root
    BY <1>0, <2>1 DEF Applied, Local
  <2>3. PublicationMarker(r)' = PublicationMarker(r)  BY <1>1, <2>1 DEF PublicationMarker
  <2>4. /\ journal # None /\ journal.marker = PublicationMarker(r)
        /\ journal.state = pass[r].planned
    BY SMT, UploadFacts, PublisherAssumption, MarkerType
    DEF Uploading, PublisherInv, FenceInv, Established, Planned, Journal
  <2>5. /\ journal.marker.version = local.version /\ journal.marker.root = local.root
        /\ journal.marker.plan = pass[r].planned.plan
    BY SMT, <2>4 DEF PublicationMarker
  <2>6. store.root = local.root  BY DEF PublisherInv, At
  <2>7. Pending'  BY <1>1, <2>2, <2>4, <2>5, UploadFacts DEF Pending, Uploading
  <2>8. Global'
    <3>1. JournalHonest'
      BY SMT, <1>1, <2>2, <2>4, <2>5, <2>6, UploadFacts, NaturalFields
      DEF JournalHonest, PublisherInv, Uploading
    <3>2. MarkerHonest'
      BY SMT, <1>1, <2>2, UploadFacts, NaturalFields
      DEF MarkerHonest, PublisherInv, Global, Uploading
    <3>3. store'.version <= local'.version /\ store'.root <= local'.root /\ anchor' <= store'.root
      BY SMT, <1>1, <2>2, NaturalFields DEF PublisherInv, Global
    <3> QED  BY <1>1, <2>7, <3>1, <3>2, <3>3 DEF PublisherInv, Global
  <2>9. pc'[r] = "mark"  BY <2>1 DEF PublisherInv, FenceInv, TypeOK
  <2>10. At(r)'
    BY <1>1, <2>1, <2>2, <2>3, <2>6, <2>7, <2>9, UploadFacts DEF At, Unjournalled, Uploading
  <2> QED  BY <1>0, <2>1, <2>8, <2>10, HolderRecord
<1> QED  BY <1>3, <1>4

\* Writing the marker keeps the agreement of the records.
LEMMA WriteMarkerRecord ==
  ASSUME PublisherInv, NEW r \in Replicas, WriteMarker(r)
  PROVE  PublisherInv'
<1>0. FenceInv'  BY WriteMarkerFence DEF PublisherInv
<1>1. /\ pass[r].fresh /\ pass[r].base = durable
      /\ journal = [marker |-> PublicationMarker(r), state |-> pass[r].planned]
      /\ Pending /\ store.version = local.version /\ store.root = local.root
  BY DEF PublisherInv, At, WriteMarker, InPass, Points
<1>2. /\ marker' = PublicationMarker(r) /\ pc' = [pc EXCEPT ![r] = "record"]
      /\ UNCHANGED <<pass, local, journal, backup, store, durable, anchor, inflight>>
  BY DEF WriteMarker, Goto
<1>3. store.plan = pass[r].planned.plan  BY <1>1 DEF Pending
<1>4. /\ marker'.version = store.version /\ marker'.plan = store.plan
      /\ marker'.root = store.root
  BY <1>1, <1>2, <1>3 DEF PublicationMarker
<1>5. MarkerHonest'  BY SMT, <1>2, <1>4, NaturalFields DEF MarkerHonest, PublisherInv
<1>6. Global'
  BY <1>2, <1>5 DEF PublisherInv, Global, Matches, Pending, JournalHonest
<1>7. store.version > 0  BY <1>1 DEF PublisherInv, Global, Pending, JournalHonest
<1>8. pc'[r] = "record"  BY <1>2 DEF PublisherInv, FenceInv, TypeOK
<1>9. local.root <= store.root  BY SMT, <1>1, NaturalFields DEF PublisherInv
<1>10. At(r)'  BY <1>1, <1>2, <1>3, <1>7, <1>8, <1>9 DEF At, Unjournalled, Uploading
<1> QED  BY <1>0, <1>2, <1>6, <1>10, HolderRecord DEF WriteMarker

\* What a pass knows when it records.
LEMMA RecordFacts ==
  ASSUME PublisherInv, NEW r \in Replicas, Record(r)
  PROVE  /\ pass[r].fresh /\ pass[r].base = durable /\ pass[r].planned \in States
         /\ store.version > 0 /\ store.plan = pass[r].planned.plan /\ local.root <= store.root
  BY DEF PublisherInv, FenceInv, Established, Planned, At, Record, InPass, Points

\* Recording the planned state keeps the agreement of the records.
LEMMA RecordRecord ==
  ASSUME PublisherInv, NEW r \in Replicas, Record(r)
  PROVE  PublisherInv'
<1>0. FenceInv' /\ TypeOK  BY RecordFence DEF PublisherInv, FenceInv
<1>1. pc' = [pc EXCEPT ![r] = "unjournal"]  BY RecordFacts DEF Record, Goto
<1>2. pc'[r] = "unjournal"  BY <1>0, <1>1 DEF TypeOK
<1>3. /\ durable' = pass[r].planned
      /\ pass'[r].base = durable' /\ pass'[r].fresh
      /\ UNCHANGED <<local, marker, journal, backup, store, anchor, inflight>>
  <2>1. CASE pass[r].planned = pass[r].base
    BY <2>1, RecordFacts DEF Record, Quiet, volume
  <2>2. CASE pass[r].planned # pass[r].base
    BY <1>0, <2>2, RecordFacts, StoreAdmittedEffect DEF Record
  <2> QED  BY <2>1, <2>2
<1>4. Matches'  BY SMT, <1>3, RecordFacts DEF Matches
<1>5. Global'  BY <1>3, <1>4 DEF PublisherInv, Global, JournalHonest, MarkerHonest
<1>6. At(r)'  BY <1>2, <1>3, <1>4, RecordFacts DEF At, Unjournalled, Uploading
<1> QED  BY <1>0, <1>1, <1>5, <1>6, HolderRecord DEF Record

\* Projecting the trust anchor keeps the agreement of the records.
LEMMA ProjectRecord ==
  ASSUME PublisherInv, NEW r \in Replicas, Project(r)
  PROVE  PublisherInv'
<1>0. FenceInv'  BY ProjectFence DEF PublisherInv
<1>1. local.root <= store.root  BY DEF PublisherInv, At, Project
<1>2. Global'
  BY <1>1 DEF PublisherInv, Global, Project, volume, Matches, Pending, JournalHonest, MarkerHonest
<1>3. pc' = [pc EXCEPT ![r] = "top"]  BY DEF Project, EndPass, Goto
<1>4. At(r)'  BY <1>3, AtRest DEF PublisherInv, FenceInv, TypeOK
<1> QED  BY <1>0, <1>2, <1>3, <1>4, HolderRecord DEF Project

\* An interrupted pass leaves nothing in flight.
LEMMA NothingLeftBehind ==
  ASSUME ~LatePuts, PublisherInv, NEW r \in Replicas, LeaveBehind(r)
  PROVE  inflight' = inflight
  BY DEF LeaveBehind, Outstanding

\* The loop, its watchdog, failed calls and deaths write no record.
LEMMA LoopRecord ==
  ASSUME ~LatePuts, PublisherInv, NEW r \in Replicas, LoopStep(r) \/ CallFails(r) \/ Die(r)
  PROVE  PublisherInv'
<1>0. FenceInv'  BY LoopFence, FaultFence DEF PublisherInv
<1>1. CASE Lead(r)
  <2>1. Global'  BY <1>1, GlobalFrame DEF PublisherInv, Lead, volume
  <2>2. pc'[r] \in {"load", "follow"} /\ \A q \in Replicas : q # r => pc'[q] = pc[q]
    BY <1>1 DEF PublisherInv, FenceInv, TypeOK, Lead, Goto
  <2>3. At(r)'  BY <2>2 DEF At, Unjournalled, Uploading, InPass
  <2>4. UNCHANGED <<pass, local, store, durable, journal>>  BY <1>1 DEF Lead, volume
  <2>5. ASSUME NEW q \in Replicas, q # r  PROVE At(q)'
    <3>1. pc'[q] = pc[q] /\ At(q)  BY <2>2, <2>5 DEF PublisherInv
    <3> QED  BY <2>4, <3>1, AtFrame
  <2> QED  BY <1>0, <2>1, <2>3, <2>5 DEF PublisherInv
<1>2. CASE StepDown(r)
  BY <1>0, <1>2, NothingLeftBehind, EndPassRecord DEF StepDown, ExitProcess, Goto, volume
<1>3. CASE Watchdog(r) /\ LeaseGranted(r)
  <2>1. UNCHANGED <<pc, pass, inflight, local, marker, journal, backup, store, durable, anchor>>
    BY <1>3 DEF Watchdog, volume
  <2>2. Global'  BY <2>1, GlobalFrame DEF PublisherInv
  <2>3. \A q \in Replicas : At(q)'  BY <2>1, AtFrame DEF PublisherInv
  <2> QED  BY <1>0, <2>2, <2>3 DEF PublisherInv
<1>4. CASE Watchdog(r) /\ ~LeaseGranted(r)
  BY <1>0, <1>4, NothingLeftBehind, EndPassRecord
  DEF Watchdog, ExitProcess, Goto, volume, InPass
<1>5. CASE CallFails(r)
  BY <1>0, <1>5, NothingLeftBehind, EndPassRecord DEF CallFails, EndPass, Goto, volume, InPass
<1>6. CASE Die(r)
  BY <1>0, <1>6, NothingLeftBehind, EndPassRecord DEF Die, ExitProcess, Goto, volume
<1> QED  BY <1>1, <1>2, <1>3, <1>4, <1>5, <1>6 DEF LoopStep

\* Edits and lease expiries write no record; the other faults do not happen.
LEMMA EnvironmentRecord ==
  ASSUME ~Backups, PublisherInv,
         Edit \/ LeaseExpires \/ (\E put \in inflight : Land(put)) \/ TakeBackup \/ RestoreVolume
         \/ UNCHANGED vars
  PROVE  PublisherInv'
<1>0. FenceInv'  BY StepFence DEF PublisherInv, Next
<1>1. Edit \/ LeaseExpires \/ UNCHANGED vars
  BY DEF PublisherInv, Global, TakeBackup, RestoreVolume
<1>2. UNCHANGED <<pc, pass, inflight, local, marker, journal, backup, store, durable, anchor>>
  BY <1>1 DEF Edit, LeaseExpires, volume, vars
<1>3. Global'  BY <1>2, GlobalFrame DEF PublisherInv
<1>4. \A q \in Replicas : At(q)'  BY <1>2, AtFrame DEF PublisherInv
<1> QED  BY <1>0, <1>3, <1>4 DEF PublisherInv

\* Every step keeps the agreement of the records.
LEMMA StepRecord ==
  ASSUME ~LatePuts, ~Backups
  PROVE  PublisherInv /\ [Next]_vars => PublisherInv'
<1> SUFFICES ASSUME PublisherInv, [Next]_vars PROVE PublisherInv'  OBVIOUS
<1>1. ASSUME NEW r \in Replicas, PassStep(r) PROVE PublisherInv'
  <2>1. ASSUME PutObject(r) PROVE PublisherInv'
    BY <2>1, PutRootRecord, PutTimestampRecord DEF PutObject
  <2> QED
    BY <1>1, <2>1, LoadRecord, RecoverRecord, AdoptRecord, SettleRecord, PlanRecord,
       CompareRecord, RefuseRecord, InitRepositoryRecord, RenewRootRecord, SignRecord,
       WriteJournalRecord, CaptureRecord, WriteMarkerRecord, RecordRecord, ProjectRecord
    DEF PassStep
<1>2. ASSUME NEW r \in Replicas, LoopStep(r) \/ CallFails(r) \/ Die(r) PROVE PublisherInv'
  BY <1>2, LoopRecord
<1> QED  BY <1>1, <1>2, EnvironmentRecord DEF Next

\* The invariant implies what the runs check.
LEMMA InvImplies ==
  ASSUME PublisherInv
  PROVE  ServedIsAccountedFor /\ PlansFromServed /\ AnchorServed
<1>1. ServedIsAccountedFor
  BY SMT, PublisherAssumption
  DEF PublisherInv, Global, Matches, Pending, ServedIsAccountedFor
<1>2. AnchorServed  BY DEF PublisherInv, Global, AnchorServed
<1>3. ASSUME NEW r \in Replicas, pc[r] \in Unjournalled \cup Uploading
      PROVE  Matches /\ pass[r].base = durable
  BY <1>3 DEF PublisherInv, At, Global, Pending, Unjournalled, Uploading, InPass, Points
<1>4. PlansFromServed
  BY <1>3, PublisherAssumption DEF PlansFromServed, Matches, Unjournalled, Uploading
<1> QED  BY <1>1, <1>2, <1>4

\* The records agree throughout.
LEMMA Agreement ==
  ASSUME ~LatePuts, ~Backups
  PROVE  Spec => []PublisherInv
<1>1. Init => PublisherInv  BY InitFence, InitRecord DEF PublisherInv
<1> QED  BY <1>1, StepRecord, PTL DEF Spec

\* Whatever call a pass dies at (PublicationTransaction::commit), the generation
\* the store serves is recorded in the cluster or is the one the journal holds.
THEOREM ServedAccounted ==
  ASSUME ~LatePuts, ~Backups
  PROVE  Spec => []ServedIsAccountedFor
<1>1. PublisherInv => ServedIsAccountedFor  BY InvImplies
<1> QED  BY <1>1, Agreement, PTL

\* No pass (reconcile_once after recover_pending_publication) plans from a
\* state other than that of the served generation.
THEOREM PassesPlanFromServed ==
  ASSUME ~LatePuts, ~Backups
  PROVE  Spec => []PlansFromServed
<1>1. PublisherInv => PlansFromServed  BY InvImplies
<1> QED  BY <1>1, Agreement, PTL

\* The anchor a pass projects (local_routing_root_sha256) is a root that is
\* already served.
THEOREM AnchorIsServed ==
  ASSUME ~LatePuts, ~Backups
  PROVE  Spec => []AnchorServed
<1>1. PublisherInv => AnchorServed  BY InvImplies
<1> QED  BY <1>1, Agreement, PTL

\* store_admitted_state is only ever called with a state of the generation that
\* is being served.
THEOREM RecordsAreServed ==
  ASSUME ~LatePuts, ~Backups
  PROVE  Spec => RecordsOnlyServed
<1>1. ASSUME PublisherInv, [Next]_vars
      PROVE  [durable' # None /\ durable'.plan = store.plan]_durable
  <2> SUFFICES ASSUME durable' # durable PROVE durable' # None /\ durable'.plan = store.plan
    OBVIOUS
  <2>1. PICK r \in Replicas : Adopt(r) \/ Record(r)
    <3>1. ASSUME NEW r \in Replicas, LoopStep(r) \/ CallFails(r) \/ Die(r) PROVE FALSE
      BY <3>1 DEF LoopStep, Lead, StepDown, Watchdog, CallFails, Die
    <3>2. ASSUME NEW r \in Replicas, PassStep(r) PROVE Adopt(r) \/ Record(r)
      BY <3>2 DEF PassStep, Load, Recover, Settle, Plan, Compare, Refuse, InitRepository,
         RenewRoot, Sign, WriteJournal, Capture, PutObject, WriteMarker, Project, Quiet
    <3>3. /\ ~Edit /\ ~LeaseExpires /\ ~TakeBackup /\ ~RestoreVolume /\ ~UNCHANGED vars
          /\ ~\E put \in inflight : Land(put)
      BY DEF Edit, LeaseExpires, TakeBackup, RestoreVolume, Land, vars
    <3> QED  BY <1>1, <3>1, <3>2, <3>3 DEF Next
  <2>2. CASE Adopt(r)
    <3>1. journal.state \in States /\ Pending /\ TypeOK
      BY <1>1, <2>2 DEF PublisherInv, FenceInv, Established, TypeOK, Adopt, Journal, At
    <3>2. durable' = journal.state
      BY <2>2, <3>1 DEF Adopt, StoreAdmitted, EndPass, Quiet
    <3> QED  BY <3>1, <3>2, PublisherAssumption DEF Pending
  <2>3. CASE Record(r)
    <3>1. pass[r].planned \in States /\ store.plan = pass[r].planned.plan
      BY <1>1, <2>3, RecordFacts
    <3>2. durable' = pass[r].planned
      BY <2>3 DEF Record, StoreAdmitted, EndPass, Quiet
    <3> QED  BY <3>1, <3>2, PublisherAssumption
  <2> QED  BY <2>1, <2>2, <2>3
<1> QED  BY <1>1, Agreement, PTL DEF Spec, RecordsOnlyServed
==============================================================================
