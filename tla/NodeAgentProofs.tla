--------------------------- MODULE NodeAgentProofs ---------------------------
(***************************************************************************)
(* First what the durable store guarantees, for every set of packages,     *)
(* payloads, lineages and tokens and for every sequence of calls by its    *)
(* clients.  Then that the agent implements the store under every fault:   *)
(* all it does to durable state is a sequence of authorized store          *)
(* operations, so what the store guarantees holds of the running agent.    *)
(*                                                                         *)
(* Last, the agent's own protocol over that store.  Crashes, reboots,      *)
(* inconclusive hooks, torn confirmations and a drifting pointer are all   *)
(* there; three faults are not where the theorem says so (Calm): under     *)
(* each of them some of what is proved is false.                           *)
(***************************************************************************)
EXTENDS NodeAgent, TLAPS

\* Nearly all of it is first-order; the leaves about arithmetic or records name SMT.
USE Zenon

\* The four invariants are inductive together once a proven installed head is
\* known to be in the history of heads.
StoreInv ==
    /\ StoreTypeOK
    /\ JournalsExclusive
    /\ VerdictKept
    /\ JournalBracketsHead
    /\ RollbackTargetWasHead
    /\ installed # None /\ installed.proven => installed.unit \in heads

\* A same-id rewrite keeps the attempt's identity and never retracts a verdict.
LEMMA ReplacementKeepsIdentity ==
    ASSUME NEW t \in Transactions, NEW next \in Transactions,
           PermitsReplacement(t, next)
    PROVE  /\ next.prev = t.prev
           /\ next.cand = t.cand
           /\ t.reject => next.reject
  BY DEF PermitsReplacement, At, WithHealthFailure, Transactions

\* Every store operation preserves the types of the durable records.
LEMMA StoreTypePreserved == StoreTypeOK /\ [StoreNext]_storeVars => StoreTypeOK'
<1> SUFFICES ASSUME StoreTypeOK, [StoreNext]_storeVars PROVE StoreTypeOK'
  OBVIOUS
<1> USE DEF StoreTypeOK
<1>1. ASSUME NEW e \in Evidence, NEW d \in Deployments, Reject(e, d) PROVE StoreTypeOK'
  BY SMT, <1>1 DEF Reject
<1>2. ASSUME NEW s \in InstalledStates, CommitInstalled(s) PROVE StoreTypeOK'
  BY <1>2 DEF CommitInstalled, InstalledStates
<1>3. ASSUME NEW p \in Payloads, PointActive(p) PROVE StoreTypeOK'
  BY <1>3 DEF PointActive
<1>4. ASSUME NEW t \in Transactions, WriteJournal(t) PROVE StoreTypeOK'
  BY <1>4 DEF WriteJournal, Transactions
<1>5. CASE ClearJournal
  BY <1>5 DEF ClearJournal
<1>6. ASSUME NEW t \in InstallTransactions, WriteInstallJournal(t) PROVE StoreTypeOK'
  BY <1>6 DEF WriteInstallJournal
<1>7. CASE ClearInstallJournal
  BY <1>7 DEF ClearInstallJournal
<1>8. CASE RecordFirstInstall
  BY <1>8 DEF RecordFirstInstall
<1>9. CASE UNCHANGED storeVars
  BY <1>9 DEF storeVars
<1> QED
  BY <1>1, <1>2, <1>3, <1>4, <1>5, <1>6, <1>7, <1>8, <1>9 DEF StoreNext

\* Committing a new installed record keeps the invariant.
LEMMA CommitPreserves ==
    ASSUME StoreInv, NEW s \in InstalledStates, CommitInstalled(s), StoreTypeOK'
    PROVE  StoreInv'
<1> USE NoneAssumption DEF StoreInv
<1>1. JournalsExclusive'
  BY DEF JournalsExclusive, CommitInstalled
<1>2. VerdictKept'
  BY DEF VerdictKept, RejectionIsDurable, CommitInstalled
<1>3. JournalBracketsHead' /\ RollbackTargetWasHead'
  <2> USE DEF JournalBracketsHead, RollbackTargetWasHead
  <2>1. CASE installed = None
    <3>1. journal = None /\ s.guard = None
      BY <2>1 DEF CommitInstalled, CommitIsAuthorized, InstallCommitIsAuthorized, JournalsExclusive
    <3> QED
      BY <3>1 DEF CommitInstalled
  <2>2. CASE installed # None /\ MetadataTransitionIsAuthorized(s)
    <3>1. installed \in InstalledStates
      BY <2>2 DEF StoreTypeOK
    <3>2. s.unit.pkg = installed.unit.pkg /\ s.guard \in {installed.guard, None}
      BY SMT, <2>2, <3>1 DEF MetadataTransitionIsAuthorized, InstalledStates, Deployments
    <3> QED
      BY <2>2, <3>2 DEF CommitInstalled, MatchesRollbackGuard
  <2>3. CASE installed # None /\ PendingRollbackIsAuthorized(s)
    <3>1. s.guard = None /\ s.unit = installed.guard.prev
      BY <2>3 DEF PendingRollbackIsAuthorized, Proven
    <3> QED
      BY <2>3, <3>1 DEF PendingRollbackIsAuthorized, CommitInstalled, MatchesRollbackGuard
  <2>4. CASE installed # None /\ JournalTransitionIsAuthorized(s)
    BY <2>4 DEF JournalTransitionIsAuthorized, CommitInstalled, MatchesRollbackGuard,
                MatchesPrevious, MatchesCandidate
  <2> QED
    BY <2>1, <2>2, <2>3, <2>4 DEF CommitInstalled, CommitIsAuthorized
<1>4. (installed # None /\ installed.proven => installed.unit \in heads)'
  BY DEF CommitInstalled
<1> QED
  BY <1>1, <1>2, <1>3, <1>4

\* Writing an update journal keeps the invariant: a start is bound to the installed
\* record, a rewrite keeps the identity, and only a settled journal is replaced.
LEMMA WriteJournalPreserves ==
    ASSUME StoreInv, NEW t \in Transactions, WriteJournal(t), StoreTypeOK'
    PROVE  StoreInv'
<1> USE NoneAssumption DEF StoreInv
<1>1. JournalsExclusive'
  BY DEF JournalsExclusive, WriteJournal, JournalWriteIsAuthorized
<1>2. CASE journal # None /\ journal.id = t.id
  <2>1. t.prev = journal.prev /\ t.cand = journal.cand /\ (journal.reject => t.reject)
    BY <1>2, ReplacementKeepsIdentity
       DEF WriteJournal, JournalWriteIsAuthorized, JournalRewriteIsAuthorized, StoreTypeOK
  <2>2. VerdictKept'
    BY <1>2, <2>1 DEF VerdictKept, RejectionIsDurable, WriteJournal
  <2>3. JournalBracketsHead' /\ RollbackTargetWasHead'
    BY <1>2, <2>1 DEF JournalBracketsHead, RollbackTargetWasHead, WriteJournal,
                      MatchesRollbackGuard
  <2> QED
    BY <1>1, <2>2, <2>3 DEF WriteJournal
<1>3. CASE ~(journal # None /\ journal.id = t.id)
  <2>1. JournalStartIsAuthorized(t)
    BY <1>3 DEF WriteJournal, JournalWriteIsAuthorized
  <2>2. VerdictKept'
    BY <1>3 DEF VerdictKept, RejectionIsDurable, WriteJournal, JournalWriteIsAuthorized,
                JournalMayDiscard
  <2>3. JournalBracketsHead' /\ RollbackTargetWasHead'
    BY <2>1 DEF JournalBracketsHead, RollbackTargetWasHead, WriteJournal,
                JournalStartIsAuthorized, PendingAuthorizesRollbackJournal,
                MatchesRollbackGuard, MatchesPrevious, MatchesCandidate
  <2> QED
    BY <1>1, <2>2, <2>3 DEF WriteJournal
<1> QED
  BY <1>2, <1>3

\* The invariant holds initially and is preserved by every step.
LEMMA StoreInvInductive ==
    /\ StoreInit => StoreInv
    /\ StoreInv /\ [StoreNext]_storeVars => StoreInv'
<1>1. StoreInit => StoreInv
  BY DEF StoreInit, StoreInv, StoreTypeOK, JournalsExclusive, VerdictKept,
         JournalBracketsHead, RollbackTargetWasHead
<1>2. ASSUME StoreInv, [StoreNext]_storeVars PROVE StoreInv'
  <2>1. StoreTypeOK'
    BY <1>2, StoreTypePreserved DEF StoreInv
  <2> USE <1>2, <2>1 DEF StoreInv, JournalsExclusive, VerdictKept, RejectionIsDurable,
                         JournalBracketsHead, RollbackTargetWasHead, MatchesRollbackGuard
  <2>2. ASSUME NEW e \in Evidence, NEW d \in Deployments, Reject(e, d) PROVE StoreInv'
    BY <2>2 DEF Reject
  <2>3. ASSUME NEW s \in InstalledStates, CommitInstalled(s) PROVE StoreInv'
    BY <2>3, CommitPreserves
  <2>4. ASSUME NEW p \in Payloads, PointActive(p) PROVE StoreInv'
    BY <2>4 DEF PointActive
  <2>5. ASSUME NEW t \in Transactions, WriteJournal(t) PROVE StoreInv'
    BY <2>5, WriteJournalPreserves
  <2>6. CASE ClearJournal
    BY <2>6 DEF ClearJournal, ClearIsAuthorized, JournalMayDiscard
  <2>7. ASSUME NEW t \in InstallTransactions, WriteInstallJournal(t) PROVE StoreInv'
    BY <2>7 DEF WriteInstallJournal, InstallWriteIsAuthorized
  <2>8. CASE ClearInstallJournal
    BY <2>8 DEF ClearInstallJournal
  <2>9. CASE RecordFirstInstall
    BY <2>9 DEF RecordFirstInstall
  <2>10. CASE UNCHANGED storeVars
    BY <2>10 DEF storeVars, StoreTypeOK
  <2> QED
    BY <2>2, <2>3, <2>4, <2>5, <2>6, <2>7, <2>8, <2>9, <2>10 DEF StoreNext
<1> QED
  BY <1>1, <1>2

\* The records keep their types in every behaviour of the store.
THEOREM StoreTypeCorrect == StoreSpec => []StoreTypeOK
  BY StoreInvInductive, PTL DEF StoreSpec, StoreInv

\* The update and first-install journals are never both durable.
THEOREM StoreJournalsExclusive == StoreSpec => []JournalsExclusive
  BY StoreInvInductive, PTL DEF StoreSpec, StoreInv

\* No sequence of store calls loses a journalled verdict against a candidate.
THEOREM StoreVerdictKept == StoreSpec => []VerdictKept
  BY StoreInvInductive, PTL DEF StoreSpec, StoreInv

\* The journal brackets the installed head in every behaviour of the store.
THEOREM StoreJournalBracketsHead == StoreSpec => []JournalBracketsHead
  BY StoreInvInductive, PTL DEF StoreSpec, StoreInv

\* Every rollback target was once the node's proven installed head.
THEOREM StoreRollbackTargetWasHead == StoreSpec => []RollbackTargetWasHead
  BY StoreInvInductive, PTL DEF StoreSpec, StoreInv

------------------------------------------------------------------------------
(* The agent over the store *)


\* Steps that read the in-memory transaction, the boot plan, the installed record.
TxSteps == {"compensated", "restore", "restored", "settle", "report", "revertReject"}
               \cup UpdateSteps

PlanSteps == {"compensate", "compensated", "activate", "commit", "reject", "restore",
              "restored", "converge", "gate", "failed", "settle", "report", "confirm",
              "rollbackVerified", "rolledBack", "finalCommit", "clear"}

RunningSteps == Steps \ ({"down", "killed", "ensure", "rebooting"} \cup InstallSteps)

\* No step is reached without the records it reads.
ControlOK ==
    /\ pc \in TxSteps => tx # None
    /\ pc \in PlanSteps => plan # None
    /\ pc \in RunningSteps => installed # None
    /\ pc \in InstallSteps => ijournal # None
    /\ pc = "revertJournal" => installed.guard # None

AgentInv == TypeOK /\ ControlOK

\* The part of the type invariant that is not the store's.
LocalTypeOK ==
    /\ pc \in Steps
    /\ tx \in Transactions \cup {None}
    /\ plan \in Plans \cup {None}
    /\ {armed, repaired, reboot, held, refused} \subseteq BOOLEAN
    /\ bundles \subseteq Payloads
    /\ pin \in Ids \cup {None}
    /\ effects \subseteq Packages

\* What every step owes: one store operation or none, and the invariant.
StepOK == [StoreNext]_storeVars /\ LocalTypeOK' /\ ControlOK'

\* A transaction moved to another phase is still a transaction.
LEMMA AtIsTransaction ==
    ASSUME NEW t \in Transactions, NEW ph \in Phases
    PROVE  At(t, ph) \in Transactions
  BY DEF At, Transactions

\* A step may be entered when the records it reads are there.
Ready(s) ==
    /\ s \in Steps
    /\ s \in TxSteps => tx # None
    /\ s \in PlanSteps => plan # None
    /\ s \in RunningSteps => installed # None
    /\ s \in InstallSteps => ijournal # None
    /\ s = "revertJournal" => installed.guard # None

\* Ending the process keeps the invariant, whatever happened to the host.
LEMMA ExitToStep ==
    ASSUME AgentInv, NEW s \in {"down", "killed"}, ExitTo(s), [StoreNext]_storeVars,
           refused' \in BOOLEAN, reboot' \in BOOLEAN, held' \in BOOLEAN,
           bundles' \subseteq Payloads, pin' \in Ids \cup {None}, effects' \subseteq Packages
    PROVE  StepOK
  BY DEF AgentInv, TypeOK, ExitTo, StepOK, LocalTypeOK, ControlOK, TxSteps, PlanSteps,
         RunningSteps, InstallSteps, UpdateSteps, Steps

\* A process that exits by itself keeps the invariant.
LEMMA ExitStep ==
    ASSUME AgentInv, Exit, [StoreNext]_storeVars,
           refused' \in BOOLEAN, reboot' \in BOOLEAN, held' \in BOOLEAN,
           bundles' \subseteq Payloads, pin' \in Ids \cup {None}, effects' \subseteq Packages
    PROVE  StepOK
  BY ExitToStep DEF Exit

\* Moving on to a ready step over an unchanged store keeps the invariant.
LEMMA GotoStep ==
    ASSUME AgentInv, NEW s, Ready(s), Goto(s), UNCHANGED storeVars,
           refused' \in BOOLEAN, reboot' \in BOOLEAN, held' \in BOOLEAN,
           bundles' \subseteq Payloads, pin' \in Ids \cup {None}, effects' \subseteq Packages
    PROVE  StepOK
  BY DEF AgentInv, TypeOK, Goto, StepOK, LocalTypeOK, ControlOK, Ready, storeVars

\* Finding nothing to do at a step keeps the invariant.
LEMMA SkipStep ==
    ASSUME AgentInv, NEW s, Ready(s), Skip(s)
    PROVE  StepOK
  BY GotoStep DEF Skip, hostVars, AgentInv, TypeOK

\* A step that ends the process on an error keeps the invariant.
LEMMA FailStep ==
    ASSUME AgentInv, Fail
    PROVE  StepOK
  BY ExitStep DEF Fail, hostVars, AgentInv, TypeOK

\* A write the store refuses changes no record, and the process exits.
LEMMA RefuseStep ==
    ASSUME AgentInv, Refuse, UNCHANGED hostVars
    PROVE  StepOK
  BY ExitStep DEF Refuse, hostVars, AgentInv, TypeOK

\* Journalling a transaction is one store operation, and so are the other writes.
LEMMA PersistStep ==
    ASSUME AgentInv, NEW t \in Transactions, NEW s, Persist(t, s),
           s \in Steps, s \notin InstallSteps, s # "revertJournal",
           s \in PlanSteps => plan # None, s \in RunningSteps => installed # None
    PROVE  StepOK
<1>1. CASE JournalWriteIsAuthorized(t)
  <2>1. [StoreNext]_storeVars
    BY <1>1 DEF Persist, StoreNext
  <2>2. LocalTypeOK'
    BY <1>1 DEF Persist, hostVars, AgentInv, TypeOK, LocalTypeOK
  <2>3. ControlOK'
    BY <1>1, NoneAssumption DEF Persist, WriteJournal, ControlOK
  <2> QED
    BY <2>1, <2>2, <2>3 DEF StepOK
<1>2. CASE ~JournalWriteIsAuthorized(t)
  BY <1>2, RefuseStep DEF Persist
<1> QED
  BY <1>1, <1>2

\* Writing the installed record is one authorized store operation.
LEMMA CommitStep ==
    ASSUME AgentInv, NEW n \in InstalledStates, NEW s, Commit(n, s),
           s \in Steps, s # "revertJournal", s \in TxSteps => tx # None,
           s \in PlanSteps => plan # None, s \in InstallSteps => ijournal # None
    PROVE  StepOK
<1>1. CASE CommitIsAuthorized(n)
  <2>1. [StoreNext]_storeVars
    BY <1>1 DEF Commit, StoreNext
  <2>2. LocalTypeOK'
    BY <1>1 DEF Commit, Goto, hostVars, AgentInv, TypeOK, LocalTypeOK
  <2>3. ControlOK'
    BY <1>1, NoneAssumption DEF Commit, Goto, CommitInstalled, ControlOK
  <2> QED
    BY <2>1, <2>2, <2>3 DEF StepOK
<1>2. CASE ~CommitIsAuthorized(n)
  BY <1>2, RefuseStep DEF Commit
<1> QED
  BY <1>1, <1>2

\* Deleting the update journal is one authorized store operation.
LEMMA ClearStep ==
    ASSUME AgentInv, NEW s, Clear(s), Ready(s)
    PROVE  StepOK
<1>1. CASE ClearIsAuthorized
  <2>1. [StoreNext]_storeVars
    BY <1>1 DEF Clear, StoreNext
  <2>2. LocalTypeOK'
    BY <1>1 DEF Clear, Goto, hostVars, AgentInv, TypeOK, LocalTypeOK, Ready
  <2>3. ControlOK'
    BY <1>1 DEF Clear, Goto, ClearJournal, ControlOK, Ready
  <2> QED
    BY <2>1, <2>2, <2>3 DEF StepOK
<1>2. CASE ~ClearIsAuthorized
  BY <1>2, RefuseStep DEF Clear
<1> QED
  BY <1>1, <1>2

\* Moving the active pointer is one authorized store operation.
LEMMA ActivateStep ==
    ASSUME AgentInv, NEW p, NEW s, Ready(s), Activate(p, s)
    PROVE  StepOK
<1>1. CASE p \in bundles
  <2>1. [StoreNext]_storeVars
    BY <1>1 DEF Activate, StoreNext, AgentInv, TypeOK
  <2>2. LocalTypeOK'
    BY <1>1 DEF Activate, Goto, hostVars, AgentInv, TypeOK, LocalTypeOK, Ready
  <2>3. ControlOK'
    BY <1>1 DEF Activate, Goto, PointActive, ControlOK, Ready
  <2> QED
    BY <2>1, <2>2, <2>3 DEF StepOK
<1>2. CASE p \notin bundles
  BY <1>2, ExitStep DEF Activate, hostVars, AgentInv, TypeOK
<1> QED
  BY <1>1, <1>2

\* Recording a rejection in the ledger is one authorized store operation.
LEMMA RejectStep ==
    ASSUME AgentInv, NEW e \in Evidence, NEW d \in Deployments, Reject(e, d),
           UNCHANGED <<hostVars, refused>>, Exit \/ \E s : Goto(s) /\ Ready(s)
    PROVE  StepOK
<1>1. [StoreNext]_storeVars
  BY DEF StoreNext
<1>2. CASE Exit
  BY <1>1, <1>2, ExitStep DEF hostVars, AgentInv, TypeOK
<1>3. ASSUME NEW s, Goto(s), Ready(s) PROVE StepOK
  <2>1. LocalTypeOK'
    BY <1>3 DEF Goto, hostVars, AgentInv, TypeOK, LocalTypeOK, Ready
  <2>2. ControlOK'
    BY <1>3 DEF Goto, Reject, ControlOK, Ready
  <2> QED
    BY <1>1, <2>1, <2>2 DEF StepOK
<1> QED
  BY <1>2, <1>3

\* A hook only changes the machine: its outcome is a step, a reboot or an exit.
LEMMA HookStep ==
    ASSUME AgentInv, NEW after \in SUBSET Packages, NEW s, Ready(s), Ready("rebooting"),
           HookCompletes(after, s) \/ HookFaults(after, s)
    PROVE  StepOK
<1>1. CASE HookCompletes(after, s)
  BY <1>1, GotoStep DEF HookCompletes, AgentInv, TypeOK
<1>2. CASE HookFaults(after, s)
  BY <1>2, GotoStep DEF HookFaults, AgentInv, TypeOK
<1> QED
  BY <1>1, <1>2

\* A hook that settles nothing leaves the store alone and ends the process.
LEMMA InconclusiveStep ==
    ASSUME AgentInv, NEW after \in SUBSET Packages, HookIsInconclusive(after)
    PROVE  StepOK
  BY ExitStep DEF HookIsInconclusive, AgentInv, TypeOK

\* The cold install: every placement step is one write of the install journal, the
\* pointer, the history or the installed record.
LEMMA InstallSafe == ASSUME AgentInv, InstallNext PROVE StepOK
<1> USE DEF Ready, Steps, BootSteps, InstallSteps, UpdateSteps, TxSteps, PlanSteps, RunningSteps
<1>1. CASE EnsureInstalled
  <2>1. CASE ijournal # None
    BY <1>1, <2>1, SkipStep DEF EnsureInstalled
  <2>2. CASE ijournal = None
    BY <1>1, <2>2, SkipStep, FailStep DEF EnsureInstalled
  <2> QED
    BY <2>1, <2>2
<1>2. ASSUME NEW t \in InstallTransactions, NEW step \in InstallSteps, PersistInstall(t, step),
             bundles' \subseteq Payloads, UNCHANGED <<pin, reboot, held, effects>>
      PROVE StepOK
  <2>1. CASE InstallWriteIsAuthorized(t)
    <3>1. [StoreNext]_storeVars
      BY <1>2, <2>1 DEF PersistInstall, StoreNext
    <3>2. LocalTypeOK'
      BY <1>2, <2>1 DEF PersistInstall, Goto, AgentInv, TypeOK, LocalTypeOK
    <3>3. ControlOK'
      BY <1>2, <2>1, NoneAssumption DEF PersistInstall, Goto, WriteInstallJournal, ControlOK
    <3> QED
      BY <3>1, <3>2, <3>3 DEF StepOK
  <2>2. CASE ~InstallWriteIsAuthorized(t)
    BY <1>2, <2>2, ExitStep DEF PersistInstall, Refuse, AgentInv, TypeOK
  <2> QED
    BY <2>1, <2>2
<1>3. CASE ApplyInstall
  <2>1. PICK d \in Deployments :
          IF d.pkg \in Malformed
          THEN Reject("artifact", d) /\ Goto("ensure") /\ UNCHANGED <<bundles, refused>>
          ELSE /\ bundles' = bundles \cup {Payload(d)}
               /\ \E id \in Fresh :
                    PersistInstall([id |-> id, unit |-> d, phase |-> "Started"], "iPrepared")
    BY <1>3 DEF ApplyInstall
  <2>2. CASE d.pkg \in Malformed
    BY SMT, <1>3, <2>1, <2>2, RejectStep DEF ApplyInstall, Evidence, hostVars
  <2>3. CASE d.pkg \notin Malformed
    <3>1. PICK id \in Ids :
            PersistInstall([id |-> id, unit |-> d, phase |-> "Started"], "iPrepared")
      BY <2>1, <2>3 DEF Fresh
    <3>2. [id |-> id, unit |-> d, phase |-> "Started"] \in InstallTransactions
      BY DEF InstallTransactions, InstallPhases
    <3>3. bundles' \subseteq Payloads
      BY SMT, <2>1, <2>3, PayloadAssumption DEF AgentInv, TypeOK, Payload, Deployments
    <3> QED
      BY <1>2, <1>3, <3>1, <3>2, <3>3 DEF ApplyInstall
  <2> QED
    BY <2>2, <2>3
<1>4. ASSUME NEW step \in InstallSteps, NEW from, NEW to \in InstallPhases,
             NEW next \in InstallSteps, AdvanceInstall(step, from, to, next)
      PROVE StepOK
  <2>1. CASE ijournal.phase = from
    <3>1. At(ijournal, to) \in InstallTransactions
      BY <1>4 DEF AdvanceInstall, AgentInv, TypeOK, StoreTypeOK, ControlOK, At, InstallTransactions
    <3> QED
      BY <1>2, <1>4, <2>1, <3>1 DEF AdvanceInstall, hostVars, AgentInv, TypeOK
  <2>2. CASE ijournal.phase # from
    BY <1>4, <2>2, SkipStep DEF AdvanceInstall, Skip, AgentInv, ControlOK
  <2> QED
    BY <2>1, <2>2
<1>5. CASE PlaceAndCommit
  <2> USE DEF InstallPhases
  <2>1. CASE AdvanceInstall("iPrepared", "Started", "Prepared", "iActivate")
    BY <1>4, <2>1
  <2>2. CASE pc = "iActivate" /\ Activate(Payload(ijournal.unit), "iPlaced")
    BY <2>2, ActivateStep DEF AgentInv, ControlOK
  <2>3. CASE AdvanceInstall("iPlaced", "Prepared", "Placed", "iEnroll")
    BY <1>4, <2>3
  <2>4. CASE /\ pc = "iEnroll"
             /\ IF enrolled THEN UNCHANGED storeVars ELSE RecordFirstInstall
             /\ Goto("iCommit")
             /\ UNCHANGED <<hostVars, refused>>
    <3>1. [StoreNext]_storeVars
      BY <2>4 DEF StoreNext
    <3>2. LocalTypeOK'
      BY <2>4 DEF Goto, hostVars, AgentInv, TypeOK, LocalTypeOK
    <3>3. ControlOK'
      BY <2>4 DEF Goto, storeVars, RecordFirstInstall, AgentInv, ControlOK
    <3> QED
      BY <3>1, <3>2, <3>3 DEF StepOK
  <2>5. CASE pc = "iCommit" /\ Commit(Provisional(ijournal.unit), "iCommitted")
    <3>1. ijournal # None /\ Provisional(ijournal.unit) \in InstalledStates
      BY <2>5 DEF AgentInv, TypeOK, StoreTypeOK, ControlOK, InstallTransactions, Provisional,
                  InstalledStates
    <3> QED
      BY <2>5, <3>1, CommitStep
  <2>6. CASE AdvanceInstall("iCommitted", "Placed", "Committed", "iClear")
    BY <1>4, <2>6
  <2> QED
    BY <1>5, <2>1, <2>2, <2>3, <2>4, <2>5, <2>6 DEF PlaceAndCommit
<1>6. CASE ClearInstall
  <2>1. CASE ClearInstallIsAuthorized
    <3>1. [StoreNext]_storeVars
      BY <1>6, <2>1 DEF ClearInstall, StoreNext
    <3>2. LocalTypeOK'
      BY <1>6, <2>1 DEF ClearInstall, Goto, hostVars, AgentInv, TypeOK, LocalTypeOK
    <3>3. ControlOK'
      BY <1>6, <2>1 DEF ClearInstall, Goto, ClearInstallJournal, ClearInstallIsAuthorized,
                        InstallCommitted, AgentInv, ControlOK
    <3> QED
      BY <3>1, <3>2, <3>3 DEF StepOK
  <2>2. CASE ~ClearInstallIsAuthorized
    BY <1>6, <2>2, RefuseStep DEF ClearInstall
  <2> QED
    BY <2>1, <2>2
<1> QED
  BY <1>1, <1>3, <1>5, <1>6 DEF InstallNext

\* The revert transaction built from a guard, and the recovery a boot derives.
LEMMA RecoveryIsTransaction ==
    ASSUME AgentInv, installed # None
    PROVE  /\ installed.guard # None => RollbackOfGuarded(FALSE) \in Transactions
           /\ installed.guard # None => RollbackOfGuarded(TRUE) \in Transactions
           /\ RecoveryTransaction \in Transactions \cup {None}
<1>1. ASSUME installed.guard # None, NEW r \in BOOLEAN PROVE RollbackOfGuarded(r) \in Transactions
  BY SMT, <1>1, FailuresAssumption DEF RollbackOfGuarded, AgentInv, TypeOK, StoreTypeOK,
     InstalledStates, Guards, Transactions, Phases, RollbackPhases
<1>2. RecoveryTransaction \in Transactions \cup {None}
  BY <1>1 DEF RecoveryTransaction, PredecessorIsActive, AgentInv, TypeOK, StoreTypeOK
<1> QED
  BY <1>1, <1>2

\* The boot plan names payloads, records and candidates of the right kind.
LEMMA PlanIsTyped == ASSUME AgentInv, installed # None PROVE PlanBoot \in Plans
<1> USE DEF AgentInv, TypeOK, StoreTypeOK
<1>1. installed \in InstalledStates /\ Payload(installed.unit) \in Payloads
  BY PayloadAssumption DEF InstalledStates, Payload, Deployments
<1>2. ASSUME journal # None
      PROVE /\ ReconcileTransaction.act \in Payloads \cup {None}
            /\ ReconcileTransaction.commit \in InstalledStates \cup {None}
            /\ journal.cand \in Deployments
  BY <1>2, PayloadAssumption DEF ReconcileTransaction, Transactions, InstalledStates, Proven,
     Payload, Deployments
<1>3. ASSUME PredecessorIsActive
      PROVE /\ CompletePendingRollback.act \in Payloads
            /\ CompletePendingRollback.commit \in InstalledStates
  BY <1>1, <1>3, PayloadAssumption DEF PredecessorIsActive, CompletePendingRollback,
     InstalledStates, Guards, Proven, Payload, Deployments
<1>4. /\ EnforceInstalled.act \in Payloads \cup {None}
      /\ EnforceInstalled.commit \in InstalledStates \cup {None}
  BY <1>1 DEF EnforceInstalled
<1> DEFINE carries == journal # None /\ JournalRecovery # "Committed"
           fix == IF carries THEN ReconcileTransaction
                  ELSE IF PredecessorIsActive THEN CompletePendingRollback ELSE EnforceInstalled
           deferred == RecoveryTransaction # None /\ IsRollback(RecoveryTransaction)
<1>5. fix.act \in Payloads \cup {None} /\ fix.commit \in InstalledStates \cup {None}
  BY <1>2, <1>3, <1>4
<1>6. PlanBoot = [act |-> fix.act, commit |-> fix.commit,
                  reject |-> IF journal # None /\ journal.reject THEN journal.cand ELSE None,
                  clear |-> journal # None, defer |-> deferred]
  BY DEF PlanBoot
<1>7. (IF journal # None /\ journal.reject THEN journal.cand ELSE None) \in Deployments \cup {None}
  BY <1>2
<1>8. deferred \in BOOLEAN
  BY DEF IsRollback
<1> HIDE DEF fix, deferred
<1> QED
  BY <1>5, <1>6, <1>7, <1>8 DEF Plans

\* Repair of a damaged tree: it re-points the same payload or journals a revert.
LEMMA RepairSafe ==
    ASSUME AgentInv, NEW step, NEW other, RepairCommittedBundle(step, other),
           installed # None, step \in {"plan", "reconverge"}, other \in {"plan", "down"}
    PROVE  StepOK
<1> USE DEF Steps, BootSteps, InstallSteps, UpdateSteps, TxSteps, PlanSteps, RunningSteps
<1>1. CASE RepairFromAssignment(step)
  <2>1. Payload(installed.unit) \in Payloads
    BY PayloadAssumption DEF AgentInv, TypeOK, StoreTypeOK, InstalledStates, Payload, Deployments
  <2>2. [StoreNext]_storeVars
    BY <1>1, <2>1 DEF RepairFromAssignment, StoreNext
  <2>3. LocalTypeOK'
    BY <1>1, <2>1 DEF RepairFromAssignment, AgentInv, TypeOK, LocalTypeOK
  <2>4. ControlOK'
    BY <1>1 DEF RepairFromAssignment, PointActive, ControlOK
  <2> QED
    BY <2>2, <2>3, <2>4 DEF StepOK
<1>2. CASE JournalPredecessorFallback(other)
  <2>1. RollbackOfGuarded(FALSE) \in Transactions
    BY <1>2, RecoveryIsTransaction DEF JournalPredecessorFallback
  <2>2. CASE JournalWriteIsAuthorized(RollbackOfGuarded(FALSE))
    <3>1. [StoreNext]_storeVars
      BY <1>2, <2>1, <2>2 DEF JournalPredecessorFallback, StoreNext
    <3>2. CASE other = "down"
      BY <1>2, <2>2, <3>1, <3>2, ExitStep
         DEF JournalPredecessorFallback, hostVars, AgentInv, TypeOK
    <3>3. CASE other # "down"
      <4>1. LocalTypeOK'
        BY <1>2, <2>2, <3>3 DEF JournalPredecessorFallback, Goto, hostVars, AgentInv, TypeOK,
                                LocalTypeOK
      <4>2. ControlOK'
        BY <1>2, <2>2, <3>3 DEF JournalPredecessorFallback, Goto, WriteJournal, ControlOK
      <4> QED
        BY <3>1, <4>1, <4>2 DEF StepOK
    <3> QED
      BY <3>2, <3>3
  <2>3. CASE ~JournalWriteIsAuthorized(RollbackOfGuarded(FALSE))
    BY <1>2, <2>3, RefuseStep DEF JournalPredecessorFallback
  <2> QED
    BY <2>2, <2>3
<1>3. CASE Fail
  BY <1>3, FailStep
<1> QED
  BY <1>1, <1>2, <1>3 DEF RepairCommittedBundle

\* Boot recovery up to the predecessor's gate.
LEMMA RecoverySafe ==
    ASSUME AgentInv,
           \/ VerifyInstalled \/ MakePlan \/ CompensateCandidate \/ RecordCompensation
           \/ ExecuteBootPlan \/ RestorePredecessor \/ RecordRestored
    PROVE  StepOK
<1> USE DEF Ready, Steps, BootSteps, InstallSteps, UpdateSteps, TxSteps, PlanSteps, RunningSteps
<1>1. CASE VerifyInstalled
  BY <1>1, SkipStep, RepairSafe DEF VerifyInstalled, AgentInv, ControlOK
<1>2. CASE MakePlan
  <2> DEFINE t == RecoveryTransaction
             next == IF IsRollback(t) THEN t ELSE At(t, "RollbackPlanned")
  <2>1. installed # None /\ PlanBoot \in Plans /\ t \in Transactions \cup {None}
    BY <1>2, PlanIsTyped, RecoveryIsTransaction DEF MakePlan, AgentInv, ControlOK
  <2>2. t # None => next \in Transactions
    BY <2>1, AtIsTransaction DEF Phases, RollbackPhases
  <2>3. CASE t # None /\ journal # next /\ ~JournalWriteIsAuthorized(next)
    BY <1>2, <2>3, RefuseStep DEF MakePlan
  <2>4. CASE ~(t # None /\ journal # next /\ ~JournalWriteIsAuthorized(next))
    <3>1. /\ IF t = None THEN tx' = None ELSE tx' = next
          /\ IF t = None \/ journal = next THEN UNCHANGED storeVars ELSE WriteJournal(next)
          /\ plan' = PlanBoot /\ pc' = "compensate"
          /\ UNCHANGED <<armed, repaired, refused>> /\ UNCHANGED hostVars
      BY <1>2, <2>4 DEF MakePlan
    <3> HIDE DEF t, next
    <3>2. [StoreNext]_storeVars
      BY <2>2, <3>1 DEF StoreNext
    <3>3. LocalTypeOK'
      BY <2>1, <2>2, <3>1 DEF hostVars, AgentInv, TypeOK, LocalTypeOK
    <3>4. plan' # None
      BY <2>1, <3>1, PlanAssumption
    <3>5. installed' = installed
      BY <3>1 DEF storeVars, WriteJournal
    <3>6. ControlOK'
      BY <2>1, <3>1, <3>4, <3>5 DEF ControlOK
    <3> QED
      BY <3>2, <3>3, <3>6 DEF StepOK
  <2> QED
    BY <2>3, <2>4
<1>3. ASSUME NEW ph \in Phases, NEW s, StalledAdvance(ph, s), tx # None, Ready(s),
             s \notin InstallSteps
      PROVE StepOK
  <2>1. At(tx, ph) \in Transactions
    BY <1>3, AtIsTransaction DEF AgentInv, TypeOK
  <2>2. [StoreNext]_storeVars
    BY <1>3, <2>1 DEF StalledAdvance, StoreNext
  <2>3. LocalTypeOK'
    BY <1>3, <2>1 DEF StalledAdvance, hostVars, AgentInv, TypeOK, LocalTypeOK
  <2>4. ControlOK'
    BY <1>3, <2>1, NoneAssumption DEF StalledAdvance, storeVars, WriteJournal, ControlOK
  <2> QED
    BY <2>2, <2>3, <2>4 DEF StepOK
<1>4. CASE CompensateCandidate
  <2>1. CASE Skip("activate")
    BY <1>4, <2>1, SkipStep DEF CompensateCandidate, AgentInv, ControlOK
  <2>2. CASE tx # None /\ HookCompletes(effects \ {tx.cand.pkg}, "compensated")
    <3>1. effects \ {tx.cand.pkg} \in SUBSET Packages
      BY DEF AgentInv, TypeOK
    <3>2. Ready("compensated") /\ Ready("rebooting")
      BY <1>4, <2>2 DEF CompensateCandidate, AgentInv, ControlOK
    <3> HIDE DEF Ready, Steps, BootSteps, InstallSteps, UpdateSteps, TxSteps, PlanSteps,
                 RunningSteps
    <3> QED
      BY <2>2, <3>1, <3>2, HookStep
  <2>3. CASE HookIsInconclusive(effects)
    BY <2>3, InconclusiveStep DEF AgentInv, TypeOK
  <2> QED
    BY <1>4, <2>1, <2>2, <2>3 DEF CompensateCandidate, Pending
<1>5. CASE RecordCompensation
  <2>1. tx \in Transactions /\ plan # None /\ installed # None
    BY <1>5 DEF RecordCompensation, AgentInv, ControlOK, TypeOK
  <2>2. At(tx, "CandidateCompensated") \in Transactions
    BY <2>1, AtIsTransaction DEF Phases, RollbackPhases
  <2> QED
    BY <1>3, <1>5, <2>1, <2>2, PersistStep, NoneAssumption
       DEF RecordCompensation, Phases, RollbackPhases
<1>6. CASE ExecuteBootPlan
  <2>1. plan \in Plans /\ installed # None
    BY <1>6 DEF ExecuteBootPlan, AgentInv, ControlOK, TypeOK
  <2>2. CASE pc = "activate"
    BY <1>6, <2>1, <2>2, ActivateStep, SkipStep DEF ExecuteBootPlan, AgentInv, ControlOK
  <2>3. CASE pc = "commit"
    BY <1>6, <2>1, <2>3, CommitStep, SkipStep DEF ExecuteBootPlan, AgentInv, ControlOK, Plans
  <2>4. CASE pc = "reject"
    <3>1. IF plan.reject = None THEN UNCHANGED storeVars ELSE Reject("deployment", plan.reject)
      BY <1>6, <2>4 DEF ExecuteBootPlan
    <3>2. [StoreNext]_storeVars
      BY <2>1, <3>1 DEF StoreNext, Plans, Evidence
    <3>3. LocalTypeOK'
      BY <1>6, <2>1, <2>4 DEF ExecuteBootPlan, hostVars, AgentInv, TypeOK, LocalTypeOK
    <3>4. installed' = installed
      BY <3>1 DEF storeVars, Reject
    <3>5. ControlOK'
      BY <1>6, <2>1, <2>4, <3>4 DEF ExecuteBootPlan, AgentInv, ControlOK
    <3> QED
      BY <3>2, <3>3, <3>5 DEF StepOK
  <2> QED
    BY <1>6, <2>2, <2>3, <2>4 DEF ExecuteBootPlan
<1>7. CASE RestorePredecessor
  <2>1. tx \in Transactions /\ plan # None /\ installed # None
    BY <1>7 DEF RestorePredecessor, AgentInv, ControlOK, TypeOK
  <2>2. effects \cup {tx.prev.pkg} \in SUBSET Packages
    BY <2>1 DEF AgentInv, TypeOK, Transactions, Deployments
  <2> QED
    BY SMT, <1>7, <2>1, <2>2, HookStep, InconclusiveStep, NoneAssumption DEF RestorePredecessor
<1>8. CASE RecordRestored
  <2>1. tx \in Transactions /\ plan # None /\ installed # None
    BY <1>8 DEF RecordRestored, AgentInv, ControlOK, TypeOK
  <2>2. At(tx, "Restored") \in Transactions
    BY <2>1, AtIsTransaction DEF Phases, RollbackPhases
  <2> QED
    BY <1>3, <1>8, <2>1, <2>2, PersistStep, SkipStep, NoneAssumption
       DEF RecordRestored, Phases, RollbackPhases
<1> QED
  BY <1>1, <1>2, <1>4, <1>5, <1>6, <1>7, <1>8

\* The gate, the rollback's settlement and the revert of an unconfirmed head.
LEMMA GateSafe ==
    ASSUME AgentInv,
           \/ BootConverge \/ BootGate \/ GateFailed \/ Settle \/ ReportSettled
           \/ ConfirmProvisional \/ FinishRollback \/ FinalCommit \/ ClearRecovered
           \/ GarbageCollect \/ Revert \/ JournalRevert
    PROVE  StepOK
<1> USE DEF Ready, Steps, BootSteps, InstallSteps, UpdateSteps, TxSteps, PlanSteps, RunningSteps
<1>1. CASE BootConverge
  <2>1. installed \in InstalledStates /\ plan # None /\ installed # None
    BY <1>1 DEF BootConverge, AgentInv, ControlOK, TypeOK, StoreTypeOK
  <2>2. effects \cup {installed.unit.pkg} \in SUBSET Packages
    BY <2>1 DEF AgentInv, TypeOK, InstalledStates, Deployments
  <2>3. Ready("gate") /\ Ready("failed") /\ Ready("rebooting")
    BY <2>1
  <2> HIDE DEF Ready, Steps, BootSteps, InstallSteps, UpdateSteps, TxSteps, PlanSteps,
               RunningSteps
  <2> QED
    BY <1>1, <2>1, <2>2, <2>3, HookStep, InconclusiveStep DEF BootConverge
<1>2. CASE BootGate
  BY <1>2, SkipStep DEF BootGate, AgentInv, ControlOK
<1>3. CASE GateFailed
  <2>1. plan # None /\ installed \in InstalledStates /\ installed # None
    BY <1>3 DEF GateFailed, AgentInv, ControlOK, TypeOK, StoreTypeOK
  <2>2. CASE tx # None
    <3>1. MayRecordHealthFailure(tx) => WithHealthFailure(tx) \in Transactions
      BY SMT, <2>2, FailuresAssumption
         DEF MayRecordHealthFailure, WithHealthFailure, AgentInv, TypeOK, Transactions
    <3> QED
      BY <1>3, <2>1, <2>2, <3>1, PersistStep, FailStep DEF GateFailed
  <2>3. CASE tx = None /\ (installed.guard # None \/ installed.proven)
    BY <1>3, <2>1, <2>3, SkipStep DEF GateFailed
  <2>4. CASE tx = None /\ installed.guard = None /\ ~installed.proven
    BY <1>3, <2>1, <2>4, RejectStep DEF GateFailed, InstalledStates, Evidence
  <2> QED
    BY <2>2, <2>3, <2>4
<1>4. CASE Settle
  <2>1. tx \in Transactions /\ plan # None /\ installed # None
    BY <1>4 DEF Settle, AgentInv, ControlOK, TypeOK
  <2>2. At(tx, "RolledBack") \in Transactions
    BY <2>1, AtIsTransaction DEF Phases, RollbackPhases
  <2> QED
    BY <1>4, <2>1, <2>2, PersistStep, FailStep DEF Settle
<1>5. CASE ReportSettled
  BY <1>5, SkipStep, FailStep DEF ReportSettled, AgentInv, ControlOK
<1>6. CASE ConfirmProvisional
  <2>1. installed # None /\ plan # None /\ [installed EXCEPT !.proven = TRUE] \in InstalledStates
    BY <1>6 DEF ConfirmProvisional, AgentInv, ControlOK, TypeOK, StoreTypeOK, InstalledStates
  <2> QED
    BY <1>6, <2>1, CommitStep, SkipStep DEF ConfirmProvisional
<1>7. CASE FinishRollback
  <2>1. plan # None /\ installed # None
    BY <1>7 DEF FinishRollback, AgentInv, ControlOK
  <2>2. tx # None => /\ At(tx, "RollbackVerified") \in Transactions
                     /\ At(tx, "RolledBack") \in Transactions
    BY AtIsTransaction DEF AgentInv, TypeOK, Phases, RollbackPhases
  <2> QED
    BY <1>7, <2>1, <2>2, PersistStep, SkipStep DEF FinishRollback, Pending
<1>8. CASE FinalCommit
  <2>1. plan \in Plans /\ plan # None /\ installed # None
    BY <1>8 DEF FinalCommit, AgentInv, ControlOK, TypeOK
  <2>2. CASE plan.defer /\ plan.commit # None /\ CommitIsAuthorized(plan.commit)
    <3>1. plan.commit \in InstalledStates
      BY <2>1, <2>2 DEF Plans
    <3>2. [StoreNext]_storeVars
      BY <1>8, <2>2, <3>1 DEF FinalCommit, StoreNext
    <3>3. LocalTypeOK'
      BY <1>8, <2>2 DEF FinalCommit, hostVars, AgentInv, TypeOK, LocalTypeOK
    <3>4. ControlOK'
      BY <1>8, <2>1, <2>2 DEF FinalCommit, CommitInstalled, ControlOK
    <3> QED
      BY <3>2, <3>3, <3>4 DEF StepOK
  <2>3. CASE plan.defer /\ plan.commit # None /\ ~CommitIsAuthorized(plan.commit)
    BY <1>8, <2>3, RefuseStep DEF FinalCommit
  <2>4. CASE ~(plan.defer /\ plan.commit # None)
    BY <1>8, <2>1, <2>4, SkipStep DEF FinalCommit
  <2> QED
    BY <2>2, <2>3, <2>4
<1>9. CASE ClearRecovered
  BY <1>9, ClearStep, SkipStep DEF ClearRecovered, AgentInv, ControlOK
<1>10. CASE GarbageCollect
  <2>1. [StoreNext]_storeVars
    BY <1>10 DEF GarbageCollect
  <2>2. LocalTypeOK'
    BY <1>10 DEF GarbageCollect, AgentInv, TypeOK, LocalTypeOK
  <2>3. ControlOK'
    BY <1>10 DEF GarbageCollect, storeVars, AgentInv, ControlOK
  <2> QED
    BY <2>1, <2>2, <2>3 DEF StepOK
<1>11. CASE Revert
  BY <1>11, ClearStep, SkipStep, FailStep DEF Revert, AgentInv, ControlOK
<1>12. CASE JournalRevert
  <2>1. installed # None
    BY <1>12 DEF JournalRevert, AgentInv, ControlOK
  <2>2. CASE pc = "revertJournal"
    <3>1. RollbackOfGuarded(~repaired) \in Transactions
      <4>1. RollbackOfGuarded(TRUE) \in Transactions /\ RollbackOfGuarded(FALSE) \in Transactions
        BY <2>1, <2>2, RecoveryIsTransaction DEF AgentInv, ControlOK
      <4>2. repaired \in BOOLEAN
        BY DEF AgentInv, TypeOK
      <4>3. CASE repaired = TRUE
        BY <4>1, <4>3 DEF RollbackOfGuarded
      <4>4. CASE repaired = FALSE
        BY <4>1, <4>4 DEF RollbackOfGuarded
      <4> QED
        BY <4>2, <4>3, <4>4
    <3> QED
      BY <1>12, <2>1, <2>2, <3>1, PersistStep DEF JournalRevert
  <2>3. CASE pc = "revertReject"
    <3>1. tx \in Transactions
      BY <2>3 DEF AgentInv, ControlOK, TypeOK
    <3>2. CASE tx.reject
      BY <1>12, <2>3, <3>1, <3>2, RejectStep DEF JournalRevert, Transactions, Evidence
    <3>3. CASE ~tx.reject
      BY <1>12, <2>3, <3>3, FailStep DEF JournalRevert, Fail
    <3> QED
      BY <3>2, <3>3
  <2> QED
    BY <1>12, <2>2, <2>3 DEF JournalRevert
<1> QED
  BY <1>1, <1>2, <1>3, <1>4, <1>5, <1>6, <1>7, <1>8, <1>9, <1>10, <1>11, <1>12

\* The control loop: confirmation, repair, reconvergence and rebinding.
LEMMA LoopSafe == ASSUME AgentInv, LoopNext PROVE StepOK
<1> USE DEF Ready, Steps, BootSteps, InstallSteps, UpdateSteps, TxSteps, PlanSteps, RunningSteps
<1>1. CASE ProbeUnconfirmed
  BY <1>1, SkipStep DEF ProbeUnconfirmed, AgentInv, ControlOK
<1>2. CASE DisarmUpdateRollback
  <2> DEFINE settled == [installed EXCEPT !.guard = None]
  <2>1. installed # None /\ settled \in InstalledStates
    BY <1>2 DEF DisarmUpdateRollback, AgentInv, ControlOK, TypeOK, StoreTypeOK, InstalledStates
  <2>2. UNCHANGED storeVars \/ CommitInstalled(settled)
    BY <1>2 DEF DisarmUpdateRollback
  <2>3. [StoreNext]_storeVars
    BY <2>1, <2>2 DEF StoreNext
  <2>4. armed' \in BOOLEAN /\ refused' \in BOOLEAN /\ effects' \subseteq Packages
    BY <1>2 DEF DisarmUpdateRollback, AgentInv, TypeOK
  <2>5. pc' \in {"collect", "idle"} /\ UNCHANGED <<tx, plan, repaired, bundles, pin, reboot, held>>
    BY <1>2 DEF DisarmUpdateRollback
  <2>6. LocalTypeOK'
    BY <2>4, <2>5 DEF AgentInv, TypeOK, LocalTypeOK
  <2>7. installed' # None
    BY <2>1, <2>2, NoneAssumption DEF storeVars, CommitInstalled
  <2>8. ControlOK'
    BY <2>5, <2>7 DEF ControlOK
  <2> QED
    BY <2>3, <2>6, <2>8 DEF StepOK
<1>3. CASE RepairInLoop
  BY <1>3, RepairSafe DEF RepairInLoop, AgentInv, ControlOK
<1>4. CASE BeginReconverge
  BY <1>4, SkipStep DEF BeginReconverge, Intact, AgentInv, ControlOK
<1>5. CASE ReconvergeEnvironment
  <2>1. installed \in InstalledStates /\ installed # None
    BY <1>5 DEF ReconvergeEnvironment, AgentInv, ControlOK, TypeOK, StoreTypeOK
  <2>2. effects \cup {installed.unit.pkg} \in SUBSET Packages
    BY <2>1 DEF AgentInv, TypeOK, InstalledStates, Deployments
  <2> QED
    BY SMT, <1>5, <2>1, <2>2, HookStep, InconclusiveStep DEF ReconvergeEnvironment
<1>6. CASE RebindLineage
  <2>1. PICK l \in Lineages : Commit([installed EXCEPT !.unit.lin = l], "reconverge")
    BY <1>6 DEF RebindLineage
  <2>2. [installed EXCEPT !.unit.lin = l] \in InstalledStates
    BY <1>6 DEF RebindLineage, Intact, AgentInv, ControlOK, TypeOK, StoreTypeOK,
                InstalledStates, Deployments
  <2> QED
    BY <2>1, <2>2, CommitStep
<1>7. CASE RejectMalformed
  <2>1. PICK d \in Deployments : Reject("artifact", d)
    BY <1>7 DEF RejectMalformed
  <2> QED
    BY <1>7, <2>1, RejectStep DEF RejectMalformed, Intact, AgentInv, ControlOK, Evidence
<1> QED
  BY <1>1, <1>2, <1>3, <1>4, <1>5, <1>6, <1>7 DEF LoopNext

\* The update transaction.
LEMMA UpdateSafe == ASSUME AgentInv, UpdateNext PROVE StepOK
<1> USE DEF Ready, Steps, BootSteps, InstallSteps, UpdateSteps, TxSteps, PlanSteps, RunningSteps
<1>1. CASE SelectCandidate
  <2>1. installed \in InstalledStates /\ installed # None
    BY <1>1 DEF SelectCandidate, Intact, AgentInv, ControlOK, TypeOK, StoreTypeOK
  <2>2. PICK d \in Deployments, id \in Ids :
          /\ bundles' = bundles \cup {Payload(d)}
          /\ tx' = [id |-> id, prev |-> installed.unit, cand |-> d, reject |-> FALSE,
                    fails |-> 0, phase |-> "Prepared"]
    BY <1>1 DEF SelectCandidate, Fresh
  <2>3. tx' \in Transactions
    <3> HIDE DEF Ready, Steps, BootSteps, InstallSteps, UpdateSteps, TxSteps, PlanSteps,
                 RunningSteps
    <3>1. installed.unit \in Deployments /\ "Prepared" \in Phases /\ 0 \in 0 .. MaxFailures
      BY SMT, <2>1, FailuresAssumption DEF InstalledStates, Phases, ForwardPhases
    <3> QED
      BY <2>2, <3>1 DEF Transactions
  <2>4. bundles' \subseteq Payloads
    BY <2>2, PayloadAssumption DEF AgentInv, TypeOK, Payload, Deployments
  <2>5. LocalTypeOK'
    BY <1>1, <2>3, <2>4 DEF SelectCandidate, AgentInv, TypeOK, LocalTypeOK
  <2>6. ControlOK'
    BY <1>1, <2>1, <2>3, NoneAssumption DEF SelectCandidate, storeVars, ControlOK
  <2> QED
    BY <1>1, <2>5, <2>6 DEF SelectCandidate, StepOK
<1> DEFINE Updating == pc \in UpdateSteps
<1>2. ASSUME Updating
      PROVE /\ tx \in Transactions /\ tx # None /\ installed # None
            /\ \A ph \in Phases : At(tx, ph) \in Transactions
            /\ [tx EXCEPT !.reject = TRUE] \in Transactions
            /\ GuardedHead(tx) \in InstalledStates
  <2>1. tx \in Transactions /\ tx # None /\ installed # None
    BY <1>2 DEF AgentInv, ControlOK, TypeOK
  <2>2. [tx EXCEPT !.reject = TRUE] \in Transactions
    BY <2>1 DEF Transactions
  <2>3. GuardedHead(tx) \in InstalledStates
    BY <2>1 DEF GuardedHead, Transactions, InstalledStates, Guards
  <2> QED
    BY <2>1, <2>2, <2>3, AtIsTransaction
<1>3. CASE ExecuteUpdate
  <2>1. CASE pc = "uBegin"
    BY <1>2, <1>3, <2>1, SkipStep, FailStep, ClearStep DEF ExecuteUpdate
  <2>2. CASE pc = "uPin"
    BY <1>2, <1>3, <2>2, GotoStep DEF ExecuteUpdate, AgentInv, TypeOK, Transactions
  <2>3. CASE pc = "uPrepared"
    BY <1>2, <1>3, <2>3, PersistStep DEF ExecuteUpdate
  <2> QED
    BY <1>3, <2>1, <2>2, <2>3 DEF ExecuteUpdate
<1>4. CASE ActivateCandidate
  BY <1>2, <1>4, ActivateStep, PersistStep DEF ActivateCandidate, Phases, ForwardPhases
<1>5. CASE ConvergeCandidate
  <2>1. effects \cup {tx.cand.pkg} \in SUBSET Packages
    BY <1>2, <1>5 DEF ConvergeCandidate, AgentInv, TypeOK, Transactions, Deployments
  <2> QED
    BY SMT, <1>2, <1>5, <2>1, HookStep, InconclusiveStep DEF ConvergeCandidate
<1>6. CASE GateCandidate
  BY <1>2, <1>6, PersistStep, SkipStep, FailStep DEF GateCandidate, Phases, ForwardPhases
<1>7. CASE CommitCandidate
  BY <1>2, <1>7, CommitStep, PersistStep DEF CommitCandidate, Phases, ForwardPhases
<1>8. CASE ClearCommitted
  <2>1. [StoreNext]_storeVars /\ installed' = installed
    BY <1>8 DEF ClearCommitted, StoreNext, storeVars, ClearJournal
  <2>2. LocalTypeOK'
    BY <1>8 DEF ClearCommitted, hostVars, AgentInv, TypeOK, LocalTypeOK
  <2>3. ControlOK'
    BY <1>2, <1>8, <2>1 DEF ClearCommitted, ControlOK
  <2> QED
    BY <2>1, <2>2, <2>3 DEF StepOK
<1>9. CASE RejectThenRecover
  <2>1. CASE pc = "uVerdict"
    BY <1>2, <1>9, <2>1, PersistStep DEF RejectThenRecover
  <2>2. CASE pc = "uReject"
    BY <1>2, <1>9, <2>2, RejectStep DEF RejectThenRecover, Transactions, Evidence
  <2> QED
    BY <1>9, <2>1, <2>2 DEF RejectThenRecover
<1> QED
  BY <1>1, <1>3, <1>4, <1>5, <1>6, <1>7, <1>8, <1>9 DEF UpdateNext

\* The environment never writes the store, except that a backup moves the pointer.
LEMMA EnvironmentSafe == ASSUME AgentInv, Environment PROVE StepOK
<1>1. CASE Crash
  BY <1>1, ExitToStep DEF Crash, hostVars, AgentInv, TypeOK
<1>2. CASE HostReboots
  BY <1>2, ExitToStep DEF HostReboots, AgentInv, TypeOK
<1>3. CASE OperatorResolves \/ Corrupt
  BY <1>3 DEF OperatorResolves, Corrupt, processVars, storeVars, AgentInv, TypeOK, StepOK,
              LocalTypeOK, ControlOK
<1>4. CASE Drift
  <2>1. [StoreNext]_storeVars
    BY <1>4 DEF Drift, StoreNext, AgentInv, TypeOK
  <2>2. LocalTypeOK' /\ ControlOK'
    BY <1>4 DEF Drift, PointActive, processVars, hostVars, AgentInv, TypeOK, LocalTypeOK,
                ControlOK
  <2> QED
    BY <2>1, <2>2 DEF StepOK
<1> QED
  BY <1>1, <1>2, <1>3, <1>4 DEF Environment

\* Every step of the agent is a step of the store, or leaves it alone.
LEMMA EveryStep == ASSUME AgentInv, [Next]_vars PROVE StepOK /\ AgentInv'
<1>1. StepOK
  <2>1. CASE Launch
    BY <2>1, SkipStep DEF Launch, Ready, Steps, BootSteps, InstallSteps, UpdateSteps, TxSteps,
                          PlanSteps, RunningSteps
  <2>2. CASE BootNext
    BY <2>2, RecoverySafe, GateSafe DEF BootNext
  <2>3. CASE UNCHANGED vars
    BY <2>3 DEF vars, processVars, hostVars, storeVars, AgentInv, TypeOK, StepOK, LocalTypeOK,
                ControlOK
  <2> QED
    BY <2>1, <2>2, <2>3, InstallSafe, LoopSafe, UpdateSafe, EnvironmentSafe DEF Next
<1>2. StoreTypeOK'
  BY <1>1, StoreTypePreserved DEF AgentInv, TypeOK, StepOK
<1> QED
  BY <1>1, <1>2 DEF AgentInv, TypeOK, StepOK, LocalTypeOK

\* Initially nothing is durable and no process runs.
LEMMA InitialStep == Init => AgentInv /\ StoreInit
  BY DEF Init, StoreInit, AgentInv, TypeOK, StoreTypeOK, ControlOK, Steps, TxSteps, PlanSteps,
         RunningSteps, InstallSteps, UpdateSteps

\* The agent's types hold, and no step runs without the records it reads, in every
\* behaviour: crashes, faults and repairs included.
THEOREM AgentTypeCorrect == Spec => []TypeOK
  BY InitialStep, EveryStep, PTL DEF Spec, AgentInv

\* The node agent implements the durable store: each of its steps, in every
\* interleaving with crashes and faults, is one authorized store operation or none.
THEOREM AgentImplementsStore == Spec => StoreSpec
  BY InitialStep, EveryStep, PTL DEF Spec, StoreSpec, StepOK

\* No verdict against a candidate is lost by the agent: from the moment a journal
\* records it, it is in the rejection ledger or in the journal that must deliver it.
THEOREM AgentVerdictKept == Spec => []VerdictKept
  BY AgentImplementsStore, StoreVerdictKept, PTL

\* The agent only ever rolls back to a deployment that was its proven installed head.
THEOREM AgentRollbackTargetWasHead == Spec => []RollbackTargetWasHead
  BY AgentImplementsStore, StoreRollbackTargetWasHead, PTL

-----------------------------------------------------------------------------
(***************************************************************************)
(* The protocol.                                                           *)
(***************************************************************************)

\* Spent journals are deleted, writes are not retried in place, trees stay intact.
Calm == ~ClearMayFail /\ ~WritesMayStall /\ ~MayCorrupt

(***************************************************************************)
(* The durable state, whatever the process is doing.                       *)
(***************************************************************************)

\* The installed record before and after the attempt t is committed.
Before(t) == installed = Proven(t.prev)
After(t) == installed = GuardedHead(t)

\* Phases in which the candidate has not touched the machine, or not any more; phases
\* whose payload is the candidate's, the predecessor's; phases that owe nothing.
Clean == {"Prepared", "CandidateCompensated", "Restored", "RollbackVerified", "RolledBack"}
OnCandidate == {"Activated", "Converged", "Verified", "Committed"}
OnPredecessor == {"Restored", "RollbackVerified", "RolledBack"}
Spent == {"Committed", "RolledBack"}

\* The record, the pointer, the trees and the machine are what the attempt t explains.
Accounted(t) ==
    /\ ValidTransaction(t)
    /\ ijournal = None
    /\ \/ Before(t) /\ t.phase # "Committed"
       \/ After(t) /\ t.phase \notin {"Prepared", "Activated"} /\ (t.reject => IsRollback(t))
    /\ active \in {Payload(t.prev), Payload(t.cand)}
    /\ t.phase \in OnCandidate => active = Payload(t.cand)
    /\ t.phase \in OnPredecessor => active = Payload(t.prev)
    /\ t.phase \in Clean => t.cand.pkg \notin effects
    /\ t.phase \notin Spent => pin = t.id
    /\ Payload(t.prev) \in bundles

HeadOK ==
    installed # None =>
        /\ enrolled
        /\ ValidInstalled(installed)
        /\ Payload(installed.unit) \in bundles
        /\ installed.guard # None =>
              Payload(installed.guard.prev) \in bundles /\ pin = installed.guard.id
        /\ ijournal # None =>
              installed = Provisional(ijournal.unit) /\ active = Payload(installed.unit)

InstallOK ==
    installed = None =>
        /\ journal = None
        /\ effects = {}
        /\ ijournal = None => active = None /\ ~enrolled
        /\ ijournal # None =>
              /\ ijournal.phase # "Committed"
              /\ ijournal.phase = "Placed" => active = Payload(ijournal.unit)

\* The package is of the head, of its guarded predecessor or of the open attempt.
Explained(p) ==
    \/ p = installed.unit.pkg
    \/ installed.guard # None /\ p = installed.guard.prev.pkg
    \/ journal # None /\ p = journal.cand.pkg

Durable ==
    /\ journal # None => Accounted(journal)
    /\ HeadOK
    /\ InstallOK
    /\ \A p \in effects : Explained(p)
    /\ active # None => active \in bundles

(***************************************************************************)
(* What the process has established when it is about to take step s.       *)
(***************************************************************************)
InstallAt(s) ==
    /\ s \in InstallSteps \ {"iCommitted", "iClear"} => installed = None
    /\ s \in {"iActivate", "iPlaced"} => ijournal.phase \in {"Prepared", "Placed"}
    /\ s \in {"iPlaced", "iEnroll", "iCommit"} => active = Payload(ijournal.unit)
    /\ s \in {"iEnroll", "iCommit", "iCommitted"} => ijournal.phase = "Placed"
    /\ s = "iCommit" => enrolled
    /\ s \in {"iCommitted", "iClear"} => installed # None
    /\ s \in RunningSteps => ijournal = None

\* The phases of the rollback a boot drives.
DrivePhases(s) ==
    /\ s = "compensate" => tx.phase # "RolledBack"
    /\ s = "compensated" => tx.phase = "RollbackPlanned" /\ tx.cand.pkg \notin effects
    /\ s \in {"activate", "commit", "reject", "restore", "restored"} =>
          tx.phase \in {"CandidateCompensated", "Restored", "RollbackVerified"}
    /\ s \in {"gate", "failed", "settle", "confirm"} =>
          tx.phase \in {"Restored", "RollbackVerified"}
    /\ s = "rollbackVerified" => tx.phase \in {"Restored", "RollbackVerified", "RolledBack"}
    /\ s = "rolledBack" => tx.phase \in {"RollbackVerified", "RolledBack"}
    /\ s \in {"report", "finalCommit", "clear"} => tx.phase = "RolledBack"

\* The boot drives a rollback: its journal, and the plan that was made for it.
Driving(s) ==
    /\ tx = journal
    /\ IsRollback(tx)
    /\ plan.act = Payload(tx.prev)
    /\ plan.clear \/ plan.defer
    /\ IF plan.commit = None THEN Before(tx) ELSE plan.defer /\ plan.commit = Proven(tx.prev)
    /\ s # "converge"
    /\ DrivePhases(s)
    /\ s \in {"commit", "reject", "restore", "restored"} => active = Payload(tx.prev)
    /\ s = "clear" => Before(tx)

\* Steps of a boot up to the delivery of a verdict.
Early == {"compensate", "compensated", "activate", "commit", "reject"}

\* A journal that asks for no rollback: never activated, committed, or rolled back.
Idles(t) ==
    \/ t.phase = "Prepared" /\ active = Payload(t.prev)
    \/ t.phase \in {"Converged", "Verified", "Committed"} /\ After(t)
    \/ t.phase = "RolledBack"

\* The boot brings up the head: there is nothing to roll back.
Plain(s) ==
    /\ ~plan.defer
    /\ plan.clear <=> journal # None
    /\ plan.act \in {None, Payload(installed.unit)}
    /\ journal = None =>
          plan.commit = None /\ (plan.act = None => active = Payload(installed.unit))
    /\ journal # None =>
          /\ Idles(journal)
          /\ plan.act = None
          /\ plan.commit = IF IsRollback(journal) THEN Proven(journal.prev) ELSE None
    /\ s \notin {"compensate", "activate"} /\ (journal = None \/ ~IsRollback(journal)) =>
          active = Payload(installed.unit)
    /\ s \notin Early \ {"reject"} /\ journal # None /\ IsRollback(journal) => Before(journal)
    /\ s \in {"rollbackVerified", "rolledBack", "finalCommit", "clear"} => installed.proven

VerdictAt(s) ==
    journal # None /\ journal.reject =>
        IF s \in Early THEN plan.reject = journal.cand ELSE RejectionIsDurable(journal.cand)

BootAt(s) ==
    s \in PlanSteps => VerdictAt(s) /\ IF tx = None THEN Plain(s) ELSE Driving(s)

Settled == journal = None /\ active = Payload(installed.unit) /\ installed.proven

LoopSteps == {"collect", "idle", "disarm", "reconverge", "revertJournal"}

LoopAt(s) ==
    /\ s \in LoopSteps => Settled
    /\ s = "revert" =>
          /\ active = Payload(installed.unit) /\ installed.proven
          /\ journal # None => After(journal) /\ ~IsRollback(journal)

Starting == {"uBegin", "uPin", "uPrepared"}

Trying == {"uActivate", "uActivated", "uConverge", "uConverged", "uGate", "uVerified",
           "uCommit", "uVerdict", "uReject"}

UpdatePhases(s) ==
    /\ s \in Starting \cup {"uActivate", "uActivated"} => tx.phase = "Prepared"
    /\ s \in {"uConverge", "uConverged"} => tx.phase = "Activated"
    /\ s \in {"uGate", "uVerified"} => tx.phase = "Converged"
    /\ s \in {"uCommit", "uCommitted"} => tx.phase \in {"Converged", "Verified"}
    /\ s \in {"uVerdict", "uReject"} => tx.phase \in {"Activated", "Converged"}
    /\ s = "uClear" => tx.phase = "Committed"

UpdateAt(s) ==
    /\ s \in UpdateSteps => UpdatePhases(s)
    /\ s \in UpdateSteps \ {"uReject"} => ~tx.reject
    /\ s \in Starting =>
          Settled /\ Before(tx) /\ tx.fails = 0 /\ tx.prev.pkg # tx.cand.pkg
    /\ s = "uPrepared" => pin = tx.id
    /\ s \in UpdateSteps \ Starting => tx = journal
    /\ s \in Trying => Before(tx)
    /\ s = "uActivated" => active = Payload(tx.cand)
    /\ s \in {"uCommitted", "uClear"} => After(tx)

Points(s) == InstallAt(s) /\ BootAt(s) /\ LoopAt(s) /\ UpdateAt(s)

\* Steps after which the loop may be reached, all past the point that sets the watch.
Watched == {"restore", "restored", "converge", "gate", "failed", "settle", "report", "confirm",
            "rollbackVerified", "rolledBack", "finalCommit", "clear", "collect", "idle",
            "disarm", "reconverge"}

WatchInv == pc \in Watched /\ installed.guard # None => armed

\* The inductive invariant.
ProtocolInv == ~refused /\ ~repaired /\ Durable /\ Points(pc)

(***************************************************************************)
(* A durable guard is watched, under every fault.                          *)
(***************************************************************************)

\* Only the steps that set the watch lead into the watched steps.
LEMMA WatchStep == ASSUME AgentInv, WatchInv, [Next]_vars PROVE WatchInv'
<1> USE DEF Watched
<1>1. CASE Launch
  BY <1>1 DEF Launch, Skip, Goto, WatchInv
<1>2. CASE InstallNext
  <2>1. pc' \notin Watched
    BY <1>2 DEF InstallNext, EnsureInstalled, ApplyInstall, PlaceAndCommit, ClearInstall,
       AdvanceInstall, PersistInstall, Commit, Activate, Skip, Goto, Refuse, Fail, Exit, ExitTo
  <2> QED
    BY <2>1 DEF WatchInv
<1>3. CASE UpdateNext
  <2>1. CASE ClearCommitted
    BY <2>1 DEF ClearCommitted, ClearJournal, storeVars, WatchInv
  <2>2. CASE ~ClearCommitted
    <3>1. pc' \notin Watched
      BY <1>3, <2>2 DEF UpdateNext, SelectCandidate, ExecuteUpdate, ActivateCandidate,
         ConvergeCandidate, GateCandidate, CommitCandidate, RejectThenRecover, Persist, Commit,
         Clear, Activate, Skip, Goto, Refuse, Fail, Exit, ExitTo, HookCompletes, HookFaults,
         HookIsInconclusive
    <3> QED
      BY <3>1 DEF WatchInv
  <2> QED
    BY <2>1, <2>2
<1>4. CASE Environment
  BY <1>4 DEF Environment, Crash, HostReboots, OperatorResolves, Corrupt, Drift, PointActive,
     ExitTo, processVars, storeVars, WatchInv
<1>5. CASE UNCHANGED vars
  BY <1>5 DEF vars, processVars, storeVars, WatchInv
<1>6. CASE LoopNext
  <2>1. CASE ProbeUnconfirmed \/ BeginReconverge \/ ReconvergeEnvironment
    BY <2>1 DEF ProbeUnconfirmed, BeginReconverge, ReconvergeEnvironment, Intact, Skip, Goto,
       HookCompletes, HookIsInconclusive, Exit, ExitTo, storeVars, WatchInv
  <2>2. CASE DisarmUpdateRollback
    BY SMT, <2>2 DEF DisarmUpdateRollback, CommitInstalled, storeVars, WatchInv, AgentInv, TypeOK,
       StoreTypeOK, ControlOK, RunningSteps, Steps, InstallSteps, InstalledStates
  <2>3. CASE RepairInLoop
    BY <2>3 DEF RepairInLoop, RepairCommittedBundle, RepairFromAssignment, PointActive,
       JournalPredecessorFallback, Refuse, Fail, Exit, ExitTo, WatchInv
  <2>4. CASE RebindLineage
    BY <2>4 DEF RebindLineage, Intact, Commit, CommitInstalled, Refuse, Exit, ExitTo, Goto,
       WatchInv, AgentInv, TypeOK, StoreTypeOK, ControlOK, RunningSteps, Steps, InstallSteps,
       InstalledStates
  <2>5. CASE RejectMalformed
    BY <2>5 DEF RejectMalformed, Intact, Reject, Goto, WatchInv
  <2> QED
    BY <1>6, <2>1, <2>2, <2>3, <2>4, <2>5 DEF LoopNext
<1>7. CASE BootNext
  <2>1. CASE VerifyInstalled \/ MakePlan \/ CompensateCandidate \/ RecordCompensation
             \/ Revert \/ JournalRevert
    <3>1. pc' \notin Watched
      BY <2>1 DEF VerifyInstalled, MakePlan, CompensateCandidate, RecordCompensation, Revert,
         JournalRevert, RepairCommittedBundle, RepairFromAssignment, JournalPredecessorFallback,
         StalledAdvance, HookCompletes, HookIsInconclusive, Persist, Clear, Skip, Goto, Refuse,
         Fail, Exit, ExitTo
    <3> QED
      BY <3>1 DEF WatchInv
  <2>2. CASE ExecuteBootPlan
    BY <2>2 DEF ExecuteBootPlan, Activate, Commit, Reject, Skip, Goto, Refuse, Exit, ExitTo,
       storeVars, WatchInv
  <2>3. CASE RestorePredecessor \/ RecordRestored \/ BootConverge \/ BootGate
    BY <2>3 DEF RestorePredecessor, RecordRestored, BootConverge, BootGate, HookCompletes,
       HookFaults, HookIsInconclusive, StalledAdvance, Persist, WriteJournal, Skip, Goto, Refuse,
       Exit, ExitTo, storeVars, WatchInv
  <2>4. CASE GateFailed \/ Settle \/ ReportSettled \/ FinishRollback
    BY <2>4 DEF GateFailed, Settle, ReportSettled, FinishRollback, Persist, WriteJournal, Skip,
       Goto, Refuse, Fail, Exit, ExitTo, storeVars, WatchInv
  <2>5. CASE ConfirmProvisional
    BY SMT, <2>5 DEF ConfirmProvisional, Commit, CommitInstalled, Skip, Goto, Refuse, Exit, ExitTo,
       storeVars, WatchInv, AgentInv, TypeOK, StoreTypeOK, ControlOK, RunningSteps, Steps,
       BootSteps, InstallSteps, InstalledStates
  <2>6. CASE FinalCommit \/ ClearRecovered \/ GarbageCollect
    BY <2>6 DEF FinalCommit, ClearRecovered, GarbageCollect, CommitInstalled, Clear,
       ClearJournal, Skip, Goto, Refuse, Exit, ExitTo, storeVars, WatchInv
  <2> QED
    BY <1>7, <2>1, <2>2, <2>3, <2>4, <2>5, <2>6 DEF BootNext
<1> QED
  BY <1>1, <1>2, <1>3, <1>4, <1>5, <1>6, <1>7 DEF Next

\* An unconfirmed update is never forgotten by the control loop: whenever the loop is
\* idle over a durable rollback guard, the watch that confirms or reverts it is armed.
THEOREM UnconfirmedIsWatched == Spec => []GuardIsWatched
<1>1. Init => WatchInv
  BY DEF Init, WatchInv, Watched
<1>2. WatchInv => GuardIsWatched
  BY DEF WatchInv, GuardIsWatched, Watched
<1> QED
  BY <1>1, <1>2, InitialStep, EveryStep, WatchStep, PTL DEF Spec

(***************************************************************************)
(* A reboot a hook asked for comes before the next hook.                   *)
(***************************************************************************)

\* The steps a process may be at while it owes a reboot: none runs a hook or a gate.
Owing == {"down", "killed", "rebooting", "compensated", "restored", "uConverged", "uCommit",
          "uCommitted", "uClear", "collect"}

RebootInv == reboot => pc \in Owing

\* A step either leads from an owing step to an owing step, or owes nothing.
LEMMA RebootStep ==
    ASSUME ~WritesMayStall, RebootInv, [Next]_vars PROVE RebootInv'
<1> USE DEF Owing
<1>1. CASE Launch
  BY <1>1 DEF Launch, Skip, Goto, hostVars, RebootInv
<1>2. CASE InstallNext
  BY <1>2 DEF InstallNext, EnsureInstalled, ApplyInstall, PlaceAndCommit, ClearInstall,
     AdvanceInstall, PersistInstall, Commit, Activate, Skip, Goto, Refuse, Fail, Exit, ExitTo,
     hostVars, RebootInv
<1>3. CASE UpdateNext
  <2>1. CASE SelectCandidate \/ ExecuteUpdate \/ ActivateCandidate \/ ClearCommitted
             \/ RejectThenRecover
    BY <2>1 DEF SelectCandidate, Intact, ExecuteUpdate, ActivateCandidate, ClearCommitted,
       RejectThenRecover, Persist, Clear, Activate, Skip, Goto, Refuse, Fail, Exit, ExitTo,
       hostVars, RebootInv
  <2>2. CASE ConvergeCandidate
    BY <2>2 DEF ConvergeCandidate, HookCompletes, HookFaults, HookIsInconclusive, Goto, Exit,
       ExitTo, RebootInv
  <2>3. CASE GateCandidate \/ CommitCandidate
    BY <2>3 DEF GateCandidate, CommitCandidate, Persist, Commit, Skip, Goto, Refuse, Fail, Exit,
       ExitTo, hostVars, RebootInv
  <2> QED
    BY <1>3, <2>1, <2>2, <2>3 DEF UpdateNext
<1>4. CASE Environment
  BY <1>4 DEF Environment, Crash, HostReboots, OperatorResolves, Corrupt, Drift, ExitTo,
     processVars, hostVars, RebootInv
<1>5. CASE UNCHANGED vars
  BY <1>5 DEF vars, processVars, hostVars, RebootInv
<1>6. CASE LoopNext
  <2>1. CASE ProbeUnconfirmed \/ BeginReconverge \/ RebindLineage \/ RejectMalformed
             \/ DisarmUpdateRollback
    BY <2>1 DEF ProbeUnconfirmed, BeginReconverge, RebindLineage, RejectMalformed,
       DisarmUpdateRollback, Intact, Commit, Skip, Goto, Refuse, Exit, ExitTo, hostVars, RebootInv
  <2>2. CASE ReconvergeEnvironment
    BY <2>2 DEF ReconvergeEnvironment, HookCompletes, HookIsInconclusive, Goto, Exit, ExitTo,
       RebootInv
  <2>3. CASE RepairInLoop
    BY <2>3 DEF RepairInLoop, RepairCommittedBundle, RepairFromAssignment,
       JournalPredecessorFallback, Refuse, Fail, Exit, ExitTo, hostVars, RebootInv
  <2> QED
    BY <1>6, <2>1, <2>2, <2>3 DEF LoopNext
<1>7. CASE BootNext
  <2>1. CASE VerifyInstalled \/ MakePlan \/ ExecuteBootPlan \/ Revert \/ JournalRevert
    BY <2>1 DEF VerifyInstalled, MakePlan, ExecuteBootPlan, Revert, JournalRevert, Goto,
       RepairCommittedBundle, RepairFromAssignment, JournalPredecessorFallback, Persist, Clear,
       Commit, Activate, Skip, Refuse, Fail, Exit, ExitTo, hostVars, RebootInv
  <2>2. CASE CompensateCandidate \/ RecordCompensation \/ RestorePredecessor \/ RecordRestored
    BY <2>2 DEF CompensateCandidate, RecordCompensation, RestorePredecessor, RecordRestored,
       StalledAdvance, HookCompletes, HookIsInconclusive, Persist, Skip, Goto, Refuse, Exit,
       ExitTo, hostVars, RebootInv
  <2>3. CASE BootConverge \/ BootGate \/ GateFailed \/ Settle \/ ReportSettled
    BY <2>3 DEF BootConverge, BootGate, GateFailed, Settle, ReportSettled, HookCompletes,
       HookFaults, HookIsInconclusive, Persist, Skip, Goto, Refuse, Fail, Exit, ExitTo,
       hostVars, RebootInv
  <2>4. CASE ConfirmProvisional \/ FinishRollback \/ FinalCommit \/ ClearRecovered
             \/ GarbageCollect
    BY <2>4 DEF ConfirmProvisional, FinishRollback, FinalCommit, ClearRecovered, GarbageCollect,
       Persist, Commit, Clear, Skip, Goto, Refuse, Exit, ExitTo, hostVars, RebootInv
  <2> QED
    BY <1>7, <2>1, <2>2, <2>3, <2>4 DEF BootNext
<1> QED
  BY <1>1, <1>2, <1>3, <1>4, <1>5, <1>6, <1>7 DEF Next

\* When a hook asked for a reboot, no other hook and no health gate runs before the host
\* rebooted, provided that no recovery write is retried in place.
THEOREM OwedRebootComesFirst ==
    ASSUME ~WritesMayStall PROVE Spec => []RebootHonoured
<1>1. Init => RebootInv
  BY DEF Init, RebootInv
<1>2. RebootInv => RebootHonoured
  BY DEF RebootInv, RebootHonoured, Owing
<1>3. RebootInv /\ [Next]_vars => RebootInv'
  BY RebootStep
<1> QED
  BY <1>1, <1>2, <1>3, PTL DEF Spec

(***************************************************************************)
(* The durable state under each kind of step.                              *)
(***************************************************************************)

\* Moving a transaction to another phase changes nothing else of it.
LEMMA AtFields ==
    ASSUME NEW t \in Transactions, NEW ph \in Phases
    PROVE  /\ At(t, ph) \in Transactions
           /\ At(t, ph).id = t.id /\ At(t, ph).prev = t.prev /\ At(t, ph).cand = t.cand
           /\ At(t, ph).reject = t.reject /\ At(t, ph).fails = t.fails
           /\ At(t, ph).phase = ph
           /\ GuardedHead(At(t, ph)) = GuardedHead(t)
           /\ Before(At(t, ph)) = Before(t) /\ After(At(t, ph)) = After(t)
  BY DEF At, Transactions, GuardedHead, Before, After

\* The fields of a typed transaction.
LEMMA TransactionFields ==
    ASSUME NEW t \in Transactions
    PROVE  /\ t.id \in Ids /\ t.prev \in Deployments /\ t.cand \in Deployments
           /\ t.reject \in BOOLEAN /\ t.fails \in 0 .. MaxFailures /\ t.phase \in Phases
           /\ t.prev.pkg \in Packages /\ t.cand.pkg \in Packages
           /\ Payload(t.prev) \in Payloads /\ Payload(t.cand) \in Payloads
           /\ Payload(t.prev) # None /\ Payload(t.cand) # None
           /\ t # None /\ t.cand # None /\ t.prev # None
  BY SMT, PayloadAssumption, NoneAssumption DEF Transactions, Deployments, Payload

\* The records an attempt commits, and what each says of the predecessor.
LEMMA HeadFields ==
    ASSUME NEW t \in Transactions
    PROVE  /\ Proven(t.prev) \in InstalledStates /\ GuardedHead(t) \in InstalledStates
           /\ Proven(t.prev).unit = t.prev /\ Proven(t.prev).guard = None
           /\ Proven(t.prev).proven
           /\ GuardedHead(t).unit = t.cand /\ GuardedHead(t).proven
           /\ GuardedHead(t).guard # None
           /\ GuardedHead(t).guard.id = t.id /\ GuardedHead(t).guard.prev = t.prev
           /\ Proven(t.prev) # None
<1>1. [id |-> t.id, prev |-> t.prev] \in Guards
  BY TransactionFields DEF Guards
<1>2. Proven(t.prev) \in InstalledStates /\ GuardedHead(t) \in InstalledStates
  BY <1>1, TransactionFields DEF InstalledStates, Proven, GuardedHead
<1> QED
  BY <1>1, <1>2, NoneAssumption DEF Proven, GuardedHead

\* How far a rollback still has to go, by its phase.
LEMMA Ranks ==
    ASSUME NEW t, IsRollback(t)
    PROVE  /\ RecoveryPending(t, "CandidateCompensated") <=> t.phase = "RollbackPlanned"
           /\ RecoveryPending(t, "Restored")
                <=> t.phase \in {"RollbackPlanned", "CandidateCompensated"}
           /\ RecoveryPending(t, "RollbackVerified")
                <=> t.phase \in {"RollbackPlanned", "CandidateCompensated", "Restored"}
           /\ RecoveryPending(t, "RolledBack") <=> t.phase # "RolledBack"
<1>1. /\ RollbackRank["RollbackPlanned"] = 0 /\ RollbackRank["CandidateCompensated"] = 1
      /\ RollbackRank["Restored"] = 2 /\ RollbackRank["RollbackVerified"] = 3
      /\ RollbackRank["RolledBack"] = 4
  BY SMT DEF RollbackRank
<1>2. t.phase \in RollbackPhases
  BY DEF IsRollback
<1> QED
  BY SMT, <1>1, <1>2 DEF RecoveryPending, RollbackPhases

\* What the durable state is made of, but for the ledgers nothing here reads.
Recorded == <<active, installed, journal, ijournal, enrolled>>

\* A hook may only leave effects the durable state explains.
LEMMA HookDurable ==
    ASSUME Durable, UNCHANGED <<Recorded, bundles, pin>>,
           \A p \in effects' :
              \/ p \in effects
              \/ /\ installed # None /\ Explained(p)
                 /\ journal # None /\ journal.phase \in Clean => p # journal.cand.pkg
    PROVE  Durable'
<1>1. UNCHANGED <<active, installed, journal, ijournal, enrolled>>
  BY DEF Recorded
<1>2. (journal # None => Accounted(journal))'
  BY <1>1 DEF Durable, Accounted, Before, After
<1>3. HeadOK'
  BY <1>1 DEF Durable, HeadOK
<1>4. InstallOK'
  BY <1>1 DEF Durable, InstallOK
<1>5. (\A p \in effects : Explained(p))'
  BY <1>1 DEF Durable, Explained
<1> QED
  BY <1>1, <1>2, <1>3, <1>4, <1>5 DEF Durable

\* A step that writes no record and leaves the machine alone.
LEMMA QuietDurable ==
    ASSUME Durable, UNCHANGED <<Recorded, bundles, pin, effects>>
    PROVE  Durable'
  BY HookDurable

\* Rewriting the journal of an attempt with one that accounts for the same state.
LEMMA JournalDurable ==
    ASSUME Durable, NEW t, t # None, Accounted(t), installed # None,
           journal # None => journal.cand = t.cand,
           journal' = t, UNCHANGED <<active, installed, ijournal, enrolled, bundles, pin, effects>>
    PROVE  Durable'
<1>2. (journal # None => Accounted(journal))'
  BY DEF Durable, Accounted, Before, After
<1>3. HeadOK'
  BY DEF Durable, HeadOK
<1>4. InstallOK'
  BY DEF Durable, InstallOK
<1>5. (\A p \in effects : Explained(p))'
  BY DEF Durable, Explained
<1> QED
  BY <1>2, <1>3, <1>4, <1>5 DEF Durable

\* Deleting a journal whose candidate left nothing on the machine, or is the head.
LEMMA ClearDurable ==
    ASSUME Durable, installed # None, journal' = None,
           journal # None => journal.cand.pkg \notin effects \/ journal.cand = installed.unit,
           UNCHANGED <<active, installed, ijournal, enrolled, bundles, pin, effects>>
    PROVE  Durable'
<1>3. HeadOK'
  BY DEF Durable, HeadOK
<1>4. InstallOK'
  BY DEF Durable, InstallOK
<1>5. (\A p \in effects : Explained(p))'
  BY DEF Durable, Explained
<1> QED
  BY <1>3, <1>4, <1>5 DEF Durable

\* The record an attempt accounts for names its predecessor or its candidate.
LEMMA AccountedHead ==
    ASSUME NEW t \in Transactions, Accounted(t)
    PROVE  /\ Before(t) => /\ installed.unit = t.prev /\ installed.guard = None
                           /\ installed.proven
           /\ After(t) => /\ installed.unit = t.cand /\ installed.proven
                          /\ installed.guard # None
                          /\ installed.guard.id = t.id /\ installed.guard.prev = t.prev
           /\ Before(t) \/ After(t)
           /\ ~(Before(t) /\ After(t))
           /\ installed.proven
           /\ t.prev.pkg # t.cand.pkg
  BY HeadFields DEF Accounted, Before, After, ValidTransaction

\* Committing the predecessor once the rollback of its candidate is recorded.
LEMMA CommitBack ==
    ASSUME AgentInv, Durable, installed # None, journal # None, journal.phase = "RolledBack",
           installed' = Proven(journal.prev),
           UNCHANGED <<active, journal, ijournal, enrolled, bundles, pin, effects>>
    PROVE  Durable' /\ Before(journal)'
<1> DEFINE t == journal
<1>1. t \in Transactions /\ Accounted(t) /\ t.phase = "RolledBack"
  BY DEF AgentInv, TypeOK, StoreTypeOK, Durable
<1>2. Before(t)'
  BY DEF Before
<1>3. Accounted(t)'
  BY <1>1, <1>2 DEF Accounted, Spent
<1>4. HeadOK'
  BY <1>1, HeadFields DEF Durable, HeadOK, Accounted, ValidInstalled
<1>5. InstallOK'
  BY <1>1, HeadFields DEF InstallOK
<1>6. (\A p \in effects : Explained(p))'
  <2>1. t.cand.pkg \notin effects
    BY <1>1 DEF Accounted, Clean
  <2>2. \A p \in effects : p = t.prev.pkg
    BY <1>1, <2>1, AccountedHead DEF Durable, Explained
  <2> QED
    BY <1>1, <2>2, HeadFields DEF Explained
<1> QED
  BY <1>2, <1>3, <1>4, <1>5, <1>6 DEF Durable

\* The store accepts the predecessor as the record once its rollback is recorded.
LEMMA BackAuthorized ==
    ASSUME journal \in Transactions, Accounted(journal), journal.phase = "RolledBack",
           installed # None
    PROVE  CommitIsAuthorized(Proven(journal.prev))
<1> DEFINE n == Proven(journal.prev)
<1>1. n.unit = journal.prev /\ n.guard = None /\ n.proven /\ journal # None
  BY HeadFields, TransactionFields
<1>2. active = Payload(n.unit) /\ ValidInstalled(n)
  BY <1>1 DEF Accounted, OnPredecessor, ValidInstalled
<1>3. CASE Before(journal)
  BY <1>2, <1>3 DEF CommitIsAuthorized, MetadataTransitionIsAuthorized, Before
<1>4. CASE After(journal)
  <2>1. installed.unit = journal.cand
    BY <1>4, AccountedHead
  <2>2. JournalTransitionIsAuthorized(n)
    BY <1>1, <2>1 DEF JournalTransitionIsAuthorized, MatchesCandidate, MatchesPrevious
  <2> QED
    BY <1>2, <2>2 DEF CommitIsAuthorized
<1> QED
  BY <1>3, <1>4, AccountedHead

\* Committing the candidate, with the guard that keeps its predecessor.
LEMMA CommitForward ==
    ASSUME AgentInv, Durable, installed # None, journal # None, Before(journal),
           journal.phase \in {"Converged", "Verified"}, ~journal.reject,
           installed' = GuardedHead(journal),
           UNCHANGED <<active, journal, ijournal, enrolled, bundles, pin, effects>>
    PROVE  Durable' /\ After(journal)'
<1> DEFINE t == journal
<1>1. t \in Transactions /\ Accounted(t) /\ t.phase \in {"Converged", "Verified"}
  BY DEF AgentInv, TypeOK, StoreTypeOK, Durable
<1>2. After(t)'
  BY DEF After, GuardedHead
<1>3. Accounted(t)'
  BY <1>1, <1>2 DEF Accounted
<1>4. active = Payload(t.cand) /\ active # None /\ pin = t.id
  BY <1>1, TransactionFields DEF Accounted, OnCandidate, Spent
<1>5. HeadOK'
  BY <1>1, <1>4, HeadFields DEF Durable, HeadOK, Accounted, ValidInstalled, ValidTransaction
<1>6. InstallOK'
  BY <1>1, HeadFields, NoneAssumption DEF InstallOK
<1>7. (\A p \in effects : Explained(p))'
  <2>1. \A p \in effects : p \in {t.prev.pkg, t.cand.pkg}
    BY <1>1, AccountedHead DEF Durable, Explained
  <2> QED
    BY SMT, <1>1, <2>1, HeadFields DEF Explained
<1> QED
  BY <1>2, <1>3, <1>5, <1>6, <1>7 DEF Durable

\* Moving the pointer to a tree that verifies and that the open attempt explains.
LEMMA PointDurable ==
    ASSUME Durable, NEW p \in bundles, installed # None, ijournal = None, active' = p,
           journal # None =>
              \/ p = Payload(journal.prev) /\ journal.phase \notin OnCandidate
              \/ p = Payload(journal.cand) /\ journal.phase \notin OnPredecessor,
           UNCHANGED <<installed, journal, ijournal, enrolled, bundles, pin, effects>>
    PROVE  Durable'
<1>1. (journal # None => Accounted(journal))'
  BY DEF Durable, Accounted, Before, After
<1>2. HeadOK'
  BY DEF Durable, HeadOK
<1>3. InstallOK'
  BY DEF Durable, InstallOK
<1>4. (\A q \in effects : Explained(q))'
  BY DEF Durable, Explained
<1> QED
  BY <1>1, <1>2, <1>3, <1>4 DEF Durable

(***************************************************************************)
(* Arriving at a step: only what its own part of the process needs is owed.*)
(***************************************************************************)
\* The process owes what the step it comes to needs.
LEMMA AtPoint ==
    ASSUME NEW s, pc' = s, Points(s)', ~refused', ~repaired', Durable'
    PROVE  ProtocolInv'
<1>1. InstallAt(pc)'
  BY DEF Points, InstallAt
<1>2. BootAt(pc)'
  <2>1. VerdictAt(s)' => VerdictAt(pc)'
    BY DEF VerdictAt
  <2>2. DrivePhases(s)' => DrivePhases(pc)'
    BY DEF DrivePhases
  <2>3. Driving(s)' => Driving(pc)'
    BY <2>2 DEF Driving
  <2>4. Plain(s)' => Plain(pc)'
    BY DEF Plain
  <2> QED
    BY <2>1, <2>3, <2>4 DEF Points, BootAt
<1>3. LoopAt(pc)'
  BY DEF Points, LoopAt
<1>4. UpdateAt(pc)'
  <2>1. UpdatePhases(s)' => UpdatePhases(pc)'
    BY DEF UpdatePhases
  <2> QED
    BY <2>1 DEF Points, UpdateAt
<1> QED
  BY <1>1, <1>2, <1>3, <1>4 DEF ProtocolInv, Points

\* What a step needs is said of the store, the transaction, the plan and the host.
LEMMA SamePoints ==
    ASSUME NEW s, Points(s),
           UNCHANGED <<active, installed, journal, ijournal, rejected, enrolled, tx, plan,
                       pin, effects>>
    PROVE  Points(s)'
<1>1. InstallAt(s)'
  BY DEF Points, InstallAt
<1>2. BootAt(s)'
  <2>1. VerdictAt(s) <=> VerdictAt(s)'
    BY DEF VerdictAt, RejectionIsDurable
  <2>2. Plain(s) <=> Plain(s)'
    BY DEF Plain, Idles, Before, After
  <2>3. Driving(s) <=> Driving(s)'
    BY DEF Driving, DrivePhases, Before
  <2> QED
    BY <2>1, <2>2, <2>3 DEF Points, BootAt
<1>3. LoopAt(s)'
  BY DEF Points, LoopAt, Settled, After
<1>4. UpdateAt(s)'
  BY DEF Points, UpdateAt, UpdatePhases, Settled, Before, After
<1> QED
  BY <1>1, <1>2, <1>3, <1>4 DEF Points

Parked == {"down", "killed", "ensure", "rebooting"}

\* A process that ended, waits for the host or starts over has established nothing.
LEMMA ParkedPoints ==
    ASSUME ~refused', ~repaired', Durable', pc' \in Parked
    PROVE  ProtocolInv'
  BY DEF ProtocolInv, Points, InstallAt, BootAt, LoopAt, UpdateAt, UpdatePhases, Parked,
     InstallSteps, PlanSteps, LoopSteps, UpdateSteps, Starting, Trying, RunningSteps

\* What a boot step owes is that its plan fits the durable state.
LEMMA BootPoints ==
    ASSUME NEW s \in PlanSteps, pc' = s, ijournal' = None, VerdictAt(s)',
           tx' = None => Plain(s)', tx' # None => Driving(s)',
           ~refused', ~repaired', Durable'
    PROVE  ProtocolInv'
<1>1. InstallAt(s)' /\ LoopAt(s)' /\ UpdateAt(s)'
  BY DEF InstallAt, LoopAt, UpdateAt, UpdatePhases, InstallSteps, PlanSteps, LoopSteps,
     UpdateSteps, Starting, Trying
<1>2. BootAt(s)'
  BY DEF BootAt
<1>3. (Points(s))'
  BY <1>1, <1>2 DEF Points
<1> QED
  BY <1>3, AtPoint

\* What a step of an update owes is that its transaction fits the durable state.
LEMMA UpdatePoints ==
    ASSUME NEW s \in UpdateSteps, pc' = s, ijournal' = None, UpdateAt(s)',
           ~refused', ~repaired', Durable'
    PROVE  ProtocolInv'
<1>1. InstallAt(s)' /\ LoopAt(s)' /\ BootAt(s)'
  BY DEF InstallAt, LoopAt, BootAt, InstallSteps, PlanSteps, LoopSteps, UpdateSteps
<1>2. (Points(s))'
  BY <1>1 DEF Points
<1> QED
  BY <1>2, AtPoint

\* What a step of the control loop owes is that the node is settled.
LEMMA LoopPoints ==
    ASSUME NEW s \in LoopSteps \cup {"verify", "plan", "revert", "revertReject"}, pc' = s,
           ijournal' = None, LoopAt(s)', ~refused', ~repaired', Durable'
    PROVE  ProtocolInv'
<1>1. InstallAt(s)' /\ BootAt(s)' /\ UpdateAt(s)'
  BY DEF InstallAt, BootAt, UpdateAt, UpdatePhases, InstallSteps, PlanSteps, LoopSteps,
     UpdateSteps, Starting, Trying
<1>2. (Points(s))'
  BY <1>1 DEF Points
<1> QED
  BY <1>2, AtPoint

\* What a step of the cold install owes is that its own journal fits.
LEMMA InstallPoints ==
    ASSUME NEW s \in InstallSteps, pc' = s, InstallAt(s)', ~refused', ~repaired', Durable'
    PROVE  ProtocolInv'
<1>1. BootAt(s)' /\ UpdateAt(s)' /\ LoopAt(s)'
  BY DEF LoopAt, BootAt, UpdateAt, UpdatePhases, InstallSteps, PlanSteps, LoopSteps,
     UpdateSteps, Starting, Trying
<1>2. (Points(s))'
  BY <1>1 DEF Points
<1> QED
  BY <1>2, AtPoint

\* Moving on with nothing to do owes what the next step needs, in the same state.
LEMMA SkipPoints ==
    ASSUME ProtocolInv, NEW s, Skip(s), Points(s)
    PROVE  ProtocolInv'
<1>1. /\ pc' = s
      /\ UNCHANGED <<active, installed, journal, ijournal, rejected, enrolled, condemned, heads,
                     tx, plan, armed, repaired, bundles, pin, effects, refused>>
  BY DEF Skip, Goto, storeVars, hostVars
<1>2. Durable'
  BY <1>1, QuietDurable DEF ProtocolInv, Recorded
<1>3. (Points(s))'
  BY <1>1, SamePoints
<1> QED
  BY <1>1, <1>2, <1>3, AtPoint DEF ProtocolInv

\* Ending the process keeps the protocol, whatever the host state becomes.
LEMMA ExitPoints ==
    ASSUME ProtocolInv, NEW s \in {"down", "killed"}, ExitTo(s), Durable', refused' = refused
    PROVE  ProtocolInv'
  BY ParkedPoints DEF ExitTo, Parked, ProtocolInv

\* A step that fails or is cut short keeps the protocol.
LEMMA FailPoints == ASSUME ProtocolInv, Fail PROVE ProtocolInv'
  BY ExitPoints, QuietDurable DEF Fail, Exit, storeVars, hostVars, ProtocolInv, Recorded

\* What a boot step owes, in the present state.
LEMMA BootOwes ==
    ASSUME NEW s \in PlanSteps, ijournal = None, VerdictAt(s),
           IF tx = None THEN Plain(s) ELSE Driving(s)
    PROVE  Points(s)
  BY DEF Points, InstallAt, BootAt, LoopAt, UpdateAt, UpdatePhases, InstallSteps, PlanSteps,
     LoopSteps, UpdateSteps, Starting, Trying

\* What a step of the control loop owes, in the present state.
LEMMA LoopOwes ==
    ASSUME NEW s \in LoopSteps \cup {"verify", "plan", "revert", "revertReject"},
           ijournal = None, LoopAt(s)
    PROVE  Points(s)
  BY DEF Points, InstallAt, BootAt, UpdateAt, UpdatePhases, InstallSteps, PlanSteps, LoopSteps,
     UpdateSteps, Starting, Trying

\* What a step of an update owes, in the present state.
LEMMA UpdateOwes ==
    ASSUME NEW s \in UpdateSteps, ijournal = None, UpdateAt(s)
    PROVE  Points(s)
  BY DEF Points, InstallAt, BootAt, LoopAt, InstallSteps, PlanSteps, LoopSteps, UpdateSteps

(***************************************************************************)
(* Every step keeps the protocol.                                          *)
(***************************************************************************)

\* A hook that settles nothing keeps the protocol: what it did is explained.
LEMMA InconclusivePoints ==
    ASSUME ProtocolInv, NEW after, HookIsInconclusive(after),
           \A p \in after :
              \/ p \in effects
              \/ /\ installed # None /\ Explained(p)
                 /\ journal # None /\ journal.phase \in Clean => p # journal.cand.pkg
    PROVE  ProtocolInv'
<1>1. Durable'
  <2>1. \A p \in effects' : p \in effects \/ p \in after
    BY DEF HookIsInconclusive
  <2> QED
    BY <2>1, HookDurable DEF HookIsInconclusive, storeVars, ProtocolInv, Recorded
<1> QED
  BY <1>1, ExitPoints DEF HookIsInconclusive, Exit

\* Launch, the end of the process, the host and the operator.
LEMMA EnvironmentProtocol ==
    ASSUME Calm, AgentInv, ProtocolInv, Launch \/ Environment
    PROVE  ProtocolInv'
<1>1. CASE Launch
  <2>1. Durable' /\ pc' \in Parked /\ ~refused' /\ ~repaired'
    BY <1>1, QuietDurable DEF Launch, Skip, Goto, storeVars, hostVars, ProtocolInv, Parked, Recorded
  <2> QED
    BY <2>1, ParkedPoints
<1>2. CASE Crash
  BY <1>2, ExitPoints, QuietDurable DEF Crash, storeVars, hostVars, ProtocolInv, Recorded
<1>3. CASE HostReboots
  <2>1. Durable'
    BY <1>3, QuietDurable DEF HostReboots, storeVars, ProtocolInv, Recorded
  <2> QED
    BY <1>3, <2>1, ExitPoints DEF HostReboots
<1>4. CASE OperatorResolves
  <2>1. UNCHANGED <<active, installed, journal, ijournal, rejected, enrolled, condemned, heads,
                    pc, tx, plan, armed, repaired, bundles, pin, effects, refused>>
    BY <1>4 DEF OperatorResolves, storeVars, processVars
  <2>2. Durable'
    BY <2>1, QuietDurable DEF ProtocolInv, Recorded
  <2>3. PICK s : s = pc
    OBVIOUS
  <2>4. Points(s)
    BY <2>3 DEF ProtocolInv
  <2>5. (Points(s))'
    BY <2>1, <2>4, SamePoints
  <2> QED
    BY <2>1, <2>2, <2>3, <2>5, AtPoint DEF ProtocolInv
<1>5. CASE Drift
  <2>1. PICK p \in bundles : PointActive(p)
    BY <1>5 DEF Drift
  <2>2. Durable'
    BY <1>5, <2>1, PointDurable DEF Drift, PointActive, hostVars, ProtocolInv
  <2> QED
    BY <1>5, <2>2, ParkedPoints DEF Drift, processVars, ProtocolInv, Parked
<1> QED
  BY <1>1, <1>2, <1>3, <1>4, <1>5 DEF Environment, Corrupt, Calm

\* The cold install: the placement steps follow the order the store demands.
LEMMA InstallProtocol ==
    ASSUME AgentInv, ProtocolInv, InstallNext
    PROVE  ProtocolInv'
<1>0. /\ ~refused /\ ~repaired /\ Durable /\ HeadOK /\ InstallOK /\ InstallAt(pc)
      /\ ijournal \in InstallTransactions \cup {None}
      /\ installed \in InstalledStates \cup {None}
  BY DEF ProtocolInv, Points, Durable, AgentInv, TypeOK, StoreTypeOK
<1>1. CASE EnsureInstalled
  <2>1. CASE ijournal # None
    <3>1. CASE InstallCommitted(ijournal, installed)
      <4>1. Skip("iClear") /\ InstallAt("iClear")
        BY <1>1, <2>1, <3>1 DEF EnsureInstalled, InstallAt, InstallSteps, RunningSteps,
           InstallCommitted
      <4>2. Points("iClear")
        BY <4>1 DEF Points, BootAt, LoopAt, UpdateAt, UpdatePhases, PlanSteps, LoopSteps,
           UpdateSteps, Starting, Trying
      <4> QED
        BY <4>1, <4>2, SkipPoints
    <3>2. CASE ~InstallCommitted(ijournal, installed)
      <4>1. Skip("iPrepared") /\ installed = None
        BY SMT, <1>0, <1>1, <2>1, <3>2 DEF EnsureInstalled, HeadOK, InstallCommitted, Provisional
      <4>2. Points("iPrepared")
        BY <4>1 DEF Points, InstallAt, BootAt, LoopAt, UpdateAt, UpdatePhases, PlanSteps,
           LoopSteps, UpdateSteps, InstallSteps, RunningSteps, Starting, Trying
      <4> QED
        BY <4>1, <4>2, SkipPoints
    <3> QED
      BY <3>1, <3>2
  <2>2. CASE ijournal = None
    <3>1. Points("verify")
      BY <2>2, LoopOwes DEF LoopAt, LoopSteps
    <3> QED
      BY <1>1, <2>2, <3>1, SkipPoints, FailPoints DEF EnsureInstalled
  <2> QED
    BY <2>1, <2>2
<1>2. CASE ApplyInstall
  <2>0. ijournal = None /\ installed = None /\ journal = None /\ effects = {} /\ active = None
    BY <1>0, <1>2 DEF ApplyInstall, InstallOK
  <2>1. PICK d \in Deployments :
          /\ ~RejectsDeployment(d)
          /\ IF d.pkg \in Malformed
             THEN Reject("artifact", d) /\ Goto("ensure") /\ UNCHANGED <<bundles, refused>>
             ELSE /\ bundles' = bundles \cup {Payload(d)}
                  /\ \E id \in Fresh :
                       PersistInstall([id |-> id, unit |-> d, phase |-> "Started"], "iPrepared")
    BY <1>2 DEF ApplyInstall
  <2>2. CASE d.pkg \in Malformed
    <3>1. Durable'
      BY <1>0, <1>2, <2>1, <2>2, QuietDurable DEF ApplyInstall, Reject, Recorded
    <3> QED
      BY <1>0, <2>1, <2>2, <3>1, ParkedPoints DEF Goto, Parked
  <2>3. CASE d.pkg \notin Malformed
    <3>1. PICK id \in Fresh :
            PersistInstall([id |-> id, unit |-> d, phase |-> "Started"], "iPrepared")
      BY <2>1, <2>3
    <3> DEFINE t == [id |-> id, unit |-> d, phase |-> "Started"]
    <3>2. InstallWriteIsAuthorized(t)
      BY <2>0, <2>1 DEF InstallWriteIsAuthorized, InstallPhaseIsAuthorized,
         InstallStartIsAuthorized
    <3>3. WriteInstallJournal(t) /\ Goto("iPrepared") /\ UNCHANGED refused
      BY <3>1, <3>2 DEF PersistInstall
    <3>4. Durable'
      BY <1>2, <2>0, <3>3 DEF ApplyInstall, WriteInstallJournal, Durable, HeadOK, InstallOK
    <3>5. InstallAt("iPrepared")'
      BY <2>0, <3>3 DEF InstallAt, WriteInstallJournal, InstallSteps, RunningSteps
    <3> QED
      BY <1>0, <3>3, <3>4, <3>5, InstallPoints DEF Goto, InstallSteps
  <2> QED
    BY <2>2, <2>3
<1>3. CASE pc \in InstallSteps
  <2> USE DEF InstallSteps
  <2>0. ijournal # None /\ ijournal \in InstallTransactions /\ journal = None
    BY <1>0, <1>3, NoneAssumption DEF AgentInv, ControlOK, Durable, Accounted
  <2>1. ASSUME NEW ph \in InstallPhases, NEW s \in InstallSteps,
               WriteInstallJournal(At(ijournal, ph)), Goto(s), UNCHANGED <<hostVars, refused>>,
               installed = None => ph \in {"Prepared", "Placed"},
               ph = "Placed" => active = Payload(ijournal.unit),
               s # "iPrepared", s # "iCommit", s # "iClear" => installed = None,
               s = "iClear" => installed # None, s # "iCommitted",
               s \in {"iActivate", "iPlaced"} => ph \in {"Prepared", "Placed"},
               s = "iEnroll" => ph = "Placed",
               s \in {"iPlaced", "iEnroll"} => active = Payload(ijournal.unit)
        PROVE  ProtocolInv'
    <3>1. /\ ijournal' # None /\ ijournal'.unit = ijournal.unit /\ ijournal'.phase = ph
          /\ UNCHANGED <<active, installed, journal, enrolled, bundles, pin, effects>>
      BY <2>0, <2>1, NoneAssumption DEF WriteInstallJournal, At, InstallTransactions, hostVars
    <3>2. HeadOK'
      BY <1>0, <2>0, <3>1 DEF HeadOK
    <3>3. InstallOK'
      BY <1>0, <2>0, <2>1, <3>1 DEF InstallOK
    <3>4. Durable'
      BY <1>0, <2>0, <3>1, <3>2, <3>3 DEF Durable, Explained
    <3>5. InstallAt(s)'
      BY <2>1, <3>1 DEF InstallAt, RunningSteps
    <3> QED
      BY <1>0, <2>1, <3>4, <3>5, InstallPoints DEF Goto
  <2>2. CASE pc = "iPrepared"
    <3>1. installed = None /\ AdvanceInstall("iPrepared", "Started", "Prepared", "iActivate")
      BY <1>0, <2>2 DEF InstallAt, InstallNext, EnsureInstalled, ApplyInstall, PlaceAndCommit,
         ClearInstall, AdvanceInstall
    <3>2. CASE ijournal.phase = "Started"
      <4>1. InstallWriteIsAuthorized(At(ijournal, "Prepared"))
        BY <2>0, <3>2 DEF InstallWriteIsAuthorized, InstallPhaseIsAuthorized, At,
           PermitsInstallReplacement, InstallEdges, InstallTransactions
      <4>2. WriteInstallJournal(At(ijournal, "Prepared")) /\ Goto("iActivate")
            /\ UNCHANGED <<hostVars, refused>>
        BY <3>1, <3>2, <4>1 DEF AdvanceInstall, PersistInstall
      <4> QED
        BY <2>1, <3>1, <4>2 DEF InstallPhases
    <3>3. CASE ijournal.phase # "Started"
      <4>1. ijournal.phase \in {"Prepared", "Placed"}
        BY <1>0, <2>0, <3>1, <3>3 DEF InstallOK, InstallTransactions, InstallPhases
      <4>2. Skip("iActivate")
        BY <3>1, <3>3 DEF AdvanceInstall, Skip
      <4>3. Points("iActivate")
        BY <3>1, <4>1 DEF Points, InstallAt, BootAt, LoopAt, UpdateAt, UpdatePhases, PlanSteps,
           LoopSteps, UpdateSteps, RunningSteps, Starting, Trying
      <4> QED
        BY <4>2, <4>3, SkipPoints
    <3> QED
      BY <3>2, <3>3
  <2>3. CASE pc = "iActivate"
    <3>1. installed = None /\ Activate(Payload(ijournal.unit), "iPlaced")
          /\ ijournal.phase \in {"Prepared", "Placed"}
      BY <1>0, <2>3 DEF InstallAt, InstallNext, EnsureInstalled, ApplyInstall, PlaceAndCommit,
         ClearInstall, AdvanceInstall
    <3>2. CASE Payload(ijournal.unit) \in bundles
      <4>1. PointActive(Payload(ijournal.unit)) /\ Goto("iPlaced") /\ UNCHANGED <<hostVars, refused>>
        BY <3>1, <3>2 DEF Activate
      <4>2. Durable'
        BY <1>0, <2>0, <3>1, <3>2, <4>1 DEF PointActive, hostVars, Durable, HeadOK, InstallOK,
           Explained
      <4>3. InstallAt("iPlaced")'
        BY <3>1, <4>1 DEF PointActive, InstallAt, RunningSteps
      <4> QED
        BY <1>0, <4>1, <4>2, <4>3, InstallPoints DEF Goto
    <3>3. CASE Payload(ijournal.unit) \notin bundles
      BY <3>1, <3>3, FailPoints DEF Activate, Fail
    <3> QED
      BY <3>2, <3>3
  <2>4. CASE pc = "iPlaced"
    <3>1. installed = None /\ AdvanceInstall("iPlaced", "Prepared", "Placed", "iEnroll")
          /\ ijournal.phase \in {"Prepared", "Placed"} /\ active = Payload(ijournal.unit)
      BY <1>0, <2>4 DEF InstallAt, InstallNext, EnsureInstalled, ApplyInstall, PlaceAndCommit,
         ClearInstall, AdvanceInstall
    <3>2. CASE ijournal.phase = "Prepared"
      <4>1. InstallWriteIsAuthorized(At(ijournal, "Placed"))
        BY <2>0, <3>1, <3>2 DEF InstallWriteIsAuthorized, InstallPhaseIsAuthorized, At,
           PermitsInstallReplacement, InstallEdges, InstallTransactions
      <4>2. WriteInstallJournal(At(ijournal, "Placed")) /\ Goto("iEnroll")
            /\ UNCHANGED <<hostVars, refused>>
        BY <3>1, <3>2, <4>1 DEF AdvanceInstall, PersistInstall
      <4> QED
        BY <2>1, <3>1, <4>2 DEF InstallPhases
    <3>3. CASE ijournal.phase # "Prepared"
      <4>1. Skip("iEnroll")
        BY <3>1, <3>3 DEF AdvanceInstall, Skip
      <4>2. Points("iEnroll")
        BY <3>1, <3>3 DEF Points, InstallAt, BootAt, LoopAt, UpdateAt, UpdatePhases, PlanSteps,
           LoopSteps, UpdateSteps, RunningSteps, Starting, Trying
      <4> QED
        BY <4>1, <4>2, SkipPoints
    <3> QED
      BY <3>2, <3>3
  <2>5. CASE pc = "iEnroll"
    <3>1. /\ installed = None /\ ijournal.phase = "Placed" /\ active = Payload(ijournal.unit)
          /\ IF enrolled THEN UNCHANGED storeVars ELSE RecordFirstInstall
          /\ Goto("iCommit") /\ UNCHANGED <<hostVars, refused>>
      BY <1>0, <2>5 DEF InstallAt, InstallNext, EnsureInstalled, ApplyInstall, PlaceAndCommit,
         ClearInstall, AdvanceInstall
    <3>2. enrolled' /\ UNCHANGED <<active, installed, journal, ijournal, bundles, pin, effects>>
      BY <3>1 DEF RecordFirstInstall, storeVars, hostVars
    <3>3. Durable'
      BY <1>0, <2>0, <3>1, <3>2 DEF Durable, HeadOK, InstallOK, Explained
    <3>4. InstallAt("iCommit")'
      BY <3>1, <3>2 DEF InstallAt, RunningSteps
    <3> QED
      BY <1>0, <3>1, <3>3, <3>4, InstallPoints DEF Goto
  <2>6. CASE pc = "iCommit"
    <3> DEFINE next == Provisional(ijournal.unit)
    <3>1. /\ installed = None /\ ijournal.phase = "Placed" /\ active = Payload(ijournal.unit)
          /\ enrolled /\ Commit(next, "iCommitted")
      BY <1>0, <2>6 DEF InstallAt, InstallNext, EnsureInstalled, ApplyInstall, PlaceAndCommit,
         ClearInstall, AdvanceInstall
    <3>2. next \in InstalledStates /\ next.unit = ijournal.unit /\ next.guard = None
          /\ ~next.proven /\ next # None
      <4>1. ijournal.unit \in Deployments
        BY <2>0 DEF InstallTransactions
      <4>2. next \in InstalledStates
        BY <4>1 DEF Provisional, InstalledStates
      <4> QED
        BY <4>2, NoneAssumption DEF Provisional
    <3>3. CommitIsAuthorized(next)
      BY <3>1, <3>2, <2>0 DEF CommitIsAuthorized, ValidInstalled, InstallCommitIsAuthorized,
         InstallCommitted
    <3>4. CommitInstalled(next) /\ Goto("iCommitted") /\ UNCHANGED <<hostVars, refused>>
      BY <3>1, <3>3 DEF Commit
    <3>5. active \in bundles
      BY SMT, <1>0, <2>0, <3>1, PayloadAssumption, NoneAssumption DEF Durable, Payload,
         InstallTransactions, Deployments
    <3>6. HeadOK'
      BY <2>0, <3>1, <3>2, <3>4, <3>5 DEF CommitInstalled, hostVars, HeadOK, ValidInstalled
    <3>7. Durable'
      BY <1>0, <2>0, <3>1, <3>2, <3>4, <3>6 DEF CommitInstalled, hostVars, Durable, InstallOK
    <3>8. InstallAt("iCommitted")'
      BY <3>1, <3>2, <3>4 DEF CommitInstalled, InstallAt, RunningSteps
    <3> QED
      BY <1>0, <3>4, <3>7, <3>8, InstallPoints DEF Goto
  <2>7. CASE pc = "iCommitted"
    <3>1. installed # None /\ AdvanceInstall("iCommitted", "Placed", "Committed", "iClear")
          /\ ijournal.phase = "Placed"
      BY <1>0, <2>7 DEF InstallAt, InstallNext, EnsureInstalled, ApplyInstall, PlaceAndCommit,
         ClearInstall, AdvanceInstall
    <3>2. active = Payload(ijournal.unit) /\ InstallCommitted(ijournal, installed)
      <4>1. installed = Provisional(ijournal.unit) /\ active = Payload(installed.unit)
        BY <1>0, <2>0, <3>1 DEF HeadOK
      <4>2. installed.unit = ijournal.unit /\ ~installed.proven /\ installed.guard = None
        BY SMT, <4>1 DEF Provisional
      <4> QED
        BY <3>1, <4>1, <4>2 DEF InstallCommitted
    <3>3. InstallWriteIsAuthorized(At(ijournal, "Committed"))
      BY <2>0, <3>1, <3>2 DEF InstallWriteIsAuthorized, InstallPhaseIsAuthorized, At,
         PermitsInstallReplacement, InstallEdges, InstallTransactions, InstallCommitted
    <3>4. WriteInstallJournal(At(ijournal, "Committed")) /\ Goto("iClear")
          /\ UNCHANGED <<hostVars, refused>>
      BY <3>1, <3>3 DEF AdvanceInstall, PersistInstall
    <3> QED
      BY <2>1, <3>1, <3>4 DEF InstallPhases
  <2>8. CASE pc = "iClear"
    <3>1. installed # None /\ ClearInstall
      BY <1>0, <2>8 DEF InstallAt, InstallNext, EnsureInstalled, ApplyInstall, PlaceAndCommit,
         ClearInstall, AdvanceInstall
    <3>2. ClearInstallIsAuthorized
      BY SMT, <1>0, <3>1 DEF ClearInstallIsAuthorized, InstallCommitted, HeadOK, Provisional
    <3>3. ClearInstallJournal /\ Goto("verify") /\ UNCHANGED <<hostVars, refused>>
      BY <3>1, <3>2 DEF ClearInstall
    <3>4. Durable'
      BY <1>0, <2>0, <3>1, <3>3 DEF ClearInstallJournal, hostVars, Durable, HeadOK, InstallOK,
         Explained
    <3>5. LoopAt("verify")' /\ ijournal' = None
      BY <3>3 DEF LoopAt, LoopSteps, ClearInstallJournal
    <3> QED
      BY <1>0, <3>3, <3>4, <3>5, LoopPoints DEF Goto
  <2> QED
    BY <1>3, <2>2, <2>3, <2>4, <2>5, <2>6, <2>7, <2>8
<1> QED
  BY <1>1, <1>2, <1>3 DEF InstallNext, PlaceAndCommit, ClearInstall, AdvanceInstall, InstallSteps

\* An attempt's next phase is accounted for when the state is what that phase says.
LEMMA AccountedAt ==
    ASSUME NEW t \in Transactions, NEW ph \in Phases, Accounted(t),
           PhaseEvidenceIsValid(At(t, ph)),
           \/ Before(t) /\ ph # "Committed"
           \/ After(t) /\ ph \notin {"Prepared", "Activated"} /\ (t.reject => ph \in RollbackPhases),
           ph \in OnCandidate => active = Payload(t.cand),
           ph \in OnPredecessor => active = Payload(t.prev),
           ph \in Clean => t.cand.pkg \notin effects,
           ph \notin Spent => pin = t.id
    PROVE  Accounted(At(t, ph))
<1>1. ValidTransaction(At(t, ph))
  BY AtFields DEF ValidTransaction, Accounted
<1> QED
  BY <1>1, AtFields DEF Accounted, IsRollback

\* A step along the edges of the protocol, with the evidence its phase admits.
LEMMA Advances ==
    ASSUME NEW t \in Transactions, ValidTransaction(t), NEW ph \in Phases,
           <<t.phase, ph>> \in ForwardEdges \cup BeginRollbackEdges \cup RollbackEdges,
           t.reject => ph \in {"Activated", "Converged"} \cup RollbackPhases
    PROVE  CanAdvance(t, ph) /\ PhaseEvidenceIsValid(At(t, ph))
<1>1. t.fails # 0 => ph \in {"Restored", "RollbackVerified", "RolledBack"}
  BY DEF ValidTransaction, PhaseEvidenceIsValid, ForwardEdges, BeginRollbackEdges, RollbackEdges
<1>2. PhaseEvidenceIsValid(At(t, ph))
  BY SMT, <1>1, AtFields DEF PhaseEvidenceIsValid
<1> QED
  BY <1>2 DEF CanAdvance

\* The store accepts the next phase of the journal on disk.
LEMMA AdvanceAuthorized ==
    ASSUME journal \in Transactions, Accounted(journal), NEW ph \in Phases,
           CanAdvance(journal, ph),
           ph = "Committed" => /\ After(journal) /\ installed # None
                               /\ active = Payload(journal.cand) /\ ~journal.reject
    PROVE  JournalWriteIsAuthorized(At(journal, ph))
<1> DEFINE n == At(journal, ph)
<1>1. ValidTransaction(n) /\ n.id = journal.id /\ journal # None /\ ijournal = None
  BY AtFields, TransactionFields DEF ValidTransaction, Accounted, CanAdvance
<1>2. PermitsReplacement(journal, n)
  BY AtFields DEF PermitsReplacement
<1>3. ~(journal.phase = "Committed" /\ n.phase = "RollbackPlanned")
  BY AtFields DEF CanAdvance, ForwardEdges, BeginRollbackEdges, RollbackEdges
<1>4. n.phase = "Committed" => active = Payload(n.cand) /\ ForwardCommitIsDurable(n)
  <2>1. n.phase = ph /\ n.cand = journal.cand /\ n.id = journal.id /\ n.prev = journal.prev
        /\ n.reject = journal.reject
    BY AtFields
  <2>2. After(journal) => /\ installed.unit = journal.cand /\ installed.guard # None
                          /\ installed.guard.id = journal.id
                          /\ installed.guard.prev = journal.prev
    BY AccountedHead
  <2> HIDE DEF n
  <2> QED
    BY <2>1, <2>2 DEF ForwardCommitIsDurable, MatchesCandidate, MatchesRollbackGuard
<1> QED
  BY <1>1, <1>2, <1>3, <1>4 DEF JournalWriteIsAuthorized, JournalRewriteIsAuthorized

\* What a journal write that accounts for the state achieves.
Wrote(t, s) ==
    /\ ~refused' /\ ~repaired' /\ Durable'
    /\ pc' = s /\ tx' = t /\ journal' = t
    /\ UNCHANGED <<active, installed, ijournal, rejected, enrolled, plan, hostVars>>

\* A journal write the store accepts, for an attempt that accounts for the state.
LEMMA Persisted ==
    ASSUME ProtocolInv, installed # None, NEW t \in Transactions, NEW s, Persist(t, s),
           JournalWriteIsAuthorized(t), Accounted(t), journal # None => journal.cand = t.cand
    PROVE  Wrote(t, s)
<1>1. WriteJournal(t) /\ pc' = s /\ tx' = t /\ UNCHANGED <<plan, armed, repaired, refused, hostVars>>
  BY DEF Persist
<1>2. Durable'
  BY <1>1, JournalDurable, TransactionFields DEF WriteJournal, hostVars, ProtocolInv
<1> QED
  BY <1>1, <1>2 DEF Wrote, WriteJournal, ProtocolInv

\* The next phase of the open attempt is written, and the store accepts it.
LEMMA Advanced ==
    ASSUME AgentInv, ProtocolInv, installed # None, journal # None,
           NEW ph \in Phases, NEW s, Persist(At(journal, ph), s),
           <<journal.phase, ph>> \in ForwardEdges \cup BeginRollbackEdges \cup RollbackEdges,
           journal.reject => ph \in {"Activated", "Converged"} \cup RollbackPhases,
           After(journal) => ph \notin {"Prepared", "Activated", "Converged", "Verified"},
           ph = "Committed" => After(journal) /\ ~journal.reject,
           ph \in OnCandidate => active = Payload(journal.cand),
           ph \in OnPredecessor => active = Payload(journal.prev),
           ph \in Clean => journal.cand.pkg \notin effects
    PROVE  Wrote(At(journal, ph), s)
<1>1. journal \in Transactions /\ Accounted(journal) /\ ValidTransaction(journal)
  BY DEF AgentInv, TypeOK, StoreTypeOK, ProtocolInv, Durable, Accounted
<1>2. CanAdvance(journal, ph) /\ PhaseEvidenceIsValid(At(journal, ph))
  BY <1>1, Advances
<1>3. journal.phase \notin Spent
  BY <1>2 DEF CanAdvance, Spent, ForwardEdges, BeginRollbackEdges, RollbackEdges
<1>4. Accounted(At(journal, ph))
  <2>1. \/ Before(journal) /\ ph # "Committed"
        \/ /\ After(journal) /\ ph \notin {"Prepared", "Activated"}
           /\ journal.reject => ph \in RollbackPhases
    BY <1>1, AccountedHead DEF OnCandidate
  <2>2. pin = journal.id
    BY <1>1, <1>3 DEF Accounted
  <2> QED
    BY <1>1, <1>2, <2>1, <2>2, AccountedAt
<1>5. JournalWriteIsAuthorized(At(journal, ph))
  BY <1>1, <1>2, AdvanceAuthorized DEF OnCandidate
<1> QED
  BY <1>1, <1>4, <1>5, Persisted, AtFields

\* The rollback of a guarded head accounts for the state, and the store accepts it.
LEMMA GuardedRollback ==
    ASSUME AgentInv, ProtocolInv, installed # None, installed.guard # None, journal = None,
           ijournal = None, active \in {Payload(installed.unit), Payload(installed.guard.prev)},
           NEW r \in BOOLEAN
    PROVE  LET t == RollbackOfGuarded(r)
           IN /\ t \in Transactions /\ Accounted(t) /\ JournalWriteIsAuthorized(t)
              /\ IsRollback(t) /\ t.phase = "RollbackPlanned" /\ t.reject = r
              /\ t.prev = installed.guard.prev /\ t.cand = installed.unit
<1> DEFINE t == RollbackOfGuarded(r)
<1>1. /\ installed \in InstalledStates /\ HeadOK /\ installed.unit \in Deployments
      /\ installed.guard \in Guards /\ installed.guard.id \in Ids
      /\ installed.guard.prev \in Deployments
  BY DEF AgentInv, TypeOK, StoreTypeOK, InstalledStates, Guards, ProtocolInv, Durable
<1>2. t \in Transactions
  BY SMT, <1>1, FailuresAssumption DEF RollbackOfGuarded, Transactions, Phases, RollbackPhases
<1>3. /\ t.id = installed.guard.id /\ t.prev = installed.guard.prev /\ t.cand = installed.unit
      /\ t.reject = r /\ t.fails = 0 /\ t.phase = "RollbackPlanned"
  BY DEF RollbackOfGuarded
<1>4. ValidTransaction(t) /\ IsRollback(t)
  BY <1>1, <1>3 DEF ValidTransaction, PhaseEvidenceIsValid, IsRollback, RollbackPhases, HeadOK,
     ValidInstalled
<1>5. After(t)
  <2>1. installed.proven
    BY <1>1 DEF HeadOK, ValidInstalled
  <2>2. [id |-> t.id, prev |-> t.prev] = installed.guard
    BY <1>1, <1>3 DEF Guards
  <2> QED
    BY <1>1, <1>3, <2>1, <2>2 DEF After, GuardedHead, InstalledStates
<1>6. Accounted(t)
  BY <1>1, <1>3, <1>4, <1>5 DEF Accounted, HeadOK, OnCandidate, OnPredecessor, Clean
<1>7. JournalWriteIsAuthorized(t)
  BY <1>3, <1>4 DEF JournalWriteIsAuthorized, JournalStartIsAuthorized, MatchesCandidate,
     PendingAuthorizesRollbackJournal, MatchesRollbackGuard
<1> HIDE DEF t
<1> QED
  BY <1>2, <1>3, <1>4, <1>6, <1>7 DEF t

\* What the durable situation makes of an open attempt.
LEMMA Recovery ==
    ASSUME AgentInv, ProtocolInv, installed # None, journal # None
    PROVE  /\ Idles(journal) /\ ~IsRollback(journal) /\ After(journal) =>
                JournalRecovery = "Committed" /\ ~PredecessorIsActive
           /\ Idles(journal) /\ ~After(journal) => JournalRecovery = "NeverSwapped"
           /\ journal.phase = "RolledBack" => JournalRecovery = "NeverSwapped"
           /\ ~Idles(journal) => JournalRecovery = "RestorePredecessor" /\ DrivesRollback(journal)
<1> DEFINE t == journal
<1>1. t \in Transactions /\ Accounted(t) /\ ValidTransaction(t) /\ t.phase \in Phases
  BY TransactionFields DEF AgentInv, TypeOK, StoreTypeOK, ProtocolInv, Durable, Accounted
<1>2. MatchesCandidate(t, installed) <=> After(t)
  BY <1>1, AccountedHead DEF MatchesCandidate
<1> USE DEF OnCandidate, OnPredecessor, RollbackPhases, IsRollback
<1>3. CASE t.phase \in {"Converged", "Verified", "Committed"} /\ After(t)
  <2>1. active = Payload(t.cand) /\ installed.unit = t.cand
    BY <1>1, <1>3, AccountedHead DEF Accounted
  <2>2. JournalRecovery = "Committed" /\ ~PredecessorIsActive
    BY <1>2, <1>3, <2>1 DEF JournalRecovery, ClassifyRecovery, PredecessorIsActive
  <2> QED
    BY <1>3, <2>2 DEF Idles
<1>4. CASE t.phase = "Prepared" /\ active = Payload(t.prev)
  <2>1. JournalRecovery = "NeverSwapped" /\ ~After(t)
    BY <1>1, <1>4, AccountedHead DEF JournalRecovery, ClassifyRecovery, Accounted
  <2> QED
    BY <1>4, <2>1 DEF Idles
<1>5. CASE t.phase = "RolledBack"
  <2>1. active = Payload(t.prev)
    BY <1>1, <1>5 DEF Accounted
  <2> QED
    BY <1>5, <2>1 DEF JournalRecovery, ClassifyRecovery, Idles
<1>6. CASE ~Idles(t)
  <2>1. DrivesRollback(t)
    <3>1. CASE IsRollback(t)
      BY SMT, <1>6, <3>1, Ranks DEF DrivesRollback, Idles
    <3>2. CASE ~IsRollback(t)
      <4>1. t.phase \in {"Prepared", "Activated", "Converged", "Verified"}
        BY <1>1, <1>6, <3>2 DEF Idles, Phases, ForwardPhases, Accounted
      <4>2. <<t.phase, "RollbackPlanned">> \in BeginRollbackEdges
        BY <4>1 DEF BeginRollbackEdges
      <4> QED
        BY <1>1, <3>2, <4>2, Advances DEF DrivesRollback, Phases
    <3> QED
      BY <3>1, <3>2
  <2>2. ClassifyRecovery(t, active, installed) = "RestorePredecessor"
    BY <1>2, <1>6 DEF ClassifyRecovery, Idles
  <2>3. JournalRecovery = "RestorePredecessor"
    BY <2>1, <2>2 DEF JournalRecovery
  <2> QED
    BY <1>6, <2>1, <2>3 DEF Idles
<1> QED
  BY <1>3, <1>4, <1>5, <1>6 DEF Idles

\* The boot plan fits the durable state, whatever the crash left behind.
LEMMA PlanProtocol ==
    ASSUME AgentInv, ProtocolInv, MakePlan
    PROVE  ProtocolInv'
<1> USE DEF PlanSteps
<1>0. /\ pc = "plan" /\ installed # None /\ ijournal = None /\ ~refused /\ ~repaired /\ Durable
      /\ installed \in InstalledStates /\ HeadOK /\ UNCHANGED hostVars
      /\ journal \in Transactions \cup {None}
  BY DEF MakePlan, AgentInv, ControlOK, RunningSteps, Steps, BootSteps, InstallSteps, ProtocolInv,
     Points, InstallAt, TypeOK, StoreTypeOK, Durable
<1>1. CASE RecoveryTransaction = None
  <2>1. /\ tx' = None /\ plan' = PlanBoot /\ pc' = "compensate"
        /\ UNCHANGED <<storeVars, repaired, refused>>
    BY <1>1 DEF MakePlan
  <2>2. Durable'
    BY <1>0, <2>1, QuietDurable DEF storeVars, hostVars, Recorded
  <2>3. CASE journal = None
    <3>1. ~PredecessorIsActive
      BY <1>0, <1>1, <2>3, GuardedRollback, NoneAssumption DEF RecoveryTransaction,
         PredecessorIsActive
    <3>2. /\ ~plan'.defer /\ ~plan'.clear /\ plan'.commit = None
          /\ plan'.act = IF active = Payload(installed.unit) THEN None ELSE Payload(installed.unit)
      BY <1>1, <2>1, <2>3, <3>1 DEF PlanBoot, EnforceInstalled
    <3>3. Payload(installed.unit) # None
      BY SMT, <1>0, PayloadAssumption, NoneAssumption DEF Payload, InstalledStates, Deployments
    <3>4. Plain("compensate")'
      BY <2>1, <2>3, <3>2, <3>3 DEF Plain, storeVars, Early
    <3>5. VerdictAt("compensate")'
      BY <2>1, <2>3 DEF VerdictAt, storeVars
    <3> QED
      BY <1>0, <2>1, <2>2, <3>4, <3>5, BootPoints DEF storeVars
  <2>4. CASE journal # None
    <3>0. journal \in Transactions /\ Accounted(journal)
      BY <1>0, <2>4 DEF Durable
    <3>1. Idles(journal)
      BY <1>0, <1>1, <2>4, <3>0, Recovery, TransactionFields DEF RecoveryTransaction
    <3>2. /\ JournalRecovery \in {"Committed", "NeverSwapped"}
          /\ JournalRecovery = "Committed" => /\ ~PredecessorIsActive /\ ~IsRollback(journal)
                                              /\ active = Payload(installed.unit)
      <4>1. After(journal) => installed.unit = journal.cand
        BY <3>0, AccountedHead
      <4>2. CASE After(journal) /\ journal.phase # "RolledBack"
        <5>1. journal.phase \in {"Converged", "Verified", "Committed"}
          BY <3>0, <3>1, <4>2, AccountedHead DEF Idles, Accounted
        <5>2. active = Payload(journal.cand) /\ ~IsRollback(journal)
          BY <3>0, <5>1 DEF Accounted, IsRollback, RollbackPhases, OnCandidate
        <5> QED
          BY <1>0, <2>4, <3>1, <4>1, <4>2, <5>2, Recovery
      <4>3. CASE ~After(journal) \/ journal.phase = "RolledBack"
        BY <1>0, <2>4, <3>0, <3>1, <4>3, Recovery
      <4> QED
        BY <4>2, <4>3
    <3>3. /\ ~plan'.defer /\ plan'.clear /\ plan'.act = None
          /\ plan'.commit = IF IsRollback(journal) THEN Proven(journal.prev) ELSE None
          /\ plan'.reject = IF journal.reject THEN journal.cand ELSE None
      BY <1>1, <2>1, <2>4, <3>2 DEF PlanBoot, EnforceInstalled, ReconcileTransaction
    <3>4. UNCHANGED <<active, installed, journal, ijournal>>
      BY <2>1 DEF storeVars
    <3>5. Plain("compensate")'
      BY <2>4, <3>1, <3>3, <3>4 DEF Plain, Early, Idles, After
    <3>6. VerdictAt("compensate")'
      BY <3>3, <3>4 DEF VerdictAt, Early
    <3> QED
      BY <1>0, <2>1, <2>2, <3>4, <3>5, <3>6, BootPoints
  <2> QED
    BY <2>3, <2>4
<1>2. CASE RecoveryTransaction # None /\ journal = None
  <2> DEFINE t == RollbackOfGuarded(FALSE)
  <2>1. PredecessorIsActive /\ RecoveryTransaction = t
    BY <1>2 DEF RecoveryTransaction
  <2>2. /\ t \in Transactions /\ Accounted(t) /\ JournalWriteIsAuthorized(t) /\ IsRollback(t)
        /\ t.phase = "RollbackPlanned" /\ ~t.reject /\ t.prev = installed.guard.prev
        /\ t.cand = installed.unit
    BY <1>0, <1>2, <2>1, GuardedRollback DEF PredecessorIsActive
  <2> HIDE DEF t
  <2>3. t # None
    BY <2>2, TransactionFields
  <2>4. /\ tx' = t /\ plan' = PlanBoot /\ pc' = "compensate" /\ WriteJournal(t)
        /\ UNCHANGED <<repaired, refused>>
    BY <1>2, <2>1, <2>2, <2>3 DEF MakePlan
  <2>5. journal' = t /\ UNCHANGED <<active, installed, ijournal, enrolled, bundles, pin, effects>>
    BY <1>0, <2>4 DEF WriteJournal, hostVars
  <2>6. Durable'
    BY <1>0, <1>2, <2>2, <2>3, <2>5, JournalDurable
  <2>7. /\ plan'.act = Payload(t.prev) /\ plan'.commit = Proven(t.prev) /\ plan'.defer
    BY <1>2, <2>1, <2>2, <2>3, <2>4 DEF PlanBoot, CompletePendingRollback
  <2>8. Driving("compensate")'
    <3>1. DrivePhases("compensate")'
      BY <2>2, <2>4 DEF DrivePhases
    <3>2. tx' = journal' /\ IsRollback(tx') /\ plan'.commit # None
      BY <2>2, <2>4, <2>5, <2>7, HeadFields
    <3> QED
      BY <2>4, <2>7, <3>1, <3>2 DEF Driving
  <2>9. VerdictAt("compensate")'
    BY <2>2, <2>5 DEF VerdictAt
  <2> QED
    BY <1>0, <2>3, <2>4, <2>5, <2>6, <2>8, <2>9, BootPoints
<1>3. CASE RecoveryTransaction # None /\ journal # None
  <2> DEFINE t == IF IsRollback(journal) THEN journal ELSE At(journal, "RollbackPlanned")
  <2>0. journal \in Transactions /\ Accounted(journal) /\ ValidTransaction(journal)
    BY <1>0, <1>3 DEF Durable, Accounted
  <2>1. ~Idles(journal)
    <3>1. SUFFICES ASSUME Idles(journal) PROVE FALSE
      OBVIOUS
    <3>2. CASE After(journal) /\ journal.phase # "RolledBack"
      <4>1. journal.phase \in {"Converged", "Verified", "Committed"}
        BY <2>0, <3>1, <3>2, AccountedHead DEF Idles, Accounted
      <4> QED
        BY <1>0, <1>3, <3>1, <3>2, <4>1, Recovery DEF RecoveryTransaction, IsRollback,
           RollbackPhases
    <3>3. CASE ~After(journal) \/ journal.phase = "RolledBack"
      BY <1>0, <1>3, <3>1, <3>3, Recovery DEF RecoveryTransaction
    <3> QED
      BY <3>2, <3>3
  <2>2. RecoveryTransaction = journal /\ JournalRecovery = "RestorePredecessor"
    BY <1>0, <1>3, <2>1, Recovery DEF RecoveryTransaction
  <2>3. /\ t \in Transactions /\ IsRollback(t) /\ t.prev = journal.prev /\ t.cand = journal.cand
        /\ t.reject = journal.reject /\ t.phase # "RolledBack" /\ t # None
    BY SMT, <2>0, <2>1, AtFields, TransactionFields DEF IsRollback, RollbackPhases, Phases, Idles
  <2>4. Accounted(t) /\ (journal # t => JournalWriteIsAuthorized(t))
    <3>1. CASE IsRollback(journal)
      BY <2>0, <3>1
    <3>2. CASE ~IsRollback(journal)
      <4>1. journal.phase \in {"Prepared", "Activated", "Converged", "Verified"}
        BY <2>0, <2>1, <3>2, TransactionFields DEF Idles, Phases, ForwardPhases, IsRollback, Accounted
      <4>2. <<journal.phase, "RollbackPlanned">> \in BeginRollbackEdges
        BY <4>1 DEF BeginRollbackEdges
      <4>3. "RollbackPlanned" \in Phases /\ "RollbackPlanned" \in RollbackPhases
        BY DEF Phases, RollbackPhases
      <4>4. /\ CanAdvance(journal, "RollbackPlanned")
            /\ PhaseEvidenceIsValid(At(journal, "RollbackPlanned"))
        BY <2>0, <4>2, <4>3, Advances
      <4>5. JournalWriteIsAuthorized(At(journal, "RollbackPlanned"))
        BY <2>0, <4>3, <4>4, AdvanceAuthorized
      <4>6. Before(journal) /\ pin = journal.id
        BY <2>0, <2>1, <4>1 DEF Accounted, Idles, Spent
      <4>7. Accounted(At(journal, "RollbackPlanned"))
        BY <2>0, <4>3, <4>4, <4>6, AccountedAt DEF OnCandidate, OnPredecessor, Clean
      <4> QED
        BY <3>2, <4>5, <4>7
    <3> QED
      BY <3>1, <3>2
  <2>5. t.prev = journal.prev /\ (~IsRollback(journal) => Before(journal))
    BY <2>0, <2>1, <2>3, TransactionFields DEF Accounted, Idles, IsRollback, Phases, ForwardPhases
  <2>6. /\ tx' = t /\ plan' = PlanBoot /\ pc' = "compensate" /\ UNCHANGED <<repaired, refused>>
        /\ IF journal = t THEN UNCHANGED storeVars ELSE WriteJournal(t)
    BY <1>3, <2>2, <2>4 DEF MakePlan
  <2>7. /\ plan'.act = Payload(t.prev) /\ plan'.clear
        /\ plan'.commit = IF IsRollback(journal) THEN Proven(t.prev) ELSE None
        /\ plan'.defer <=> IsRollback(journal)
        /\ plan'.reject = IF t.reject THEN t.cand ELSE None
    BY <1>3, <2>2, <2>3, <2>6 DEF PlanBoot, ReconcileTransaction
  <2> HIDE DEF t
  <2>8. /\ journal' = t
        /\ UNCHANGED <<active, installed, ijournal, enrolled, bundles, pin, effects>>
    BY <1>0, <2>6 DEF WriteJournal, storeVars, hostVars
  <2>9. Durable'
    BY <1>0, <2>3, <2>4, <2>8, JournalDurable
  <2>10. Driving("compensate")'
    <3>1. Proven(t.prev) # None
      BY <2>3, HeadFields
    <3>2. ~IsRollback(journal) => installed' = Proven(t.prev)
      BY <2>3, <2>5, <2>8 DEF Before
    <3> QED
      BY <2>3, <2>6, <2>7, <2>8, <3>1, <3>2 DEF Driving, DrivePhases, Before
  <2>11. VerdictAt("compensate")'
    BY <2>7, <2>8 DEF VerdictAt, Early
  <2> QED
    BY <1>0, <2>3, <2>6, <2>8, <2>9, <2>10, <2>11, BootPoints
<1> QED
  BY <1>1, <1>2, <1>3

\* What a boot knows once its plan is made.
LEMMA AtBoot ==
    ASSUME AgentInv, ProtocolInv, pc \in PlanSteps
    PROVE  /\ installed # None /\ installed \in InstalledStates /\ HeadOK /\ Durable
           /\ ijournal = None /\ ~refused /\ ~repaired /\ VerdictAt(pc)
           /\ journal # None => journal \in Transactions /\ Accounted(journal)
           /\ tx = None => Plain(pc)
           /\ tx # None => /\ Driving(pc) /\ tx = journal /\ tx \in Transactions
                           /\ Accounted(tx) /\ IsRollback(tx)
<1>1. pc \in RunningSteps
  BY DEF PlanSteps, RunningSteps, Steps, BootSteps, InstallSteps
<1>2. BootAt(pc) /\ InstallAt(pc) /\ Durable /\ HeadOK /\ ~refused /\ ~repaired
  BY DEF ProtocolInv, Points, Durable
<1>3. VerdictAt(pc) /\ (tx = None => Plain(pc)) /\ (tx # None => Driving(pc))
  BY <1>2 DEF BootAt
<1>4. ijournal = None
  BY <1>1, <1>2 DEF InstallAt
<1>5. tx # None => tx = journal /\ IsRollback(tx)
  BY <1>3 DEF Driving
<1> QED
  BY <1>1, <1>2, <1>3, <1>4, <1>5 DEF Durable, AgentInv, ControlOK, TypeOK, StoreTypeOK

\* The rollback's journal was rewritten and the boot goes on driving it.
LEMMA DriveOn ==
    ASSUME AgentInv, ProtocolInv, pc \in PlanSteps, tx # None,
           NEW u \in Transactions, u.prev = tx.prev, u.cand = tx.cand, u.reject = tx.reject,
           IsRollback(u),
           NEW s \in {"activate", "gate", "settle", "report", "rolledBack", "finalCommit"},
           Wrote(u, s), DrivePhases(s)', pc \in Early <=> s \in Early
    PROVE  ProtocolInv'
<1>1. Driving(pc) /\ tx = journal /\ VerdictAt(pc) /\ ijournal = None
  BY AtBoot
<1>2. /\ tx' = u /\ journal' = u /\ u # None /\ plan' = plan /\ installed' = installed
      /\ rejected' = rejected /\ ijournal' = None
  BY <1>1, TransactionFields DEF Wrote
<1>3. Driving(s)'
  BY <1>1, <1>2 DEF Driving, Before
<1>4. VerdictAt(s)'
  BY <1>1, <1>2 DEF VerdictAt, RejectionIsDurable
<1> QED
  BY <1>2, <1>3, <1>4, BootPoints DEF Wrote, PlanSteps

\* The boot goes on with the plan it made, over the same journal and record.
LEMMA BootSkip ==
    ASSUME AgentInv, ProtocolInv, pc \in PlanSteps, NEW s \in PlanSteps, Skip(s),
           pc \in Early <=> s \in Early,
           tx # None => Driving(s), tx = None => Plain(s)
    PROVE  ProtocolInv'
<1>1. VerdictAt(s) /\ ijournal = None
  BY AtBoot DEF VerdictAt
<1>2. Points(s)
  BY <1>1, BootOwes
<1> QED
  BY <1>2, SkipPoints

\* A hook of the boot completed, or failed, and the boot goes on or the host reboots.
LEMMA BootHook ==
    ASSUME AgentInv, ProtocolInv, pc \in PlanSteps, NEW after,
           NEW s \in PlanSteps \ {"compensate"}, HookCompletes(after, s) \/ HookFaults(after, s),
           pc \in Early <=> s \in Early,
           \A p \in after :
              \/ p \in effects
              \/ /\ installed # None /\ Explained(p)
                 /\ journal # None /\ journal.phase \in Clean => p # journal.cand.pkg,
           s = "compensated" => tx # None /\ tx.cand.pkg \notin after,
           tx # None /\ s # "compensated" => Driving(s),
           tx # None /\ s = "compensated" => Driving("compensate") /\ tx.phase = "RollbackPlanned",
           tx = None => Plain(s)
    PROVE  ProtocolInv'
<1>1. /\ effects' = after /\ pc' \in {s, "rebooting"}
      /\ UNCHANGED <<active, installed, journal, ijournal, rejected, enrolled, condemned, heads,
                     bundles, pin, tx, plan, armed, repaired, refused>>
  BY DEF HookCompletes, HookFaults, Goto, storeVars
<1>2. Durable' /\ ~refused' /\ ~repaired'
  BY <1>1, HookDurable DEF ProtocolInv, Recorded
<1>3. VerdictAt(s)' /\ ijournal' = None
  BY <1>1, AtBoot DEF VerdictAt, RejectionIsDurable
<1>4. tx' = None => Plain(s)'
  BY <1>1 DEF Plain, Idles, Before, After
<1>5. tx' # None => Driving(s)'
  BY <1>1 DEF Driving, DrivePhases, Before
<1> QED
  BY <1>1, <1>2, <1>3, <1>4, <1>5, BootPoints, ParkedPoints DEF Parked

\* The candidate is compensated before anything is undone, and it is recorded.
LEMMA CompensationProtocol ==
    ASSUME Calm, AgentInv, ProtocolInv, CompensateCandidate \/ RecordCompensation
    PROVE  ProtocolInv'
<1> USE DEF PlanSteps, Early
<1>1. CASE CompensateCandidate
  <2>0. pc = "compensate"
    BY <1>1 DEF CompensateCandidate
  <2>1. CASE tx = None
    <3>1. Skip("activate") /\ Plain("compensate")
      BY <1>1, <2>0, <2>1, AtBoot DEF CompensateCandidate, Pending
    <3>2. Plain("activate")
      BY <3>1 DEF Plain
    <3> QED
      BY <2>0, <2>1, <3>1, <3>2, BootSkip
  <2>2. CASE tx # None
    <3>0. Driving("compensate") /\ IsRollback(tx) /\ tx \in Transactions /\ tx.phase # "RolledBack"
      BY <2>0, <2>2, AtBoot DEF Driving, DrivePhases
    <3>1. CASE tx.phase = "RollbackPlanned"
      <4>1. \/ HookCompletes(effects \ {tx.cand.pkg}, "compensated")
            \/ HookIsInconclusive(effects)
        BY <1>1, <2>2, <3>0, <3>1, Ranks DEF CompensateCandidate, Pending
      <4>2. CASE HookCompletes(effects \ {tx.cand.pkg}, "compensated")
        BY <2>0, <2>2, <3>0, <3>1, <4>2, BootHook
      <4>3. CASE HookIsInconclusive(effects)
        BY <4>3, InconclusivePoints
      <4> QED
        BY <4>1, <4>2, <4>3
    <3>2. CASE tx.phase # "RollbackPlanned"
      <4>1. Skip("activate")
        BY <1>1, <2>2, <3>0, <3>2, Ranks DEF CompensateCandidate, Pending
      <4>2. Driving("activate")
        BY <3>0, <3>2 DEF Driving, DrivePhases, IsRollback, RollbackPhases
      <4> QED
        BY <2>0, <2>2, <4>1, <4>2, BootSkip
    <3> QED
      BY <3>1, <3>2
  <2> QED
    BY <2>1, <2>2
<1>2. CASE RecordCompensation
  <2>0. pc = "compensated" /\ tx # None
    BY <1>2 DEF RecordCompensation, AgentInv, ControlOK, TxSteps
  <2>1. /\ tx = journal /\ tx \in Transactions /\ tx.phase = "RollbackPlanned" /\ installed # None
        /\ tx.cand.pkg \notin effects /\ journal # None
    BY <2>0, AtBoot DEF Driving, DrivePhases
  <2> DEFINE u == At(tx, "CandidateCompensated")
             s == IF reboot THEN "rebooting" ELSE "activate"
  <2>2. Persist(u, s)
    BY <1>2 DEF RecordCompensation, StalledAdvance, Calm
  <2>3. Wrote(u, s)
    BY <2>1, <2>2, Advanced DEF Phases, RollbackPhases, RollbackEdges, OnCandidate, OnPredecessor
  <2>4. /\ u \in Transactions /\ u.prev = tx.prev /\ u.cand = tx.cand /\ u.reject = tx.reject
        /\ u.phase = "CandidateCompensated"
    BY <2>1, AtFields DEF Phases, RollbackPhases
  <2> HIDE DEF u
  <2>5. CASE reboot
    BY <2>3, <2>5, ParkedPoints DEF Wrote, Parked
  <2>6. CASE ~reboot
    <3>1. DrivePhases("activate")'
      BY <2>3, <2>4 DEF Wrote, DrivePhases
    <3>2. IsRollback(u)
      BY <2>4 DEF IsRollback, RollbackPhases
    <3> QED
      BY <2>0, <2>3, <2>4, <2>6, <3>1, <3>2, DriveOn
  <2> QED
    BY <2>5, <2>6
<1> QED
  BY <1>1, <1>2

\* The boot moves the pointer, the record and the ledger as its plan says.
LEMMA ExecuteProtocol ==
    ASSUME AgentInv, ProtocolInv, ExecuteBootPlan
    PROVE  ProtocolInv'
<1> USE DEF PlanSteps
<1>0. pc \in PlanSteps /\ pc \in {"activate", "commit", "reject"}
  BY DEF ExecuteBootPlan
<1>1. CASE pc = "activate" /\ tx = None
  <2>0. Plain("activate") /\ HeadOK /\ installed # None /\ installed \in InstalledStates
        /\ ijournal = None /\ VerdictAt("activate") /\ ~refused /\ ~repaired /\ Durable
    BY <1>1, AtBoot
  <2>1. Payload(installed.unit) # None /\ Payload(installed.unit) \in bundles
    <3>1. installed.unit.pkg \in Packages
      BY <2>0 DEF InstalledStates, Deployments
    <3> QED
      BY <2>0, <3>1, PayloadAssumption, NoneAssumption DEF Payload, HeadOK
  <2>2. CASE plan.act # None
    <3>1. plan.act = Payload(installed.unit) /\ journal = None
      BY <2>0, <2>2 DEF Plain
    <3>2. PointActive(Payload(installed.unit)) /\ Goto("commit") /\ UNCHANGED <<hostVars, refused>>
      BY <1>1, <2>1, <2>2, <3>1 DEF ExecuteBootPlan, Activate
    <3>3. Durable'
      BY <2>0, <2>1, <3>1, <3>2, PointDurable DEF PointActive, hostVars
    <3>4. Plain("commit")'
      BY <2>0, <3>1, <3>2 DEF Plain, PointActive, Goto
    <3>5. VerdictAt("commit")'
      BY <3>1, <3>2 DEF VerdictAt, PointActive
    <3> QED
      BY <1>1, <2>0, <3>2, <3>3, <3>4, <3>5, BootPoints DEF PointActive, Goto
  <2>3. CASE plan.act = None
    <3>1. Skip("commit")
      BY <1>1, <2>3 DEF ExecuteBootPlan
    <3>2. journal # None /\ ~IsRollback(journal) => active = Payload(installed.unit)
      <4>1. SUFFICES ASSUME journal # None, ~IsRollback(journal)
                     PROVE  active = Payload(installed.unit)
        OBVIOUS
      <4>2. journal \in Transactions /\ Accounted(journal) /\ Idles(journal)
        BY <1>0, <2>0, <4>1, AtBoot DEF Plain
      <4> QED
        BY <4>1, <4>2, AccountedHead DEF Idles, Accounted, OnCandidate, IsRollback, RollbackPhases
    <3>3. Plain("commit")
      BY <2>0, <2>3, <3>2 DEF Plain, Early
    <3> QED
      BY <1>1, <3>1, <3>3, BootSkip DEF Early
  <2> QED
    BY <2>2, <2>3
<1>2. CASE pc = "activate" /\ tx # None
  <2>0. /\ Driving("activate") /\ HeadOK /\ installed # None /\ Durable /\ ijournal = None
        /\ tx \in Transactions /\ Accounted(tx) /\ IsRollback(tx) /\ tx = journal
        /\ ~refused /\ ~repaired /\ VerdictAt("activate")
    BY <1>2, AtBoot
  <2>1. /\ tx.phase \in {"CandidateCompensated", "Restored", "RollbackVerified"}
        /\ plan.act = Payload(tx.prev) /\ plan.act # None /\ Payload(tx.prev) \in bundles
    BY <2>0, TransactionFields DEF Driving, DrivePhases, Accounted
  <2>2. CASE tx.phase = "CandidateCompensated"
    <3>1. PointActive(Payload(tx.prev)) /\ Goto("commit") /\ UNCHANGED <<hostVars, refused>>
      BY <1>2, <2>0, <2>1, <2>2, Ranks DEF ExecuteBootPlan, Activate, Pending
    <3>2. Durable'
      BY <2>0, <2>1, <2>2, <3>1, PointDurable DEF PointActive, hostVars, OnCandidate
    <3>3. Driving("commit")'
      BY <2>0, <2>1, <3>1 DEF Driving, DrivePhases, PointActive, Goto, Before
    <3>4. VerdictAt("commit")'
      BY <2>0, <3>1 DEF VerdictAt, PointActive, Goto, Early
    <3> QED
      BY <1>2, <2>0, <3>1, <3>2, <3>3, <3>4, BootPoints DEF PointActive, Goto
  <2>3. CASE tx.phase # "CandidateCompensated"
    <3>1. Skip("commit")
      BY <1>2, <2>0, <2>1, <2>3, Ranks DEF ExecuteBootPlan, Pending
    <3>2. Driving("commit")
      BY <2>0, <2>1, <2>3 DEF Driving, DrivePhases, Accounted, OnPredecessor
    <3> QED
      BY <1>2, <3>1, <3>2, BootSkip DEF Early
  <2> QED
    BY <2>2, <2>3
<1>3. CASE pc = "commit" /\ plan.commit # None /\ ~plan.defer
  <2>0. Plain("commit") /\ tx = None /\ installed # None /\ Durable /\ ijournal = None
        /\ ~refused /\ ~repaired /\ VerdictAt("commit")
    BY <1>3, AtBoot DEF Driving
  <2>1. /\ journal # None /\ journal \in Transactions /\ Accounted(journal) /\ IsRollback(journal)
        /\ journal.phase = "RolledBack" /\ plan.commit = Proven(journal.prev)
    BY <1>0, <1>3, <2>0, AtBoot DEF Plain, Idles, IsRollback, RollbackPhases
  <2>2. CommitInstalled(Proven(journal.prev)) /\ Goto("reject") /\ UNCHANGED <<hostVars, refused>>
    BY <1>3, <2>0, <2>1, BackAuthorized DEF ExecuteBootPlan, Commit
  <2>3. /\ installed' = Proven(journal.prev) /\ tx' = None /\ plan' = plan /\ repaired' = repaired
        /\ UNCHANGED <<active, journal, ijournal, rejected, enrolled, bundles, pin, effects>>
    BY <2>0, <2>2 DEF CommitInstalled, hostVars, Goto
  <2>4. Durable' /\ Before(journal)'
    BY <2>0, <2>1, <2>3, CommitBack
  <2>5. Plain("reject")'
    <3>1. Idles(journal)'
      BY <2>1, <2>3 DEF Idles
    <3>2. plan.act = None
      BY <2>0, <2>1 DEF Plain
    <3> QED
      BY <2>0, <2>1, <2>3, <2>4, <3>1, <3>2 DEF Plain, Early
  <2>6. VerdictAt("reject")'
    BY <2>0, <2>3 DEF VerdictAt, Early
  <2> QED
    BY SMT, <2>0, <2>2, <2>3, <2>4, <2>5, <2>6, BootPoints DEF Goto
<1>4. CASE pc = "commit" /\ (plan.commit = None \/ plan.defer)
  <2>1. Skip("reject")
    BY <1>4 DEF ExecuteBootPlan
  <2>2. tx # None => Driving("reject")
    BY <1>4, AtBoot DEF Driving, DrivePhases
  <2>3. tx = None => Plain("reject")
    <3>1. SUFFICES ASSUME tx = None PROVE Plain("reject")
      OBVIOUS
    <3>2. Plain("commit") /\ (journal # None => journal \in Transactions)
      BY <1>4, <3>1, AtBoot
    <3>3. journal # None => ~IsRollback(journal)
      BY <1>4, <3>2, HeadFields DEF Plain
    <3> QED
      BY <3>2, <3>3 DEF Plain, Early
  <2> QED
    BY <1>4, <2>1, <2>2, <2>3, BootSkip DEF Early
<1>5. CASE pc = "reject"
  <2>0. /\ Durable /\ ijournal = None /\ ~refused /\ ~repaired /\ VerdictAt("reject")
        /\ journal # None => journal.cand # None
        /\ tx = None => Plain("reject")
        /\ tx # None => Driving("reject")
    BY <1>5, AtBoot, TransactionFields
  <2>1. /\ IF plan.reject = None THEN UNCHANGED storeVars ELSE Reject("deployment", plan.reject)
        /\ pc' = IF tx = None THEN "converge" ELSE "restore"
        /\ UNCHANGED <<tx, plan, repaired, hostVars, refused>>
    BY <1>5 DEF ExecuteBootPlan
  <2>2. /\ UNCHANGED <<active, installed, journal, ijournal, enrolled, bundles, pin, effects>>
        /\ rejected \subseteq rejected'
        /\ plan.reject # None => <<"deployment", plan.reject>> \in rejected'
    BY <2>1 DEF Reject, storeVars, hostVars
  <2>3. Durable'
    BY <2>0, <2>2, QuietDurable DEF Recorded
  <2>4. VerdictAt(pc)'
    BY <2>0, <2>1, <2>2 DEF VerdictAt, Early, RejectionIsDurable
  <2>5. CASE tx = None
    <3>1. Plain("converge")'
      BY <2>0, <2>1, <2>2, <2>5 DEF Plain, Early, Idles, Before, After
    <3> QED
      BY <2>0, <2>1, <2>2, <2>3, <2>4, <2>5, <3>1, BootPoints DEF VerdictAt
  <2>6. CASE tx # None
    <3>1. Driving("restore")'
      BY <2>0, <2>1, <2>2, <2>6 DEF Driving, DrivePhases, Before
    <3> QED
      BY <2>0, <2>1, <2>2, <2>3, <2>4, <2>6, <3>1, BootPoints DEF VerdictAt
  <2> QED
    BY <2>5, <2>6
<1> QED
  BY <1>0, <1>1, <1>2, <1>3, <1>4, <1>5

\* The predecessor is restored over a compensated machine, and it is recorded.
LEMMA RestoreProtocol ==
    ASSUME Calm, AgentInv, ProtocolInv, RestorePredecessor \/ RecordRestored
    PROVE  ProtocolInv'
<1> USE DEF PlanSteps, Early
<1>0. pc \in {"restore", "restored"} /\ tx # None
  BY DEF RestorePredecessor, RecordRestored, AgentInv, ControlOK, TxSteps
<1>1. /\ Driving(pc) /\ tx = journal /\ tx \in Transactions /\ Accounted(tx) /\ IsRollback(tx)
      /\ installed # None /\ tx.phase \in {"CandidateCompensated", "Restored", "RollbackVerified"}
      /\ active = Payload(tx.prev) /\ tx.cand.pkg \notin effects
  BY <1>0, AtBoot DEF Driving, DrivePhases, Accounted, Clean
<1>2. CASE RestorePredecessor
  <2> DEFINE after == effects \cup {tx.prev.pkg}
  <2>1. pc = "restore" /\ (HookCompletes(after, "restored") \/ HookIsInconclusive(after))
    BY <1>2 DEF RestorePredecessor
  <2>2. Explained(tx.prev.pkg) /\ tx.prev.pkg # tx.cand.pkg
    BY <1>1, AccountedHead DEF Explained
  <2>3. CASE HookCompletes(after, "restored")
    <3>1. Driving("restored")
      BY <1>1, <2>1 DEF Driving, DrivePhases
    <3> QED
      BY <1>0, <1>1, <2>1, <2>2, <2>3, <3>1, BootHook
  <2>4. CASE HookIsInconclusive(after)
    BY <1>1, <2>2, <2>4, InconclusivePoints
  <2> QED
    BY <2>1, <2>3, <2>4
<1>3. CASE RecordRestored
  <2>0. pc = "restored"
    BY <1>3 DEF RecordRestored
  <2> DEFINE s == IF reboot THEN "rebooting" ELSE "gate"
  <2>1. CASE tx.phase = "CandidateCompensated"
    <3> DEFINE u == At(tx, "Restored")
    <3>1. Persist(u, s)
      BY <1>0, <1>1, <1>3, <2>1, Ranks DEF RecordRestored, StalledAdvance, Calm, Pending
    <3>2. Wrote(u, s)
      BY <1>0, <1>1, <2>1, <3>1, Advanced DEF Phases, RollbackPhases, RollbackEdges, OnCandidate
    <3>3. /\ u \in Transactions /\ u.prev = tx.prev /\ u.cand = tx.cand /\ u.reject = tx.reject
          /\ u.phase = "Restored"
      BY <1>1, AtFields DEF Phases, RollbackPhases
    <3> HIDE DEF u
    <3>4. CASE reboot
      BY <3>2, <3>4, ParkedPoints DEF Wrote, Parked
    <3>5. CASE ~reboot
      <4>1. DrivePhases("gate")' /\ IsRollback(u)
        BY <3>2, <3>3 DEF Wrote, DrivePhases, IsRollback, RollbackPhases
      <4> QED
        BY <1>0, <2>0, <3>2, <3>3, <3>5, <4>1, DriveOn
    <3> QED
      BY <3>4, <3>5
  <2>2. CASE tx.phase # "CandidateCompensated"
    <3>1. Skip(s)
      BY <1>0, <1>1, <1>3, <2>2, Ranks DEF RecordRestored, Pending
    <3>2. Driving("gate")
      BY <1>1, <2>0, <2>2 DEF Driving, DrivePhases
    <3>3. CASE reboot
      <4>1. Durable' /\ pc' = "rebooting" /\ ~refused' /\ ~repaired'
        BY <3>1, <3>3, QuietDurable DEF Skip, Goto, storeVars, hostVars, Recorded, ProtocolInv
      <4> QED
        BY <4>1, ParkedPoints DEF Parked
    <3>4. CASE ~reboot
      BY <1>0, <2>0, <3>1, <3>2, <3>4, BootSkip
    <3> QED
      BY <3>3, <3>4
  <2> QED
    BY <2>1, <2>2
<1> QED
  BY <1>2, <1>3

\* A journal that asks for nothing may be discarded, and the head is what it left.
LEMMA Discardable ==
    ASSUME journal \in Transactions, Accounted(journal), installed # None, Idles(journal),
           journal.phase = "RolledBack" => Before(journal),
           journal.reject => RejectionIsDurable(journal.cand)
    PROVE  /\ ClearIsAuthorized
           /\ journal.cand.pkg \notin effects \/ journal.cand = installed.unit
           /\ active = Payload(installed.unit)
<1>1. CASE journal.phase = "Prepared"
  <2>1. Before(journal) /\ journal.cand.pkg \notin effects /\ active = Payload(journal.prev)
    BY <1>1 DEF Accounted, Clean, Idles
  <2> QED
    BY <1>1, <2>1, AccountedHead DEF ClearIsAuthorized, JournalMayDiscard
<1>2. CASE journal.phase \in {"Converged", "Verified", "Committed"}
  <2>1. After(journal) /\ active = Payload(journal.cand) /\ ~journal.reject
    BY <1>2, AccountedHead DEF Accounted, OnCandidate, Idles, IsRollback, RollbackPhases
  <2>2. ForwardCommitIsDurable(journal)
    BY <2>1, AccountedHead DEF ForwardCommitIsDurable, MatchesCandidate, MatchesRollbackGuard
  <2> QED
    BY <1>2, <2>1, <2>2, AccountedHead DEF ClearIsAuthorized, JournalMayDiscard
<1>3. CASE journal.phase = "RolledBack"
  <2>1. Before(journal) /\ journal.cand.pkg \notin effects /\ active = Payload(journal.prev)
    BY <1>3 DEF Accounted, Clean, OnPredecessor
  <2> QED
    BY <1>3, <2>1, AccountedHead DEF ClearIsAuthorized, JournalMayDiscard, MatchesPrevious
<1> QED
  BY <1>1, <1>2, <1>3 DEF Idles

\* Deleting such a journal leaves a settled node.
LEMMA Cleared ==
    ASSUME AgentInv, ProtocolInv, installed # None, ijournal = None, installed.proven,
           journal # None => /\ Idles(journal)
                             /\ journal.phase = "RolledBack" => Before(journal)
                             /\ journal.reject => RejectionIsDurable(journal.cand),
           journal = None => active = Payload(installed.unit),
           NEW s \in {"collect", "revertJournal"}, Clear(s)
    PROVE  ProtocolInv'
<1>1. journal # None => journal \in Transactions /\ Accounted(journal)
  BY DEF AgentInv, TypeOK, StoreTypeOK, ProtocolInv, Durable
<1>2. /\ ClearIsAuthorized /\ active = Payload(installed.unit)
      /\ journal # None => journal.cand.pkg \notin effects \/ journal.cand = installed.unit
  BY <1>1, Discardable DEF ClearIsAuthorized
<1>3. ClearJournal /\ Goto(s) /\ UNCHANGED <<hostVars, refused>>
  BY <1>2 DEF Clear
<1>4. Durable'
  BY <1>2, <1>3, ClearDurable DEF ClearJournal, hostVars, ProtocolInv
<1>5. LoopAt(s)' /\ ijournal' = None
  BY <1>2, <1>3 DEF LoopAt, Settled, LoopSteps, ClearJournal
<1> QED
  BY <1>3, <1>4, <1>5, LoopPoints DEF Goto, LoopSteps, ProtocolInv

\* Bringing up the head, and its gate.
LEMMA ConvergeProtocol ==
    ASSUME AgentInv, ProtocolInv, BootConverge \/ BootGate
    PROVE  ProtocolInv'
<1> USE DEF PlanSteps, Early
<1>1. CASE BootConverge
  <2> DEFINE after == effects \cup {installed.unit.pkg}
  <2>0. pc = "converge"
    BY <1>1 DEF BootConverge
  <2>1. tx = None /\ Plain("converge") /\ installed # None
    BY <2>0, AtBoot DEF Driving
  <2>2. /\ Explained(installed.unit.pkg)
        /\ journal # None /\ journal.phase \in Clean => installed.unit.pkg # journal.cand.pkg
    <3>1. Explained(installed.unit.pkg)
      BY DEF Explained
    <3>2. SUFFICES ASSUME journal # None, journal.phase \in Clean
                   PROVE  installed.unit.pkg # journal.cand.pkg
      BY <3>1
    <3>3. journal \in Transactions /\ Accounted(journal) /\ Idles(journal)
      BY <2>0, <2>1, <3>2, AtBoot DEF Plain
    <3>4. Before(journal)
      BY <2>1, <3>2, <3>3 DEF Plain, Idles, Clean, Accounted, IsRollback, RollbackPhases
    <3> QED
      BY <3>3, <3>4, AccountedHead
  <2>3. Plain("gate") /\ Plain("failed")
    BY <2>1 DEF Plain
  <2>4. CASE HookCompletes(after, "gate")
    BY <2>0, <2>1, <2>2, <2>3, <2>4, BootHook
  <2>5. CASE HookFaults(after, "failed")
    BY <2>0, <2>1, <2>2, <2>3, <2>5, BootHook
  <2>6. CASE HookIsInconclusive(after)
    BY <2>1, <2>2, <2>6, InconclusivePoints
  <2> QED
    BY <1>1, <2>4, <2>5, <2>6 DEF BootConverge
<1>2. CASE BootGate
  <2>0. pc = "gate"
    BY <1>2 DEF BootGate
  <2>1. tx # None => Driving("confirm") /\ Driving("failed")
    BY <2>0, AtBoot DEF Driving, DrivePhases
  <2>2. tx = None => Plain("confirm") /\ Plain("failed")
    BY <2>0, AtBoot DEF Plain
  <2>3. CASE Skip("confirm")
    BY <2>0, <2>1, <2>2, <2>3, BootSkip
  <2>4. CASE Skip("failed")
    BY <2>0, <2>1, <2>2, <2>4, BootSkip
  <2> QED
    BY <1>2, <2>3, <2>4 DEF BootGate
<1> QED
  BY <1>1, <1>2

\* A failed gate: the rollback counts it, a guarded head is reverted, a settled head
\* keeps running and a first installation is rejected.
LEMMA FailedProtocol ==
    ASSUME AgentInv, ProtocolInv, GateFailed \/ Settle \/ ReportSettled
    PROVE  ProtocolInv'
<1> USE DEF PlanSteps, Early
<1>1. CASE GateFailed /\ tx # None
  <2>0. pc = "failed"
    BY <1>1 DEF GateFailed
  <2>1. /\ tx = journal /\ tx \in Transactions /\ Accounted(tx) /\ IsRollback(tx)
        /\ installed # None /\ tx.phase \in {"Restored", "RollbackVerified"}
    BY <1>1, <2>0, AtBoot DEF Driving, DrivePhases
  <2>2. CASE MayRecordHealthFailure(tx)
    <3> DEFINE u == WithHealthFailure(tx)
    <3>1. /\ u \in Transactions /\ u.prev = tx.prev /\ u.cand = tx.cand /\ u.id = tx.id
          /\ u.reject = tx.reject /\ u.phase = tx.phase
      BY SMT, <2>1, <2>2, FailuresAssumption DEF WithHealthFailure, Transactions, MayRecordHealthFailure
    <3>2. Persist(u, "settle")
      BY <1>1, <2>2 DEF GateFailed
    <3>3. ValidTransaction(u) /\ IsRollback(u)
      BY <2>1, <3>1 DEF ValidTransaction, PhaseEvidenceIsValid, IsRollback, RollbackPhases,
         Accounted
    <3>4. Accounted(u)
      BY <2>1, <3>1, <3>3 DEF Accounted, Before, After, GuardedHead
    <3>5. JournalWriteIsAuthorized(u)
      <4>1. PermitsReplacement(journal, u)
        BY <2>1, <2>2 DEF PermitsReplacement
      <4>2. ijournal = None /\ u.phase # "Committed" /\ journal.phase # "Committed" /\ journal # None
        BY <1>1, <2>1, <3>1 DEF Accounted
      <4> QED
        BY <2>1, <3>1, <3>3, <4>1, <4>2 DEF JournalWriteIsAuthorized, JournalRewriteIsAuthorized
    <3> HIDE DEF u
    <3>6. Wrote(u, "settle")
      BY <2>1, <3>1, <3>2, <3>4, <3>5, Persisted
    <3>7. DrivePhases("settle")'
      BY <2>1, <3>1, <3>6 DEF Wrote, DrivePhases
    <3> QED
      BY <1>1, <2>0, <3>1, <3>3, <3>6, <3>7, DriveOn
  <2>3. CASE ~MayRecordHealthFailure(tx)
    BY <1>1, <2>3, FailPoints DEF GateFailed
  <2> QED
    BY <2>2, <2>3
<1>2. CASE GateFailed /\ tx = None
  <2>0. pc = "failed"
    BY <1>2 DEF GateFailed
  <2>1. /\ Plain("failed") /\ HeadOK /\ Durable /\ ijournal = None /\ installed # None
        /\ installed.unit \in Deployments
        /\ journal # None => journal \in Transactions /\ Accounted(journal)
    BY <1>2, <2>0, AtBoot DEF InstalledStates
  <2>2. CASE installed.guard # None
    <3>1. installed.proven
      BY <2>1, <2>2 DEF HeadOK, ValidInstalled
    <3>2. journal # None => After(journal) /\ ~IsRollback(journal)
      BY <2>1, <2>2, AccountedHead DEF Plain
    <3>3. active = Payload(installed.unit)
      BY <2>1, <3>2 DEF Plain
    <3>4. Points("revert")
      BY <2>1, <3>1, <3>2, <3>3, LoopOwes DEF LoopAt, LoopSteps
    <3> QED
      BY <1>2, <2>2, <3>4, SkipPoints DEF GateFailed
  <2>3. CASE installed.guard = None /\ installed.proven
    <3>1. Plain("rollbackVerified")
      BY <2>1, <2>3 DEF Plain
    <3>2. Skip("rollbackVerified")
      BY <1>2, <2>3 DEF GateFailed
    <3> QED
      BY <1>2, <2>0, <3>1, <3>2, BootSkip
  <2>4. CASE installed.guard = None /\ ~installed.proven
    <3>1. Reject("deployment", installed.unit) /\ Exit /\ UNCHANGED <<hostVars, refused>>
      BY <1>2, <2>4 DEF GateFailed
    <3>2. Durable'
      BY <2>1, <3>1, QuietDurable DEF Reject, hostVars, Recorded
    <3> QED
      BY <3>1, <3>2, ExitPoints DEF Exit
  <2> QED
    BY <2>2, <2>3, <2>4
<1>3. CASE Settle
  <2>0. pc = "settle" /\ tx # None
    BY <1>3 DEF Settle, AgentInv, ControlOK, TxSteps
  <2>1. /\ tx = journal /\ tx \in Transactions /\ Accounted(tx) /\ installed # None
        /\ tx.phase \in {"Restored", "RollbackVerified"}
    BY <2>0, AtBoot DEF Driving, DrivePhases
  <2>2. CASE tx.fails < MaxRollbackHealthAttempts
    BY <1>3, <2>2, FailPoints DEF Settle
  <2>3. CASE ~(tx.fails < MaxRollbackHealthAttempts)
    <3> DEFINE u == At(tx, "RolledBack")
    <3>1. Persist(u, "report")
      BY <1>3, <2>3 DEF Settle
    <3>2. /\ u \in Transactions /\ u.prev = tx.prev /\ u.cand = tx.cand /\ u.reject = tx.reject
          /\ u.phase = "RolledBack"
      BY <2>1, AtFields DEF Phases, RollbackPhases
    <3>3. Wrote(u, "report")
      <4>1. active = Payload(tx.prev) /\ tx.cand.pkg \notin effects
        BY <2>1 DEF Accounted, OnPredecessor, Clean
      <4> QED
        BY <2>0, <2>1, <3>1, <4>1, Advanced DEF Phases, RollbackPhases, RollbackEdges, OnCandidate
    <3> HIDE DEF u
    <3>4. DrivePhases("report")' /\ IsRollback(u)
      BY <3>2, <3>3 DEF Wrote, DrivePhases, IsRollback, RollbackPhases
    <3> QED
      BY <2>0, <3>2, <3>3, <3>4, DriveOn
  <2> QED
    BY <2>2, <2>3
<1>4. CASE ReportSettled
  <2>0. pc = "report" /\ tx # None
    BY <1>4 DEF ReportSettled, AgentInv, ControlOK, TxSteps
  <2>1. CASE plan.commit = None
    BY <1>4, <2>1, FailPoints DEF ReportSettled
  <2>2. CASE plan.commit # None
    <3>1. Driving("rollbackVerified")
      BY <2>0, AtBoot DEF Driving, DrivePhases
    <3> QED
      BY <1>4, <2>0, <2>2, <3>1, BootSkip DEF ReportSettled
  <2> QED
    BY <2>1, <2>2
<1> QED
  BY <1>1, <1>2, <1>3, <1>4

\* The boot ends: a first installation is confirmed, a rollback recorded and committed.
LEMMA FinishProtocol ==
    ASSUME AgentInv, ProtocolInv, ConfirmProvisional \/ FinishRollback \/ FinalCommit
    PROVE  ProtocolInv'
<1> USE DEF PlanSteps, Early
<1>1. CASE ConfirmProvisional
  <2>0. pc = "confirm"
    BY <1>1 DEF ConfirmProvisional
  <2>1. CASE installed.proven
    <3>1. /\ tx # None => Driving("rollbackVerified")
          /\ tx = None => Plain("rollbackVerified")
      BY <2>0, <2>1, AtBoot DEF Driving, DrivePhases, Plain
    <3> QED
      BY <1>1, <2>0, <2>1, <3>1, BootSkip DEF ConfirmProvisional
  <2>2. CASE ~installed.proven
    <3> DEFINE n == [installed EXCEPT !.proven = TRUE]
    <3>0. /\ tx = None /\ journal = None /\ Plain("confirm") /\ HeadOK /\ installed # None
          /\ installed \in InstalledStates /\ ijournal = None /\ Durable /\ ~refused /\ ~repaired
      BY <2>0, <2>2, AtBoot, AccountedHead
    <3>1. installed.guard = None /\ active = Payload(installed.unit)
      BY <2>2, <3>0 DEF HeadOK, ValidInstalled, Plain
    <3>2. /\ n \in InstalledStates /\ n.unit = installed.unit /\ n.guard = None /\ n.proven
          /\ n # None
      BY <3>0, <3>1, NoneAssumption DEF InstalledStates
    <3>3. CommitIsAuthorized(n)
      BY <2>2, <3>0, <3>1, <3>2 DEF CommitIsAuthorized, ValidInstalled,
         MetadataTransitionIsAuthorized
    <3>4. Commit(n, "rollbackVerified")
      BY <1>1, <2>2 DEF ConfirmProvisional
    <3> HIDE DEF n
    <3>5. /\ installed' = n /\ pc' = "rollbackVerified"
          /\ UNCHANGED <<active, journal, ijournal, enrolled, tx, plan, repaired, bundles, pin,
                         effects, refused>>
      BY <3>3, <3>4 DEF Commit, CommitInstalled, Goto, hostVars
    <3>6. Durable'
      BY <3>0, <3>1, <3>2, <3>5 DEF Durable, HeadOK, InstallOK, Explained, ValidInstalled
    <3>7. Plain("rollbackVerified")' /\ VerdictAt("rollbackVerified")'
      BY <3>0, <3>2, <3>5 DEF Plain, VerdictAt
    <3> QED
      BY <3>0, <3>5, <3>6, <3>7, BootPoints
  <2> QED
    BY <2>1, <2>2
<1>2. CASE FinishRollback /\ tx = None
  <2>0. pc \in {"rollbackVerified", "rolledBack"}
    BY <1>2 DEF FinishRollback
  <2>1. Plain(pc)
    BY <1>2, <2>0, AtBoot
  <2>2. Plain("rolledBack") /\ Plain("finalCommit")
    BY <2>0, <2>1 DEF Plain
  <2>3. CASE pc = "rollbackVerified"
    <3>1. Skip("rolledBack")
      BY <1>2, <2>3 DEF FinishRollback, Pending
    <3> QED
      BY <1>2, <2>2, <2>3, <3>1, BootSkip
  <2>4. CASE pc = "rolledBack"
    <3>1. Skip("finalCommit")
      BY <1>2, <2>4 DEF FinishRollback, Pending
    <3> QED
      BY <1>2, <2>2, <2>4, <3>1, BootSkip
  <2> QED
    BY <2>0, <2>3, <2>4
<1>3. CASE FinishRollback /\ tx # None
  <2>0. /\ tx = journal /\ tx \in Transactions /\ Accounted(tx) /\ IsRollback(tx)
        /\ installed # None /\ pc \in {"rollbackVerified", "rolledBack"} /\ Driving(pc)
    BY <1>3, AtBoot DEF FinishRollback
  <2>1. tx.phase \in {"Restored", "RollbackVerified", "RolledBack"}
    BY <2>0 DEF Driving, DrivePhases
  <2>2. active = Payload(tx.prev) /\ tx.cand.pkg \notin effects
    BY <2>0, <2>1 DEF Accounted, OnPredecessor, Clean
  <2>3. ASSUME NEW ph \in {"RollbackVerified", "RolledBack"},
               NEW s \in {"rolledBack", "finalCommit"}, Persist(At(tx, ph), s),
               <<tx.phase, ph>> \in RollbackEdges, s = "finalCommit" => ph = "RolledBack"
        PROVE  ProtocolInv'
    <3> DEFINE u == At(tx, ph)
    <3>1. ph \in Phases /\ ph \in RollbackPhases
      BY <2>3 DEF Phases, RollbackPhases
    <3>2. /\ u \in Transactions /\ u.prev = tx.prev /\ u.cand = tx.cand /\ u.reject = tx.reject
          /\ u.phase = ph
      BY <2>0, <3>1, AtFields
    <3>3. Wrote(u, s)
      BY <1>3, <2>0, <2>2, <2>3, <3>1, Advanced DEF OnCandidate
    <3> HIDE DEF u
    <3>4. DrivePhases(s)' /\ IsRollback(u)
      BY <2>3, <3>1, <3>2, <3>3 DEF Wrote, DrivePhases, IsRollback
    <3> QED
      BY <1>3, <2>0, <2>3, <3>2, <3>3, <3>4, DriveOn
  <2>4. CASE pc = "rollbackVerified"
    <3>1. CASE tx.phase = "Restored"
      <4>1. Persist(At(tx, "RollbackVerified"), "rolledBack")
        BY <1>3, <2>0, <2>4, <3>1, Ranks DEF FinishRollback, Pending
      <4> QED
        BY <2>3, <3>1, <4>1 DEF RollbackEdges
    <3>2. CASE tx.phase # "Restored"
      <4>1. Skip("rolledBack")
        BY <1>3, <2>0, <2>1, <2>4, <3>2, Ranks DEF FinishRollback, Pending
      <4>2. Driving("rolledBack")
        BY <2>0, <2>1, <3>2 DEF Driving, DrivePhases
      <4> QED
        BY <1>3, <2>4, <4>1, <4>2, BootSkip
    <3> QED
      BY <3>1, <3>2
  <2>5. CASE pc = "rolledBack"
    <3>0. tx.phase \in {"RollbackVerified", "RolledBack"}
      BY <2>0, <2>5 DEF Driving, DrivePhases
    <3>1. CASE tx.phase = "RollbackVerified"
      <4>1. Persist(At(tx, "RolledBack"), "finalCommit")
        BY <1>3, <2>0, <2>5, <3>1, Ranks DEF FinishRollback, Pending
      <4> QED
        BY <2>3, <3>1, <4>1 DEF RollbackEdges
    <3>2. CASE tx.phase = "RolledBack"
      <4>1. Skip("finalCommit")
        BY <1>3, <2>0, <2>5, <3>2, Ranks DEF FinishRollback, Pending
      <4>2. Driving("finalCommit")
        BY <2>0, <3>2 DEF Driving, DrivePhases
      <4> QED
        BY <1>3, <2>5, <4>1, <4>2, BootSkip
    <3> QED
      BY <3>0, <3>1, <3>2
  <2> QED
    BY <2>0, <2>4, <2>5
<1>4. CASE FinalCommit
  <2>0. pc = "finalCommit"
    BY <1>4 DEF FinalCommit
  <2>1. CASE plan.defer /\ plan.commit # None
    <3>0. /\ tx # None /\ tx = journal /\ tx \in Transactions /\ Accounted(tx)
          /\ Driving("finalCommit") /\ tx.phase = "RolledBack" /\ plan.commit = Proven(journal.prev)
          /\ installed # None /\ Durable /\ ijournal = None /\ ~refused /\ ~repaired
          /\ VerdictAt("finalCommit")
      BY <2>0, <2>1, AtBoot DEF Plain, Driving, DrivePhases
    <3>1. CommitInstalled(Proven(journal.prev)) /\ pc' = "clear"
          /\ UNCHANGED <<tx, plan, repaired, refused, hostVars>>
      BY <1>4, <2>1, <3>0, BackAuthorized DEF FinalCommit
    <3>2. /\ installed' = Proven(journal.prev)
          /\ UNCHANGED <<active, journal, ijournal, rejected, enrolled, bundles, pin, effects>>
      BY <3>1 DEF CommitInstalled, hostVars
    <3>3. Durable' /\ Before(journal)'
      BY <3>0, <3>2, CommitBack
    <3>4. Driving("clear")'
      BY <2>1, <3>0, <3>1, <3>2 DEF Driving, DrivePhases, Before
    <3>5. VerdictAt("clear")'
      BY <3>0, <3>2 DEF VerdictAt, RejectionIsDurable
    <3> QED
      BY <3>0, <3>1, <3>2, <3>3, <3>4, <3>5, BootPoints
  <2>2. CASE ~(plan.defer /\ plan.commit # None)
    <3>1. tx # None => Driving("clear")
      BY <2>0, <2>2, AtBoot DEF Driving, DrivePhases
    <3>2. tx = None => Plain("clear")
      BY <2>0, AtBoot DEF Plain
    <3> QED
      BY <1>4, <2>0, <2>2, <3>1, <3>2, BootSkip DEF FinalCommit
  <2> QED
    BY <2>1, <2>2
<1> QED
  BY <1>1, <1>2, <1>3, <1>4

\* The spent journal is deleted, and the node is settled.
LEMMA ClearProtocol ==
    ASSUME AgentInv, ProtocolInv, ClearRecovered
    PROVE  ProtocolInv'
<1> USE DEF PlanSteps, Early
<1>0. pc = "clear"
  BY DEF ClearRecovered
<1>1. /\ installed # None /\ ijournal = None /\ VerdictAt("clear")
      /\ journal # None => journal \in Transactions /\ Accounted(journal)
      /\ tx = None => Plain("clear")
      /\ tx # None => /\ tx = journal /\ Before(journal) /\ journal.phase = "RolledBack"
                      /\ plan.clear \/ plan.defer
  BY <1>0, AtBoot DEF Driving, DrivePhases
<1>2. installed.proven
  BY <1>1, AccountedHead DEF Plain
<1>3. CASE plan.clear \/ plan.defer
  <2>1. Clear("collect")
    BY <1>0, <1>3 DEF ClearRecovered
  <2>2. journal # None => Idles(journal) /\ (journal.phase = "RolledBack" => Before(journal))
    BY <1>1 DEF Plain, Idles, IsRollback, RollbackPhases
  <2>3. journal = None => active = Payload(installed.unit)
    BY <1>1 DEF Plain
  <2>4. journal # None /\ journal.reject => RejectionIsDurable(journal.cand)
    BY <1>1 DEF VerdictAt
  <2> QED
    BY <1>1, <1>2, <2>1, <2>2, <2>3, <2>4, Cleared
<1>4. CASE ~(plan.clear \/ plan.defer)
  <2>1. Skip("collect")
    BY <1>4 DEF ClearRecovered
  <2>2. journal = None /\ active = Payload(installed.unit)
    BY <1>1, <1>4 DEF Plain
  <2>3. Points("collect")
    BY <1>1, <1>2, <2>2, LoopOwes DEF LoopAt, Settled, LoopSteps
  <2> QED
    BY <2>1, <2>3, SkipPoints
<1> QED
  BY <1>3, <1>4

\* What the loop and the steps around it know.
LEMMA AtLoop ==
    ASSUME AgentInv, ProtocolInv, pc \in LoopSteps \cup {"verify", "revert", "revertReject"}
    PROVE  /\ installed # None /\ installed \in InstalledStates /\ HeadOK /\ Durable
           /\ ijournal = None /\ ~refused /\ ~repaired /\ LoopAt(pc)
           /\ Payload(installed.unit) \in bundles
<1>1. pc \in RunningSteps
  BY DEF LoopSteps, RunningSteps, Steps, BootSteps, InstallSteps
<1> QED
  BY <1>1 DEF ProtocolInv, Points, InstallAt, Durable, AgentInv, ControlOK, TypeOK, StoreTypeOK,
     HeadOK

\* Garbage collection keeps what the head and its guard need.
LEMMA CollectProtocol ==
    ASSUME AgentInv, ProtocolInv, GarbageCollect
    PROVE  ProtocolInv'
<1> USE DEF LoopSteps
<1>0. pc = "collect"
  BY DEF GarbageCollect
<1>1. /\ Settled /\ HeadOK /\ Durable /\ installed # None /\ ijournal = None /\ ~refused
      /\ installed \in InstalledStates
  BY <1>0, AtLoop DEF LoopAt
<1>2. /\ pc' \in {"rebooting", "idle"} /\ tx' = None /\ ~repaired'
      /\ UNCHANGED <<active, installed, journal, ijournal, enrolled, effects, refused>>
      /\ bundles' \subseteq bundles /\ Protected \subseteq bundles'
      /\ installed.guard # None => pin' = pin
  BY <1>1 DEF GarbageCollect, storeVars, Protected, HeadOK
<1>3. HeadOK'
  BY <1>1, <1>2 DEF HeadOK, Protected
<1>4. Durable'
  BY <1>1, <1>2, <1>3 DEF Durable, InstallOK, Explained, Settled, Protected
<1>5. CASE pc' = "rebooting"
  BY <1>1, <1>2, <1>4, <1>5, ParkedPoints DEF Parked
<1>6. CASE pc' = "idle"
  <2>1. LoopAt("idle")'
    BY <1>1, <1>2 DEF LoopAt, Settled
  <2> QED
    BY <1>1, <1>2, <1>4, <1>6, <2>1, LoopPoints
<1> QED
  BY <1>2, <1>5, <1>6

\* A guarded head that failed is reverted through the journal, with its verdict first.
LEMMA RevertProtocol ==
    ASSUME AgentInv, ProtocolInv, VerifyInstalled \/ Revert \/ JournalRevert
    PROVE  ProtocolInv'
<1> USE DEF LoopSteps
<1>1. CASE VerifyInstalled
  <2>1. Skip("plan") /\ ijournal = None
    BY <1>1, AtLoop DEF VerifyInstalled, RepairCommittedBundle
  <2>2. Points("plan")
    BY <2>1, LoopOwes DEF LoopAt
  <2> QED
    BY <2>1, <2>2, SkipPoints
<1>2. CASE Revert
  <2>0. /\ pc = "revert" /\ installed # None /\ ijournal = None
        /\ active = Payload(installed.unit) /\ installed.proven
        /\ journal # None => After(journal) /\ ~IsRollback(journal)
    BY <1>2, AtLoop DEF Revert, LoopAt
  <2>1. CASE installed.guard = None
    BY <1>2, <2>1, FailPoints DEF Revert
  <2>2. CASE installed.guard # None /\ journal = None
    <3>1. Points("revertJournal")
      BY <2>0, <2>2, LoopOwes DEF LoopAt, Settled
    <3> QED
      BY <1>2, <2>2, <3>1, SkipPoints DEF Revert
  <2>3. CASE installed.guard # None /\ journal # None
    <3>1. journal \in Transactions /\ Accounted(journal)
      BY <2>3 DEF AgentInv, TypeOK, StoreTypeOK, ProtocolInv, Durable
    <3>2. Idles(journal) /\ ~journal.reject /\ journal.phase # "RolledBack"
      BY <2>0, <2>3, <3>1, AccountedHead, TransactionFields DEF Idles, Accounted, Phases,
         ForwardPhases, IsRollback, RollbackPhases
    <3>3. JournalRecovery = "Committed"
      BY <2>0, <2>3, <3>2, Recovery
    <3>4. Clear("revertJournal")
      BY <1>2, <2>3, <3>3 DEF Revert
    <3> QED
      BY <2>0, <2>3, <3>2, <3>4, Cleared
  <2> QED
    BY <2>1, <2>2, <2>3
<1>3. CASE pc = "revertJournal" /\ Persist(RollbackOfGuarded(~repaired), "revertReject")
  <2>0. /\ Settled /\ installed # None /\ ijournal = None /\ ~repaired /\ installed.guard # None
    BY <1>3, AtLoop DEF LoopAt, AgentInv, ControlOK
  <2> DEFINE u == RollbackOfGuarded(TRUE)
  <2>1. u \in Transactions /\ Accounted(u) /\ JournalWriteIsAuthorized(u)
    BY <2>0, GuardedRollback DEF Settled
  <2>2. Persist(u, "revertReject")
    BY <1>3, <2>0
  <2> HIDE DEF u
  <2>3. Wrote(u, "revertReject")
    BY <2>0, <2>1, <2>2, Persisted DEF Settled
  <2>4. LoopAt("revertReject")' /\ ijournal' = None
    BY <2>0, <2>3 DEF LoopAt, Wrote
  <2> QED
    BY <2>3, <2>4, LoopPoints DEF Wrote
<1>4. CASE pc = "revertReject" /\ JournalRevert
  <2>1. Exit /\ UNCHANGED <<active, installed, journal, ijournal, enrolled, hostVars, refused>>
    BY <1>4 DEF JournalRevert, Reject, storeVars
  <2>2. Durable'
    BY <2>1, QuietDurable DEF hostVars, Recorded, ProtocolInv
  <2> QED
    BY <2>1, <2>2, ExitPoints DEF Exit
<1> QED
  BY <1>1, <1>2, <1>3, <1>4 DEF JournalRevert

\* The control loop: probes, confirmation, convergence, rebinding and refused archives.
LEMMA LoopProtocol ==
    ASSUME AgentInv, ProtocolInv, LoopNext
    PROVE  ProtocolInv'
<1> USE DEF LoopSteps
<1>0. pc \in {"idle", "disarm", "reconverge"}
  BY DEF LoopNext, ProbeUnconfirmed, DisarmUpdateRollback, RepairInLoop, BeginReconverge, Intact,
     ReconvergeEnvironment, RebindLineage, RejectMalformed
<1>1. /\ installed # None /\ installed \in InstalledStates /\ HeadOK /\ Durable
      /\ ijournal = None /\ ~refused /\ ~repaired /\ Payload(installed.unit) \in bundles
      /\ Settled /\ journal = None /\ active = Payload(installed.unit) /\ installed.proven
  BY <1>0, AtLoop DEF LoopAt, Settled
<1>2. CASE ProbeUnconfirmed \/ BeginReconverge
  <2>1. Points("disarm") /\ Points("revert") /\ Points("reconverge")
    BY <1>1, LoopOwes DEF LoopAt
  <2> QED
    BY <1>2, <2>1, SkipPoints DEF ProbeUnconfirmed, BeginReconverge
<1>3. CASE DisarmUpdateRollback
  <2> DEFINE n == [installed EXCEPT !.guard = None]
  <2>1. /\ n \in InstalledStates /\ n.unit = installed.unit /\ n.guard = None /\ n.proven
        /\ n # None
    BY <1>1, NoneAssumption DEF InstalledStates
  <2>2. installed.guard # None => CommitIsAuthorized(n)
    BY <1>1, <2>1 DEF CommitIsAuthorized, ValidInstalled, MetadataTransitionIsAuthorized
  <2>3. UNCHANGED <<repaired, bundles, pin>> /\ pc' \in {"collect", "idle"} /\ ~refused'
        /\ \/ UNCHANGED <<storeVars, effects>>
           \/ /\ installed.guard # None /\ CommitInstalled(n)
              /\ effects' = effects \ {installed.guard.prev.pkg}
    <3>1. \/ UNCHANGED refused
          \/ installed.guard # None /\ refused' = (refused \/ ~CommitIsAuthorized(n))
      BY <1>3 DEF DisarmUpdateRollback
    <3>2. ~refused'
      BY <1>1, <2>2, <3>1
    <3> QED
      BY <1>3, <3>2 DEF DisarmUpdateRollback
  <2> HIDE DEF n
  <2>4. CASE UNCHANGED <<storeVars, effects>>
    <3>1. Durable'
      BY <1>1, <2>3, <2>4, QuietDurable DEF storeVars, Recorded
    <3>2. \A s \in {"collect", "idle"} : LoopAt(s)'
      BY <1>1, <2>4 DEF LoopAt, Settled, storeVars
    <3> QED
      BY <1>1, <2>3, <2>4, <3>1, <3>2, LoopPoints DEF storeVars
  <2>5. CASE /\ installed.guard # None /\ CommitInstalled(n)
             /\ effects' = effects \ {installed.guard.prev.pkg}
    <3>1. installed' = n /\ UNCHANGED <<active, journal, ijournal, enrolled>>
      BY <2>5 DEF CommitInstalled
    <3>2. HeadOK'
      BY <1>1, <2>1, <2>3, <3>1 DEF HeadOK, ValidInstalled
    <3>3. Durable'
      BY <1>1, <2>1, <2>3, <2>5, <3>1, <3>2 DEF Durable, InstallOK, Explained
    <3>4. \A s \in {"collect", "idle"} : LoopAt(s)'
      BY <1>1, <2>1, <3>1 DEF LoopAt, Settled
    <3> QED
      BY <1>1, <2>3, <3>1, <3>3, <3>4, LoopPoints
  <2> QED
    BY <2>3, <2>4, <2>5
<1>4. CASE RepairInLoop
  BY <1>1, <1>4 DEF RepairInLoop, RepairCommittedBundle
<1>5. CASE ReconvergeEnvironment
  <2> DEFINE after == effects \cup {installed.unit.pkg}
  <2>1. Explained(installed.unit.pkg)
    BY DEF Explained
  <2>2. CASE HookCompletes(after, "idle")
    <3>1. /\ effects' = after /\ pc' \in {"idle", "rebooting"}
          /\ UNCHANGED <<active, installed, journal, ijournal, enrolled, bundles, pin, repaired,
                         refused>>
      BY <2>2 DEF HookCompletes, Goto, storeVars
    <3>2. Durable'
      BY <1>1, <2>1, <3>1, HookDurable DEF Recorded
    <3>3. LoopAt("idle")'
      BY <1>1, <3>1 DEF LoopAt, Settled
    <3> QED
      BY <1>1, <3>1, <3>2, <3>3, LoopPoints, ParkedPoints DEF Parked
  <2>3. CASE HookIsInconclusive(after)
    BY <1>1, <2>1, <2>3, InconclusivePoints
  <2> QED
    BY <1>5, <2>2, <2>3 DEF ReconvergeEnvironment
<1>6. CASE RebindLineage
  <2>1. PICK l \in Lineages : Commit([installed EXCEPT !.unit.lin = l], "reconverge")
    BY <1>6 DEF RebindLineage
  <2> DEFINE n == [installed EXCEPT !.unit.lin = l]
  <2>2. /\ n.unit.pkg = installed.unit.pkg /\ n.guard = installed.guard
        /\ n.proven = installed.proven
    BY <1>1 DEF InstalledStates, Deployments
  <2>3. n # None
    <3>1. n \in InstalledStates
      BY <1>1 DEF InstalledStates, Deployments
    <3> QED
      BY <3>1, NoneAssumption
  <2>4. CommitIsAuthorized(n)
    BY <1>1, <2>2 DEF CommitIsAuthorized, ValidInstalled, MetadataTransitionIsAuthorized, HeadOK,
       Payload
  <2> HIDE DEF n
  <2>5. installed' = n /\ pc' = "reconverge"
        /\ UNCHANGED <<active, journal, ijournal, enrolled, bundles, pin, effects, repaired, refused>>
    BY <2>1, <2>4 DEF Commit, CommitInstalled, Goto, hostVars, n
  <2>6. HeadOK'
    BY <1>1, <2>2, <2>5 DEF HeadOK, ValidInstalled, Payload
  <2>7. Durable'
    BY <1>1, <2>2, <2>3, <2>5, <2>6 DEF Durable, InstallOK, Explained
  <2>8. LoopAt("reconverge")'
    BY <1>1, <2>2, <2>5 DEF LoopAt, Settled, Payload
  <2> QED
    BY <1>1, <2>5, <2>7, <2>8, LoopPoints
<1>7. CASE RejectMalformed
  <2>1. pc' = "reconverge"
        /\ UNCHANGED <<active, installed, journal, ijournal, enrolled, bundles, pin, effects,
                       repaired, refused>>
    BY <1>7 DEF RejectMalformed, Reject, Goto, hostVars
  <2>2. Durable'
    BY <1>1, <2>1, QuietDurable DEF Recorded
  <2>3. LoopAt("reconverge")'
    BY <1>1, <2>1 DEF LoopAt, Settled
  <2> QED
    BY <1>1, <2>1, <2>2, <2>3, LoopPoints
<1> QED
  BY <1>2, <1>3, <1>4, <1>5, <1>6, <1>7 DEF LoopNext

\* What an update knows once its transaction is journalled.
LEMMA AtUpdate ==
    ASSUME AgentInv, ProtocolInv, pc \in UpdateSteps
    PROVE  /\ installed # None /\ HeadOK /\ Durable /\ ijournal = None /\ ~refused /\ ~repaired
           /\ UpdateAt(pc) /\ tx # None /\ tx \in Transactions
           /\ pc \notin Starting => tx = journal /\ Accounted(journal) /\ journal # None
<1>1. pc \in RunningSteps /\ pc \in TxSteps
  BY DEF UpdateSteps, RunningSteps, Steps, BootSteps, InstallSteps, TxSteps
<1>2. /\ installed # None /\ HeadOK /\ Durable /\ ijournal = None /\ ~refused /\ ~repaired
      /\ UpdateAt(pc) /\ tx # None /\ tx \in Transactions
  BY <1>1 DEF ProtocolInv, Points, InstallAt, Durable, AgentInv, ControlOK, TypeOK
<1>3. pc \notin Starting => tx = journal
  BY <1>2 DEF UpdateAt
<1> QED
  BY <1>2, <1>3 DEF Durable

\* The next phase of the update is written, and the update goes on.
LEMMA UpdateAdvanced ==
    ASSUME AgentInv, ProtocolInv, pc \in UpdateSteps \ Starting, ~tx.reject,
           NEW ph \in {"Activated", "Converged", "Verified", "Committed"},
           <<tx.phase, ph>> \in ForwardEdges, active = Payload(tx.cand),
           ph # "Committed" => Before(tx), ph = "Committed" => After(tx),
           NEW s \in UpdateSteps \ Starting, Persist(At(tx, ph), s),
           s \in {"uConverge", "uGate", "uCommit", "uClear"},
           s = "uConverge" <=> ph = "Activated", s = "uClear" <=> ph = "Committed",
           s = "uGate" => ph = "Converged"
    PROVE  ProtocolInv'
<1> USE DEF UpdateSteps, Starting
<1> DEFINE u == At(tx, ph)
<1>1. /\ tx = journal /\ tx \in Transactions /\ Accounted(tx) /\ installed # None /\ ijournal = None
      /\ journal # None
  BY AtUpdate
<1>2. ph \in Phases
  BY DEF Phases, ForwardPhases
<1>3. /\ u.prev = tx.prev /\ u.cand = tx.cand /\ u.reject = tx.reject /\ u.phase = ph
      /\ u.id = tx.id
  BY <1>1, <1>2, AtFields
<1>4. After(tx) => ~Before(tx)
  BY <1>1, AccountedHead
<1>5. Wrote(u, s)
  BY <1>1, <1>2, <1>4, Advanced DEF OnCandidate, OnPredecessor, Clean
<1> HIDE DEF u
<1>6. UpdateAt(s)'
  <2>1. tx' = u /\ journal' = u /\ installed' = installed
    BY <1>5 DEF Wrote
  <2>2. UpdatePhases(s)'
    BY <1>3, <2>1 DEF UpdatePhases
  <2>3. s \in Trying => Before(tx)'
    BY <1>3, <2>1 DEF Before, Trying
  <2>4. s \in {"uCommitted", "uClear"} => After(tx)'
    BY <1>3, <2>1 DEF After, GuardedHead
  <2>5. s # "uActivated"
    OBVIOUS
  <2> QED
    BY <1>3, <2>1, <2>2, <2>3, <2>4, <2>5 DEF UpdateAt
<1> QED
  BY <1>1, <1>5, <1>6, UpdatePoints DEF Wrote

\* An update starts over a settled node, and its inputs are pinned before its journal.
LEMMA StartProtocol ==
    ASSUME AgentInv, WatchInv, ProtocolInv, SelectCandidate \/ ExecuteUpdate
    PROVE  ProtocolInv'
<1> USE DEF UpdateSteps, Starting
<1>1. CASE SelectCandidate
  <2>0. pc = "idle" /\ ~armed
    BY <1>1 DEF SelectCandidate, Intact
  <2>1. /\ installed # None /\ installed \in InstalledStates /\ HeadOK /\ Durable
        /\ ijournal = None /\ ~refused /\ ~repaired /\ Settled
    BY <2>0, AtLoop DEF LoopAt, LoopSteps
  <2>2. installed.guard = None
    BY <2>0 DEF WatchInv, Watched
  <2>3. PICK d \in Deployments, id \in Fresh :
          /\ d.pkg \notin Malformed \cup {installed.unit.pkg}
          /\ bundles' = bundles \cup {Payload(d)}
          /\ tx' = [id |-> id, prev |-> installed.unit, cand |-> d, reject |-> FALSE,
                    fails |-> 0, phase |-> "Prepared"]
    BY <1>1 DEF SelectCandidate
  <2>4. /\ tx'.prev = installed.unit /\ tx'.cand = d /\ ~tx'.reject /\ tx'.fails = 0
        /\ tx'.phase = "Prepared"
    BY <2>3
  <2>5. /\ pc' = "uBegin"
        /\ UNCHANGED <<active, installed, journal, ijournal, enrolled, pin, effects, repaired,
                       refused>>
    BY <1>1 DEF SelectCandidate, storeVars
  <2>6. installed = Proven(installed.unit)
    BY <2>1, <2>2 DEF Proven, InstalledStates, Settled
  <2>7. Durable'
    BY <2>1, <2>3, <2>5 DEF Durable, HeadOK, InstallOK, Explained, Settled
  <2>8. UpdateAt("uBegin")'
    BY <2>1, <2>3, <2>4, <2>5, <2>6 DEF UpdateAt, UpdatePhases, Settled, Before, Trying
  <2> QED
    BY <2>1, <2>5, <2>7, <2>8, UpdatePoints
<1>2. CASE ExecuteUpdate
  <2>0. pc \in Starting
    BY <1>2 DEF ExecuteUpdate
  <2>1. /\ installed # None /\ HeadOK /\ Durable /\ ijournal = None /\ ~refused /\ ~repaired
        /\ tx \in Transactions /\ UpdateAt(pc) /\ Settled /\ Before(tx) /\ ~tx.reject
        /\ tx.fails = 0 /\ tx.prev.pkg # tx.cand.pkg /\ tx.phase = "Prepared" /\ journal = None
    BY <2>0, AtUpdate DEF UpdateAt, UpdatePhases, Settled
  <2>2. installed.guard = None /\ installed.unit = tx.prev /\ installed.proven
    BY <2>1, HeadFields DEF Before
  <2>3. CASE pc = "uBegin"
    <3>1. Skip("uPin")
      BY <1>2, <2>1, <2>3 DEF ExecuteUpdate
    <3>2. Points("uPin")
      BY <2>1, UpdateOwes DEF UpdateAt, UpdatePhases, Trying
    <3> QED
      BY <3>1, <3>2, SkipPoints
  <2>4. CASE pc = "uPin"
    <3>1. /\ pin' = tx.id /\ pc' = "uPrepared"
          /\ UNCHANGED <<active, installed, journal, ijournal, enrolled, tx, bundles, effects,
                         repaired, refused>>
      BY <1>2, <2>4 DEF ExecuteUpdate, Goto, storeVars
    <3>2. Durable'
      BY <2>1, <2>2, <3>1 DEF Durable, HeadOK, InstallOK, Explained
    <3>3. UpdateAt("uPrepared")'
      BY <2>1, <3>1 DEF UpdateAt, UpdatePhases, Settled, Before, Trying
    <3> QED
      BY <2>1, <3>1, <3>2, <3>3, UpdatePoints
  <2>5. CASE pc = "uPrepared"
    <3>1. Persist(tx, "uActivate") /\ pin = tx.id
      BY <1>2, <2>1, <2>5 DEF ExecuteUpdate, UpdateAt
    <3>2. ValidTransaction(tx)
      BY <2>1 DEF ValidTransaction, PhaseEvidenceIsValid
    <3>3. JournalWriteIsAuthorized(tx)
      BY <2>1, <2>2, <3>2 DEF JournalWriteIsAuthorized, JournalStartIsAuthorized, MatchesPrevious,
         Settled
    <3>4. tx.cand.pkg \notin effects
      BY <2>1, <2>2 DEF Durable, Explained
    <3>5. Accounted(tx)
      BY <2>1, <2>2, <3>1, <3>2, <3>4 DEF Accounted, Settled, HeadOK, OnCandidate, OnPredecessor
    <3>6. Wrote(tx, "uActivate")
      BY <2>1, <3>1, <3>3, <3>5, Persisted
    <3>7. UpdateAt("uActivate")'
      BY <2>1, <3>6 DEF Wrote, UpdateAt, UpdatePhases, Before, Trying
    <3> QED
      BY <2>1, <3>6, <3>7, UpdatePoints DEF Wrote
  <2> QED
    BY <2>0, <2>3, <2>4, <2>5
<1> QED
  BY <1>1, <1>2

\* The candidate is activated, converged, gated and committed.
LEMMA TryProtocol ==
    ASSUME AgentInv, ProtocolInv, ActivateCandidate \/ ConvergeCandidate \/ GateCandidate
    PROVE  ProtocolInv'
<1> USE DEF UpdateSteps, Starting
<1>0. pc \in {"uActivate", "uActivated", "uConverge", "uConverged", "uGate", "uVerified"}
  BY DEF ActivateCandidate, ConvergeCandidate, GateCandidate
<1>1. /\ installed # None /\ HeadOK /\ Durable /\ ijournal = None /\ ~refused /\ ~repaired
      /\ tx = journal /\ tx \in Transactions /\ Accounted(tx) /\ journal # None
      /\ UpdateAt(pc) /\ ~tx.reject /\ Before(tx) /\ UpdatePhases(pc)
  BY <1>0, AtUpdate DEF UpdateAt, Trying
<1>2. CASE pc = "uActivate"
  <2>1. Activate(Payload(tx.cand), "uActivated") /\ tx.phase = "Prepared"
    BY <1>1, <1>2 DEF ActivateCandidate, ConvergeCandidate, GateCandidate, UpdatePhases
  <2>2. CASE Payload(tx.cand) \in bundles
    <3>1. /\ active' = Payload(tx.cand) /\ pc' = "uActivated"
          /\ UNCHANGED <<installed, journal, ijournal, enrolled, tx, bundles, pin, effects,
                         repaired, refused>>
      BY <2>1, <2>2 DEF Activate, PointActive, Goto, hostVars
    <3>2. Durable'
      BY <1>1, <2>1, <2>2, <3>1, PointDurable DEF OnPredecessor
    <3>3. UpdateAt("uActivated")'
      BY <1>1, <2>1, <3>1 DEF UpdateAt, UpdatePhases, Before, Trying
    <3> QED
      BY <1>1, <3>1, <3>2, <3>3, UpdatePoints
  <2>3. CASE Payload(tx.cand) \notin bundles
    BY <2>1, <2>3, FailPoints DEF Activate, Fail
  <2> QED
    BY <2>2, <2>3
<1>3. CASE pc = "uActivated"
  <2>1. /\ Persist(At(tx, "Activated"), "uConverge") /\ tx.phase = "Prepared"
        /\ active = Payload(tx.cand)
    BY <1>1, <1>3 DEF ActivateCandidate, ConvergeCandidate, GateCandidate, UpdatePhases, UpdateAt
  <2>2. <<tx.phase, "Activated">> \in ForwardEdges
    BY <2>1 DEF ForwardEdges
  <2> QED
    BY <1>1, <1>3, <2>1, <2>2, UpdateAdvanced
<1>4. CASE pc = "uConverge"
  <2> DEFINE after == effects \cup {tx.cand.pkg}
  <2>1. tx.phase = "Activated" /\ Explained(tx.cand.pkg)
    BY <1>1, <1>4 DEF UpdatePhases, Explained
  <2>2. CASE HookIsInconclusive(after)
    BY <1>1, <2>1, <2>2, InconclusivePoints DEF Clean
  <2>3. CASE HookCompletes(after, "uConverged") \/ HookFaults(after, "uVerdict")
    <3>1. /\ effects' = after /\ pc' \in {"uConverged", "uVerdict"}
          /\ UNCHANGED <<active, installed, journal, ijournal, enrolled, bundles, pin, tx,
                         repaired, refused>>
      BY <2>3 DEF HookCompletes, HookFaults, Goto, storeVars
    <3>2. Durable'
      BY <1>1, <2>1, <3>1, HookDurable DEF Recorded, Clean
    <3>3. \A s \in {"uConverged", "uVerdict"} : UpdateAt(s)'
      BY <1>1, <2>1, <3>1 DEF UpdateAt, UpdatePhases, Before, Trying
    <3> QED
      BY <1>1, <3>1, <3>2, <3>3, UpdatePoints
  <2> QED
    BY <1>4, <2>2, <2>3 DEF ActivateCandidate, ConvergeCandidate, GateCandidate
<1>5. CASE pc \in {"uConverged", "uVerified"}
  <2>1. active = Payload(tx.cand)
    BY <1>1, <1>5 DEF UpdatePhases, Accounted, OnCandidate
  <2>2. CASE pc = "uConverged"
    <3>1. /\ Persist(At(tx, "Converged"), IF reboot THEN "uCommit" ELSE "uGate")
          /\ tx.phase = "Activated"
      BY <1>1, <2>2 DEF ActivateCandidate, ConvergeCandidate, GateCandidate, UpdatePhases
    <3>2. <<tx.phase, "Converged">> \in ForwardEdges
      BY <3>1 DEF ForwardEdges
    <3>3. CASE reboot
      BY <1>1, <2>1, <2>2, <3>1, <3>2, <3>3, UpdateAdvanced
    <3>4. CASE ~reboot
      BY <1>1, <2>1, <2>2, <3>1, <3>2, <3>4, UpdateAdvanced
    <3> QED
      BY <3>3, <3>4
  <2>3. CASE pc = "uVerified"
    <3>1. Persist(At(tx, "Verified"), "uCommit") /\ tx.phase = "Converged"
      BY <1>1, <2>3 DEF ActivateCandidate, ConvergeCandidate, GateCandidate, UpdatePhases
    <3>2. <<tx.phase, "Verified">> \in ForwardEdges
      BY <3>1 DEF ForwardEdges
    <3> QED
      BY <1>1, <2>1, <2>3, <3>1, <3>2, UpdateAdvanced
  <2> QED
    BY <1>5, <2>2, <2>3
<1>6. CASE pc = "uGate"
  <2>1. Points("uVerified") /\ Points("uVerdict")
    BY <1>1, <1>6, UpdateOwes DEF UpdateAt, UpdatePhases, Trying
  <2> QED
    BY <1>6, <2>1, SkipPoints, FailPoints DEF ActivateCandidate, ConvergeCandidate, GateCandidate
<1> QED
  BY <1>0, <1>2, <1>3, <1>4, <1>5, <1>6

\* The candidate is committed with its guard, or its verdict is journalled.
LEMMA DecideProtocol ==
    ASSUME Calm, AgentInv, ProtocolInv, CommitCandidate \/ ClearCommitted \/ RejectThenRecover
    PROVE  ProtocolInv'
<1> USE DEF UpdateSteps, Starting
<1>0. pc \in {"uCommit", "uCommitted", "uClear", "uVerdict", "uReject"}
  BY DEF CommitCandidate, ClearCommitted, RejectThenRecover
<1>1. /\ installed # None /\ HeadOK /\ Durable /\ ijournal = None /\ ~refused /\ ~repaired
      /\ tx = journal /\ tx \in Transactions /\ Accounted(tx) /\ journal # None
      /\ UpdateAt(pc) /\ UpdatePhases(pc)
  BY <1>0, AtUpdate DEF UpdateAt
<1>2. CASE pc = "uCommit"
  <2> DEFINE n == GuardedHead(tx)
  <2>1. /\ Commit(n, "uCommitted") /\ tx.phase \in {"Converged", "Verified"} /\ Before(tx)
        /\ ~tx.reject
    BY <1>1, <1>2 DEF CommitCandidate, ClearCommitted, RejectThenRecover, UpdatePhases, UpdateAt,
       Trying
  <2>2. CommitIsAuthorized(n)
    <3>1. /\ n.unit = tx.cand /\ n.proven /\ n.guard # None /\ n.guard.id = tx.id
          /\ n.guard.prev = tx.prev
      BY <1>1, HeadFields
    <3>2. active = Payload(n.unit) /\ installed.unit = tx.prev /\ tx.prev.pkg # tx.cand.pkg
      BY <1>1, <2>1, <3>1, AccountedHead DEF Accounted, OnCandidate
    <3>3. ValidInstalled(n)
      BY <3>1, <3>2 DEF ValidInstalled
    <3>4. JournalTransitionIsAuthorized(n)
      BY <1>1, <2>1, <3>1, <3>2 DEF JournalTransitionIsAuthorized, MatchesPrevious,
         MatchesCandidate, MatchesRollbackGuard
    <3> QED
      BY <1>1, <3>2, <3>3, <3>4 DEF CommitIsAuthorized
  <2>3. /\ installed' = GuardedHead(journal) /\ pc' = "uCommitted"
        /\ UNCHANGED <<active, journal, ijournal, enrolled, bundles, pin, effects, tx, repaired,
                       refused>>
    BY <1>1, <2>1, <2>2 DEF Commit, CommitInstalled, Goto, hostVars
  <2>4. Durable' /\ After(journal)'
    BY <1>1, <2>1, <2>3, CommitForward
  <2>5. UpdateAt("uCommitted")'
    BY <1>1, <2>1, <2>3, <2>4 DEF UpdateAt, UpdatePhases, After, Trying
  <2> QED
    BY <1>1, <2>3, <2>4, <2>5, UpdatePoints
<1>3. CASE pc = "uCommitted"
  <2>1. /\ Persist(At(tx, "Committed"), "uClear") /\ tx.phase \in {"Converged", "Verified"}
        /\ After(tx) /\ ~tx.reject
    BY <1>1, <1>3 DEF CommitCandidate, ClearCommitted, RejectThenRecover, UpdatePhases, UpdateAt
  <2>2. active = Payload(tx.cand)
    BY <1>1, <2>1 DEF Accounted, OnCandidate
  <2>3. <<tx.phase, "Committed">> \in ForwardEdges
    BY <2>1 DEF ForwardEdges
  <2> QED
    BY <1>1, <1>3, <2>1, <2>2, <2>3, UpdateAdvanced
<1>4. CASE pc = "uClear"
  <2>1. tx.phase = "Committed" /\ After(tx) /\ ~tx.reject /\ ClearCommitted
    BY <1>1, <1>4 DEF CommitCandidate, ClearCommitted, RejectThenRecover, UpdatePhases, UpdateAt
  <2>2. ClearIsAuthorized /\ active = Payload(installed.unit) /\ journal.cand = installed.unit
        /\ installed.proven
    BY <1>1, <2>1, Discardable, AccountedHead DEF Idles
  <2>3. /\ ClearJournal /\ pc' = "collect"
        /\ UNCHANGED <<repaired, bundles, pin, effects, refused>>
    BY <2>1, <2>2 DEF ClearCommitted, Calm, hostVars
  <2>4. Durable'
    BY <1>1, <2>2, <2>3, ClearDurable DEF ClearJournal
  <2>5. LoopAt("collect")' /\ ijournal' = None
    BY <1>1, <2>2, <2>3 DEF ClearJournal, LoopAt, Settled, LoopSteps
  <2> QED
    BY <1>1, <2>3, <2>4, <2>5, LoopPoints DEF LoopSteps
<1>5. CASE pc = "uVerdict"
  <2> DEFINE u == [tx EXCEPT !.reject = TRUE]
  <2>1. /\ Persist(u, "uReject") /\ tx.phase \in {"Activated", "Converged"} /\ Before(tx)
        /\ ~tx.reject
    BY <1>1, <1>5 DEF CommitCandidate, ClearCommitted, RejectThenRecover, UpdatePhases, UpdateAt,
       Trying
  <2>2. /\ u \in Transactions /\ u.prev = tx.prev /\ u.cand = tx.cand /\ u.id = tx.id /\ u.reject
        /\ u.phase = tx.phase /\ u.fails = tx.fails
    BY <1>1 DEF Transactions
  <2>3. ValidTransaction(u) /\ PermitsReplacement(journal, u)
    BY <1>1, <2>1, <2>2 DEF ValidTransaction, PhaseEvidenceIsValid, PermitsReplacement, Accounted
  <2> HIDE DEF u
  <2>4. JournalWriteIsAuthorized(u)
    BY <1>1, <2>1, <2>2, <2>3 DEF JournalWriteIsAuthorized, JournalRewriteIsAuthorized
  <2>5. Accounted(u)
    BY <1>1, <2>1, <2>2, <2>3 DEF Accounted, Before
  <2>6. Wrote(u, "uReject")
    BY <1>1, <2>1, <2>2, <2>4, <2>5, Persisted
  <2>7. UpdateAt("uReject")'
    BY <1>1, <2>1, <2>2, <2>6 DEF Wrote, UpdateAt, UpdatePhases, Before, Trying
  <2> QED
    BY <1>1, <2>6, <2>7, UpdatePoints DEF Wrote
<1>6. CASE pc = "uReject"
  <2>1. Exit /\ UNCHANGED <<active, installed, journal, ijournal, enrolled, hostVars, refused>>
    BY <1>6 DEF CommitCandidate, ClearCommitted, RejectThenRecover, Reject
  <2>2. Durable'
    BY <1>1, <2>1, QuietDurable DEF hostVars, Recorded
  <2> QED
    BY <2>1, <2>2, ExitPoints DEF Exit
<1> QED
  BY <1>0, <1>2, <1>3, <1>4, <1>5, <1>6

\* The protocol invariant is inductive.
LEMMA ProtocolStep ==
    ASSUME Calm, AgentInv, WatchInv, ProtocolInv, [Next]_vars
    PROVE  ProtocolInv'
<1>1. CASE BootNext
  BY <1>1, RevertProtocol, PlanProtocol, CompensationProtocol, ExecuteProtocol, RestoreProtocol,
     ConvergeProtocol, FailedProtocol, FinishProtocol, ClearProtocol, CollectProtocol DEF BootNext
<1>2. CASE UpdateNext
  BY <1>2, StartProtocol, TryProtocol, DecideProtocol DEF UpdateNext
<1>3. CASE UNCHANGED vars
  <2>1. UNCHANGED <<active, installed, journal, ijournal, rejected, enrolled, condemned, heads,
                    pc, tx, plan, armed, repaired, bundles, pin, effects, refused>>
    BY <1>3 DEF vars, storeVars, processVars, hostVars
  <2>2. Durable'
    BY <2>1, QuietDurable DEF ProtocolInv, Recorded
  <2>3. PICK s : s = pc
    OBVIOUS
  <2>4. Points(s)
    BY <2>3 DEF ProtocolInv
  <2>5. (Points(s))'
    BY <2>1, <2>4, SamePoints
  <2> QED
    BY <2>1, <2>2, <2>3, <2>5, AtPoint DEF ProtocolInv
<1> QED
  BY <1>1, <1>2, <1>3, InstallProtocol, LoopProtocol, EnvironmentProtocol DEF Next

\* Initially nothing is recorded and no process runs.
LEMMA InitialProtocol == Init => WatchInv /\ ProtocolInv
  BY DEF Init, StoreInit, WatchInv, Watched, ProtocolInv, Durable, HeadOK, InstallOK, Points,
     InstallAt, BootAt, LoopAt, UpdateAt, UpdatePhases, InstallSteps, PlanSteps, LoopSteps,
     UpdateSteps, Starting, Trying, RunningSteps

\* The protocol invariant holds in every behaviour of an agent whose disk does not lie.
LEMMA ProtocolHolds == ASSUME Calm PROVE Spec => [](AgentInv /\ WatchInv /\ ProtocolInv)
<1>1. AgentInv /\ WatchInv /\ ProtocolInv /\ [Next]_vars => (AgentInv /\ WatchInv /\ ProtocolInv)'
  BY EveryStep, WatchStep, ProtocolStep
<1> QED
  BY <1>1, InitialStep, InitialProtocol, PTL DEF Spec

(***************************************************************************)
(* What the protocol invariant says of the agent.                          *)
(***************************************************************************)

\* The protocol never runs into the store's guards: whatever was interrupted, the agent
\* never attempts a write of the journal or of the record that the store must refuse.
THEOREM AgentNeverRefused == ASSUME Calm PROVE Spec => []NeverRefused
<1>1. ProtocolInv => NeverRefused
  BY DEF ProtocolInv, NeverRefused
<1> QED
  BY <1>1, ProtocolHolds, PTL

\* The control loop only runs over a settled node: the pointer names the installed
\* payload, the head is proven and no transaction is open.
THEOREM LoopRunsSettled == ASSUME Calm PROVE Spec => []SettledWhenIdle
<1>1. AgentInv /\ ProtocolInv => SettledWhenIdle
  BY AtLoop DEF LoopSteps, LoopAt, Settled, SettledWhenIdle
<1> QED
  BY <1>1, ProtocolHolds, PTL

\* In recovery the predecessor's hooks and its health gate run only once the candidate's
\* own hook has undone what the candidate did to the machine.
THEOREM CompensationComesFirst == ASSUME Calm PROVE Spec => []CompensatedBeforeRestore
<1>1. ASSUME AgentInv, ProtocolInv, pc \in {"restore", "restored", "gate"}, tx # None
      PROVE  tx.cand.pkg \notin effects
  <2>1. Driving(pc) /\ Accounted(tx)
    BY <1>1, AtBoot DEF PlanSteps
  <2>2. tx.phase \in Clean
    BY <1>1, <2>1 DEF Driving, DrivePhases, Clean
  <2> QED
    BY <2>1, <2>2 DEF Accounted
<1>2. AgentInv /\ ProtocolInv => CompensatedBeforeRestore
  BY <1>1 DEF CompensatedBeforeRestore
<1> QED
  BY <1>2, ProtocolHolds, PTL

\* Garbage collection never takes what a recovery needs: while a guard or an undecided
\* journal stands, the predecessor's tree and the attempt's pinned inputs are there.
THEOREM RecoveryMaterialStays == ASSUME Calm PROVE Spec => []RecoveryMaterialKept
<1>1. ASSUME ProtocolInv, journal # None, DrivesRollback(journal)
      PROVE  Payload(journal.prev) \in bundles /\ pin = journal.id
  <2>1. journal.phase # "RolledBack"
    BY SMT, <1>1, Ranks DEF DrivesRollback, IsRollback, RollbackPhases
  <2>2. journal.phase # "Committed"
    BY <1>1 DEF DrivesRollback, IsRollback, RollbackPhases, CanAdvance, ForwardEdges,
       BeginRollbackEdges, RollbackEdges
  <2> QED
    BY <1>1, <2>1, <2>2 DEF ProtocolInv, Durable, Accounted, Spent
<1>2. ASSUME ProtocolInv, installed # None, installed.guard # None
      PROVE  Payload(installed.guard.prev) \in bundles /\ pin = installed.guard.id
  BY <1>2 DEF ProtocolInv, Durable, HeadOK
<1>3. ProtocolInv => RecoveryMaterialKept
  BY <1>1, <1>2 DEF RecoveryMaterialKept
<1> QED
  BY <1>3, ProtocolHolds, PTL

\* Nothing a release's hooks did to the machine is forgotten: the package is the head's,
\* the guarded predecessor's, or the candidate's of a journal that still compensates it.
THEOREM EffectsAccountedFor == ASSUME Calm PROVE Spec => []NoOrphanEffects
<1>1. ASSUME AgentInv, ProtocolInv, journal # None, journal.cand.pkg \in effects,
             journal.cand.pkg # installed.unit.pkg
      PROVE  /\ DrivesRollback(journal)
             /\ IsRollback(journal) => RecoveryPending(journal, "CandidateCompensated")
  <2>1. journal \in Transactions /\ Accounted(journal) /\ ValidTransaction(journal)
    BY <1>1 DEF AgentInv, TypeOK, StoreTypeOK, ProtocolInv, Durable, Accounted
  <2>2. journal.phase \in Phases \ Clean
    BY <1>1, <2>1, TransactionFields DEF Accounted
  <2>3. journal.phase # "Committed"
    BY <1>1, <2>1, HeadFields DEF Accounted, After
  <2>4. CASE IsRollback(journal)
    BY SMT, <2>2, <2>4, Ranks DEF Clean, IsRollback, RollbackPhases, DrivesRollback
  <2>5. CASE ~IsRollback(journal)
    <3>1. <<journal.phase, "RollbackPlanned">> \in BeginRollbackEdges
      BY <2>2, <2>3, <2>5 DEF Phases, ForwardPhases, IsRollback, BeginRollbackEdges
    <3>2. CanAdvance(journal, "RollbackPlanned")
      BY <2>1, <3>1, Advances DEF Phases, RollbackPhases
    <3> QED
      BY <2>5, <3>2 DEF DrivesRollback
  <2> QED
    BY <2>4, <2>5
<1>2. ASSUME AgentInv, ProtocolInv, NEW p \in effects
      PROVE  installed # None /\ Explained(p)
  BY <1>2 DEF ProtocolInv, Durable, InstallOK
<1>3. AgentInv /\ ProtocolInv => NoOrphanEffects
  BY <1>1, <1>2 DEF NoOrphanEffects, Explained
<1> QED
  BY <1>3, ProtocolHolds, PTL

(***************************************************************************)
(* A condemned candidate is not tried again, under every fault.            *)
(***************************************************************************)

\* The steps before the candidate runs, and those at which a journal may be left over.
Committing == {"uBegin", "uPin", "uPrepared", "uActivate"}
Leaving == {"uClear", "collect", "idle", "disarm", "reconverge", "uBegin"}

\* A boot deletes every journal it found or wrote, so a journal that is still there in
\* the loop is of a committed update and carries no verdict.
CondemnInv ==
    /\ pc \in PlanSteps /\ (journal # None \/ tx # None) => plan.clear \/ plan.defer
    /\ pc \in Leaving /\ journal # None => ~journal.reject
    /\ pc \in Committing => tx.cand \notin condemned /\ ~tx.reject

\* A boot plans to delete the journal it found, and the one it is about to write.
LEMMA CondemnPlan == ASSUME AgentInv, MakePlan PROVE CondemnInv'
<1> DEFINE t == RecoveryTransaction
<1>1. t = RecoveryTransaction
  OBVIOUS
<1>2. t # None /\ journal = None => IsRollback(t)
  BY <1>1 DEF RecoveryTransaction, RollbackOfGuarded, IsRollback, RollbackPhases
<1> HIDE DEF t
<1>3. PlanBoot.clear <=> journal # None
  BY DEF PlanBoot
<1>4. PlanBoot.defer <=> t # None /\ IsRollback(t)
  BY <1>1 DEF PlanBoot
<1>5. CASE Refuse
  BY <1>5 DEF Refuse, Exit, ExitTo, CondemnInv, PlanSteps, Leaving, Committing
<1>6. CASE ~Refuse
  <2>1. /\ plan' = PlanBoot /\ pc' = "compensate"
        /\ t = None => tx' = None /\ journal' = journal
    BY <1>1, <1>6 DEF MakePlan, storeVars
  <2>2. t = None /\ (journal' # None \/ tx' # None) => plan'.clear
    BY <2>1, <1>3
  <2>3. t # None => plan'.clear \/ plan'.defer
    BY <2>1, <1>2, <1>3, <1>4
  <2> QED
    BY <2>1, <2>2, <2>3 DEF CondemnInv, PlanSteps, Leaving, Committing
<1> QED
  BY <1>5, <1>6

\* Each boot step keeps the plan and writes only the transaction it drives.
LEMMA CondemnBoot == ASSUME AgentInv, CondemnInv, BootNext PROVE CondemnInv'
<1> USE DEF PlanSteps, Leaving, Committing
<1>1. CASE VerifyInstalled \/ Revert \/ JournalRevert
  <2>1. pc' \notin PlanSteps \cup Leaving \cup Committing
    BY <1>1 DEF VerifyInstalled, Revert, JournalRevert, RepairCommittedBundle,
       RepairFromAssignment, JournalPredecessorFallback, Persist, Clear, Skip, Goto, Refuse,
       Fail, Exit, ExitTo
  <2> QED
    BY <2>1 DEF CondemnInv
<1>2. CASE MakePlan
  BY <1>2, CondemnPlan
<1>3. CASE CompensateCandidate \/ RestorePredecessor \/ BootConverge \/ BootGate
           \/ ReportSettled \/ ExecuteBootPlan
  BY <1>3 DEF CompensateCandidate, RestorePredecessor, BootConverge, BootGate, ReportSettled,
     ExecuteBootPlan, HookCompletes, HookFaults, HookIsInconclusive, Activate, PointActive,
     Commit, CommitInstalled, Reject, Skip, Goto, Refuse, Fail, Exit, ExitTo, storeVars,
     CondemnInv
<1>4. CASE RecordCompensation \/ RecordRestored \/ GateFailed \/ Settle \/ FinishRollback
  <2>1. tx = None =>
          UNCHANGED <<plan, tx, journal>> \/ pc' \notin PlanSteps \cup Leaving \cup Committing
    BY <1>4 DEF RecordCompensation, RecordRestored, GateFailed, Settle, FinishRollback, Pending,
       AgentInv, ControlOK, TxSteps, Reject, Skip, Goto, Fail, Exit, ExitTo, storeVars
  <2>2. /\ UNCHANGED plan \/ pc' \notin PlanSteps
        /\ pc' \notin Leaving \cup Committing /\ pc \in PlanSteps
    BY <1>4 DEF RecordCompensation, RecordRestored, GateFailed, Settle, FinishRollback,
       StalledAdvance, Persist, Reject, Skip, Goto, Refuse, Fail, Exit, ExitTo
  <2> QED
    BY <2>1, <2>2 DEF CondemnInv
<1>5. CASE ConfirmProvisional \/ FinalCommit
  BY <1>5 DEF ConfirmProvisional, FinalCommit, Commit, CommitInstalled, Skip, Goto, Refuse, Exit,
     ExitTo, storeVars, CondemnInv
<1>6. CASE ClearRecovered
  BY <1>6 DEF ClearRecovered, Clear, ClearJournal, Skip, Goto, Refuse, Exit, ExitTo, storeVars,
     CondemnInv
<1>7. CASE GarbageCollect
  BY <1>7 DEF GarbageCollect, storeVars, CondemnInv
<1> QED
  BY <1>1, <1>2, <1>3, <1>4, <1>5, <1>6, <1>7 DEF BootNext

\* The loop, the update and the environment keep it as well.
LEMMA CondemnStep ==
    ASSUME AgentInv, VerdictKept, CondemnInv, [Next]_vars
    PROVE  CondemnInv'
<1> USE DEF PlanSteps, Leaving, Committing
<1>1. CASE Launch \/ InstallNext \/ Environment
  <2>1. CASE Launch \/ Crash \/ HostReboots \/ InstallNext
    <3>1. pc' \notin PlanSteps \cup Leaving \cup Committing
      BY <2>1 DEF Launch, Crash, HostReboots, InstallNext, EnsureInstalled, ApplyInstall,
         PlaceAndCommit, ClearInstall, AdvanceInstall, PersistInstall, Commit, Activate, Skip,
         Goto, Refuse, Fail, Exit, ExitTo
    <3> QED
      BY <3>1 DEF CondemnInv
  <2>2. CASE OperatorResolves \/ Corrupt \/ Drift
    BY <2>2 DEF OperatorResolves, Corrupt, Drift, PointActive, processVars, storeVars, CondemnInv
  <2> QED
    BY <1>1, <2>1, <2>2 DEF Environment
<1>2. CASE LoopNext
  <2>1. CASE RepairInLoop
    BY <2>1 DEF RepairInLoop, RepairCommittedBundle, RepairFromAssignment, PointActive,
       JournalPredecessorFallback, Refuse, Fail, Exit, ExitTo, CondemnInv
  <2>2. CASE ~RepairInLoop
    BY <1>2, <2>2 DEF LoopNext, ProbeUnconfirmed, DisarmUpdateRollback, BeginReconverge,
       ReconvergeEnvironment, RebindLineage, RejectMalformed, Intact, Commit, CommitInstalled,
       Reject, HookCompletes, HookIsInconclusive, Skip, Goto, Refuse, Exit, ExitTo, storeVars,
       CondemnInv
  <2> QED
    BY <2>1, <2>2
<1>3. CASE SelectCandidate
  <2>1. PICK d \in Deployments, id \in Fresh :
          /\ ~RejectsDeployment(d)
          /\ tx' = [id |-> id, prev |-> installed.unit, cand |-> d, reject |-> FALSE,
                    fails |-> 0, phase |-> "Prepared"]
    BY <1>3 DEF SelectCandidate
  <2>2. pc = "idle" /\ pc' = "uBegin" /\ UNCHANGED <<journal, condemned>>
    BY <1>3 DEF SelectCandidate, Intact, storeVars
  <2>3. d \notin condemned
    BY <2>1, <2>2 DEF CondemnInv, VerdictKept, RejectsDeployment, RejectionIsDurable, Evidence
  <2> QED
    BY <2>1, <2>2, <2>3 DEF CondemnInv
<1>4. CASE ExecuteUpdate \/ ActivateCandidate
  BY <1>4 DEF ExecuteUpdate, ActivateCandidate, Persist, WriteJournal, Clear, ClearJournal,
     Activate, PointActive, Skip, Goto, Refuse, Fail, Exit, ExitTo, storeVars, CondemnInv
<1>5. CASE CommitCandidate
  <2>1. pc' # "uClear" => pc' \notin PlanSteps \cup Leaving \cup Committing
    BY <1>5 DEF CommitCandidate, Persist, Commit, Goto, Refuse, Exit, ExitTo
  <2>2. pc' = "uClear" => ValidTransaction(At(tx, "Committed")) /\ journal' = At(tx, "Committed")
    BY <1>5 DEF CommitCandidate, Persist, WriteJournal, JournalWriteIsAuthorized, Commit, Goto,
       Refuse, Exit, ExitTo
  <2>3. At(tx, "Committed").phase = "Committed"
    BY <1>5, AtFields DEF CommitCandidate, AgentInv, TypeOK, ControlOK, TxSteps, UpdateSteps,
       Phases, ForwardPhases
  <2>4. ValidTransaction(At(tx, "Committed")) => ~At(tx, "Committed").reject
    BY <2>3 DEF ValidTransaction, PhaseEvidenceIsValid, RollbackPhases
  <2> QED
    BY <2>1, <2>2, <2>4 DEF CondemnInv
<1>6. CASE ConvergeCandidate \/ GateCandidate \/ RejectThenRecover
  <2>1. pc' \notin PlanSteps \cup Leaving \cup Committing
    BY <1>6 DEF ConvergeCandidate, GateCandidate, RejectThenRecover, HookCompletes, HookFaults,
       HookIsInconclusive, Persist, Skip, Goto, Refuse, Fail, Exit, ExitTo
  <2> QED
    BY <2>1 DEF CondemnInv
<1>7. CASE ClearCommitted
  BY <1>7 DEF ClearCommitted, ClearJournal, storeVars, CondemnInv
<1>8. CASE UNCHANGED vars
  BY <1>8 DEF vars, storeVars, processVars, CondemnInv
<1> QED
  BY <1>1, <1>2, <1>3, <1>4, <1>5, <1>6, <1>7, <1>8, CondemnBoot DEF Next, UpdateNext

\* A candidate a journal recorded a verdict against is never activated again under that
\* lineage: the update path consults the ledger, and the loop is never entered while a
\* verdict is still only in a journal.
THEOREM CondemnedStaysUntried == Spec => CondemnedNeverRetried
<1>1. Init => CondemnInv
  BY DEF Init, StoreInit, CondemnInv, PlanSteps, Leaving, Committing
<1>2. CondemnInv /\ [Next]_vars => [pc = "uActivate" /\ pc' = "uActivated"
                                      => tx.cand \notin condemned]_vars
  BY DEF CondemnInv, Committing
<1> QED
  BY <1>1, <1>2, InitialStep, EveryStep, CondemnStep, AgentVerdictKept, PTL
     DEF Spec, CondemnedNeverRetried

=============================================================================
