------------------------------ MODULE NodeAgent ------------------------------
(***************************************************************************)
(* The node agent: one disposable process that boots, recovers, runs its   *)
(* control loop and updates the application, over the durable store.       *)
(*                                                                         *)
(* Every step makes at most one durable write or invokes one hook of the   *)
(* release's reconciler, so Crash between any two steps covers a process   *)
(* death, a power loss and every write error that ends the process.  A     *)
(* write the store refuses also ends the process; refused remembers it.    *)
(***************************************************************************)
EXTENDS DurableStore

CONSTANTS
    Malformed,                  \* packages whose archive cannot be staged
    MaxRollbackHealthAttempts,  \* boots that may fail the rollback gate
    \* Faults beyond a crash, each enabled by the runs that study it:
    ClearMayFail,    \* deleting the journal after a commit fails, tolerated
    ConfirmMayTear,  \* the confirming write lands but reports an error
    WritesMayStall,  \* a recovery write fails and the step is retried in place
    MayCorrupt,      \* a release tree on disk stops verifying
    MayDrift         \* the active pointer changes while the agent is down

ASSUME AgentAssumption ==
    /\ MaxRollbackHealthAttempts \in 1 .. MaxFailures
    /\ {ClearMayFail, ConfirmMayTear, WritesMayStall, MayCorrupt, MayDrift} \subseteq BOOLEAN

VARIABLES
    pc,        \* the next step of the process; "down" once it exited, "killed" otherwise
    tx,        \* in-memory recovery or update transaction, or None
    plan,      \* the boot plan, or None
    armed,     \* the loop's in-memory unconfirmed update
    repaired,  \* this boot re-acquired the committed tree
    bundles,   \* payload trees on disk that verify
    pin,       \* attempt whose recovery inputs are pinned on disk, or None
    reboot,    \* a hook-requested reboot of this OS boot is owed
    held,      \* an operator attention hold is on disk
    effects,   \* history: packages whose hooks changed the machine and still stand
    refused    \* history: the store refused one of the agent's own writes

processVars == <<pc, tx, plan, armed, repaired>>
hostVars == <<bundles, pin, reboot, held, effects>>
vars == <<storeVars, processVars, hostVars, refused>>

Plans == [act : Payloads \cup {None}, commit : InstalledStates \cup {None},
          reject : Deployments \cup {None}, clear : BOOLEAN, defer : BOOLEAN]

ASSUME PlanAssumption == None \notin Plans

BootSteps == {"ensure", "verify", "plan", "compensate", "compensated", "activate",
              "commit", "reject", "restore", "restored", "converge", "gate", "failed",
              "settle", "report", "revert", "revertJournal", "revertReject", "confirm",
              "rollbackVerified", "rolledBack", "finalCommit", "clear", "collect"}

InstallSteps == {"iPrepared", "iActivate", "iPlaced", "iEnroll", "iCommit", "iCommitted",
                 "iClear"}

UpdateSteps == {"uBegin", "uPin", "uPrepared", "uActivate", "uActivated", "uConverge",
                "uConverged", "uGate", "uVerified", "uCommit", "uCommitted", "uClear",
                "uVerdict", "uReject"}

Steps == {"down", "killed", "idle", "disarm", "reconverge", "rebooting"}
             \cup BootSteps \cup InstallSteps \cup UpdateSteps

TypeOK ==
    /\ StoreTypeOK
    /\ pc \in Steps
    /\ tx \in Transactions \cup {None}
    /\ plan \in Plans \cup {None}
    /\ {armed, repaired, reboot, held, refused} \subseteq BOOLEAN
    /\ bundles \subseteq Payloads
    /\ pin \in Ids \cup {None}
    /\ effects \subseteq Packages

Init ==
    /\ StoreInit
    /\ pc = "down"
    /\ tx = None
    /\ plan = None
    /\ armed = FALSE
    /\ repaired = FALSE
    /\ bundles = {}
    /\ pin = None
    /\ reboot = FALSE
    /\ held = FALSE
    /\ effects = {}
    /\ refused = FALSE

(***************************************************************************)
(* Control flow and guarded durable writes.                                *)
(***************************************************************************)
Goto(step) == pc' = step /\ UNCHANGED <<tx, plan, armed, repaired>>

\* The process ends; only durable state survives it.
ExitTo(step) ==
    /\ pc' = step
    /\ tx' = None
    /\ plan' = None
    /\ armed' = FALSE
    /\ repaired' = FALSE

Exit == ExitTo("down")

Refuse == Exit /\ refused' = TRUE /\ UNCHANGED storeVars

Skip(step) == Goto(step) /\ UNCHANGED <<storeVars, hostVars, refused>>

Fail == Exit /\ UNCHANGED <<storeVars, hostVars, refused>>

\* persist_transaction of next, which becomes the in-memory transaction.
Persist(next, step) ==
    /\ UNCHANGED hostVars
    /\ IF JournalWriteIsAuthorized(next)
       THEN /\ WriteJournal(next)
            /\ pc' = step
            /\ tx' = next
            /\ UNCHANGED <<plan, armed, repaired, refused>>
       ELSE Refuse

Commit(next, step) ==
    /\ UNCHANGED hostVars
    /\ IF CommitIsAuthorized(next)
       THEN CommitInstalled(next) /\ Goto(step) /\ UNCHANGED refused
       ELSE Refuse

Clear(step) ==
    /\ UNCHANGED hostVars
    /\ IF ClearIsAuthorized
       THEN ClearJournal /\ Goto(step) /\ UNCHANGED refused
       ELSE Refuse

\* Store::activate: a tree that does not verify ends the process.
Activate(p, step) ==
    /\ UNCHANGED <<hostVars, refused>>
    /\ IF p \in bundles THEN PointActive(p) /\ Goto(step) ELSE Exit /\ UNCHANGED storeVars

(***************************************************************************)
(* Hooks of a release's reconciler.  A completed mutation may owe a        *)
(* reboot, recorded before anything else; an inconclusive one, or one that *)
(* asks for the operator, leaves no verdict and ends the process.          *)
(***************************************************************************)
HookCompletes(after, step) ==
    /\ effects' = after
    /\ reboot' \in BOOLEAN
    /\ Goto(IF reboot' /\ step \in {"gate", "idle"} THEN "rebooting" ELSE step)
    /\ UNCHANGED <<storeVars, bundles, pin, held, refused>>

HookIsInconclusive(after) ==
    /\ effects' \in {effects, after}
    /\ held' \in BOOLEAN
    /\ Exit
    /\ UNCHANGED <<storeVars, bundles, pin, reboot, refused>>

HookFaults(after, step) ==
    /\ effects' = after
    /\ Goto(step)
    /\ UNCHANGED <<storeVars, bundles, pin, reboot, held, refused>>

(***************************************************************************)
(* Launch and first install.                                               *)
(***************************************************************************)
\* Mutant: a relaunch in the same OS boot forgets the reboot it owes.
MutForgetReboot == pc \in {"down", "killed"} /\ ~held /\ Skip("ensure")

Launch ==
    pc \in {"down", "killed"} /\ ~held /\ Skip(IF reboot THEN "rebooting" ELSE "ensure")

LiveIds == {r.id : r \in {journal, ijournal} \ {None}} \cup {pin}
               \cup IF installed = None \/ installed.guard = None THEN {}
                    ELSE {installed.guard.id}

Fresh == Ids \ LiveIds

PersistInstall(next, step) ==
    IF InstallWriteIsAuthorized(next)
    THEN WriteInstallJournal(next) /\ Goto(step) /\ UNCHANGED refused
    ELSE Refuse

\* A rejected installation that never passed a gate is held for explicit recovery.
RejectedProvisional ==
    /\ ~installed.proven
    /\ journal = None
    /\ RejectsDeployment(installed.unit)

EnsureInstalled ==
    /\ pc = "ensure"
    /\ IF ijournal # None
       THEN Skip(IF InstallCommitted(ijournal, installed) THEN "iClear" ELSE "iPrepared")
       ELSE /\ installed # None \/ enrolled
            /\ IF installed = None \/ ~enrolled \/ RejectedProvisional
               THEN Fail
               ELSE Skip("verify")

\* apply_install: a malformed archive is rejected and the route planned again.
ApplyInstall ==
    /\ pc = "ensure"
    /\ ijournal = None /\ installed = None /\ ~enrolled
    /\ UNCHANGED <<pin, reboot, held, effects>>
    /\ \E d \in Deployments :
         /\ ~RejectsDeployment(d)
         /\ IF d.pkg \in Malformed
            THEN Reject("artifact", d) /\ Goto("ensure") /\ UNCHANGED <<bundles, refused>>
            ELSE /\ bundles' = bundles \cup {Payload(d)}
                 /\ \E id \in Fresh :
                      PersistInstall([id |-> id, unit |-> d, phase |-> "Started"], "iPrepared")

AdvanceInstall(step, from, to, next) ==
    /\ pc = step
    /\ UNCHANGED hostVars
    /\ IF ijournal.phase = from
       THEN PersistInstall(At(ijournal, to), next)
       ELSE Goto(next) /\ UNCHANGED <<storeVars, refused>>

PlaceAndCommit ==
    \/ AdvanceInstall("iPrepared", "Started", "Prepared", "iActivate")
    \/ pc = "iActivate" /\ Activate(Payload(ijournal.unit), "iPlaced")
    \/ AdvanceInstall("iPlaced", "Prepared", "Placed", "iEnroll")
    \/ /\ pc = "iEnroll"
       /\ IF enrolled THEN UNCHANGED storeVars ELSE RecordFirstInstall
       /\ Goto("iCommit")
       /\ UNCHANGED <<hostVars, refused>>
    \/ pc = "iCommit" /\ Commit(Provisional(ijournal.unit), "iCommitted")
    \/ AdvanceInstall("iCommitted", "Placed", "Committed", "iClear")

ClearInstall ==
    /\ pc = "iClear"
    /\ UNCHANGED hostVars
    /\ IF ClearInstallIsAuthorized
       THEN ClearInstallJournal /\ Goto("verify") /\ UNCHANGED refused
       ELSE Refuse

(***************************************************************************)
(* The boot plan: pure decisions over the durable situation.               *)
(***************************************************************************)
DrivesRollback(t) ==
    IF IsRollback(t) THEN RecoveryPending(t, "RolledBack") ELSE CanAdvance(t, "RollbackPlanned")

\* A journal that can drive nothing is spent, wherever the pointer is.
JournalRecovery ==
    LET seen == ClassifyRecovery(journal, active, installed)
    IN IF seen = "RestorePredecessor" /\ ~DrivesRollback(journal) THEN "Committed" ELSE seen

\* The pointer proves an interrupted revert only if it left the installed payload.
PredecessorIsActive ==
    /\ installed.guard # None
    /\ Payload(installed.guard.prev) # Payload(installed.unit)
    /\ active = Payload(installed.guard.prev)

RollbackOfGuarded(reject) ==
    [id |-> installed.guard.id, prev |-> installed.guard.prev, cand |-> installed.unit,
     reject |-> reject, fails |-> 0, phase |-> "RollbackPlanned"]

RecoveryTransaction ==
    IF journal # None /\ JournalRecovery # "Committed"
    THEN IF JournalRecovery = "RestorePredecessor" THEN journal ELSE None
    ELSE IF PredecessorIsActive THEN RollbackOfGuarded(FALSE) ELSE None

ReconcileTransaction ==
    [act |-> IF JournalRecovery = "RestorePredecessor" THEN Payload(journal.prev) ELSE None,
     commit |-> IF IsRollback(journal) THEN Proven(journal.prev) ELSE None]

CompletePendingRollback ==
    [act |-> Payload(installed.guard.prev), commit |-> Proven(installed.guard.prev)]
\* Mutant: a boot trusts the pointer it finds.
MutTrustPointer == [act |-> None, commit |-> None]

EnforceInstalled ==
    [act |-> IF active = Payload(installed.unit) THEN None ELSE Payload(installed.unit),
     commit |-> None]
\* Mutant: the restored record is committed before the rollback gate.
MutCommitBeforeGate ==
    LET carries == journal # None /\ JournalRecovery # "Committed"
        fix == IF carries THEN ReconcileTransaction
               ELSE IF PredecessorIsActive THEN CompletePendingRollback ELSE EnforceInstalled
    IN [act |-> fix.act, commit |-> fix.commit,
        reject |-> IF journal # None /\ journal.reject THEN journal.cand ELSE None,
        clear |-> journal # None,
        defer |-> FALSE]

PlanBoot ==
    LET carries == journal # None /\ JournalRecovery # "Committed"
        fix == IF carries THEN ReconcileTransaction
               ELSE IF PredecessorIsActive THEN CompletePendingRollback ELSE EnforceInstalled
    IN [act |-> fix.act, commit |-> fix.commit,
        reject |-> IF journal # None /\ journal.reject THEN journal.cand ELSE None,
        clear |-> journal # None,
        defer |-> RecoveryTransaction # None /\ IsRollback(RecoveryTransaction)]

(***************************************************************************)
(* Repair of a committed tree that no longer verifies: re-acquire exactly  *)
(* that artifact, or journal a revert to the intact predecessor.           *)
(***************************************************************************)
RepairFromAssignment(step) ==
    /\ bundles' = bundles \cup {Payload(installed.unit)}
    /\ PointActive(Payload(installed.unit))
    /\ pc' = step
    /\ repaired' = (step = "plan")
    /\ armed' = (step # "plan" /\ installed.guard # None)
    /\ UNCHANGED <<tx, plan, pin, reboot, held, effects, refused>>

JournalPredecessorFallback(step) ==
    /\ installed.guard # None
    /\ Payload(installed.guard.prev) \in bundles
    /\ UNCHANGED hostVars
    /\ IF JournalWriteIsAuthorized(RollbackOfGuarded(FALSE))
       THEN /\ WriteJournal(RollbackOfGuarded(FALSE))
            /\ IF step = "down" THEN Exit ELSE Goto(step)
            /\ UNCHANGED refused
       ELSE Refuse

RepairCommittedBundle(step, journaled) ==
    /\ Payload(installed.unit) \notin bundles
    /\ \/ RepairFromAssignment(step)
       \/ JournalPredecessorFallback(journaled)
       \/ (installed.guard # None => Payload(installed.guard.prev) \notin bundles) /\ Fail

VerifyInstalled ==
    /\ pc = "verify"
    /\ \/ Payload(installed.unit) \in bundles /\ Skip("plan")
       \/ RepairCommittedBundle("plan", "plan")

(***************************************************************************)
(* Boot recovery.                                                          *)
(***************************************************************************)
MakePlan ==
    LET t == RecoveryTransaction
        next == IF IsRollback(t) THEN t ELSE At(t, "RollbackPlanned")
    IN /\ pc = "plan"
       /\ UNCHANGED hostVars
       /\ IF t # None /\ journal # next /\ ~JournalWriteIsAuthorized(next)
          THEN Refuse
          ELSE /\ IF t = None THEN tx' = None ELSE tx' = next
               /\ IF t = None \/ journal = next THEN UNCHANGED storeVars ELSE WriteJournal(next)
               /\ plan' = PlanBoot
               /\ pc' = "compensate"
               /\ UNCHANGED <<armed, repaired, refused>>

Pending(phase) == tx # None /\ RecoveryPending(tx, phase)

\* advance_transaction inside a step that is retried in place on a transient
\* fault: the retry finds the in-memory phase already advanced.
StalledAdvance(phase, step) ==
    /\ WritesMayStall
    /\ UNCHANGED storeVars \/ WriteJournal(At(tx, phase))
    /\ tx' = At(tx, phase)
    /\ pc' = step
    /\ UNCHANGED <<hostVars, plan, armed, repaired, refused>>
\* Mutant: compensation is recorded without running the candidate's hook.
MutRecordOnly ==
    /\ pc = "compensate"
    /\ Skip(IF Pending("CandidateCompensated") THEN "compensated" ELSE "activate")

\* Mutant: recovery goes on to the predecessor without compensating the candidate.
MutNoCompensation == pc = "compensate" /\ Skip("activate")

CompensateCandidate ==
    /\ pc = "compensate"
    /\ \/ ~Pending("CandidateCompensated") /\ Skip("activate")
       \/ /\ Pending("CandidateCompensated")
          /\ \/ HookCompletes(effects \ {tx.cand.pkg}, "compensated")
             \/ HookIsInconclusive(effects)

RecordCompensation ==
    /\ pc = "compensated"
    /\ \/ Persist(At(tx, "CandidateCompensated"), IF reboot THEN "rebooting" ELSE "activate")
       \/ StalledAdvance("CandidateCompensated", "activate")

ExecuteBootPlan ==
    \/ /\ pc = "activate"
       /\ IF /\ plan.act # None
             /\ tx = None \/ (~Pending("CandidateCompensated") /\ Pending("Restored"))
          THEN Activate(plan.act, "commit")
          ELSE Skip("commit")
    \/ /\ pc = "commit"
       /\ IF plan.commit # None /\ ~plan.defer
          THEN Commit(plan.commit, "reject")
          ELSE Skip("reject")
    \/ /\ pc = "reject"
       /\ IF plan.reject = None THEN UNCHANGED storeVars ELSE Reject("deployment", plan.reject)
       /\ armed' = (installed.guard # None)
       /\ pc' = IF tx = None THEN "converge" ELSE "restore"
       /\ UNCHANGED <<tx, plan, repaired, hostVars, refused>>

RestorePredecessor ==
    /\ pc = "restore"
    /\ \/ HookCompletes(effects \cup {tx.prev.pkg}, "restored")
       \/ HookIsInconclusive(effects \cup {tx.prev.pkg})

RecordRestored ==
    /\ pc = "restored"
    /\ \/ /\ Pending("Restored")
          /\ \/ Persist(At(tx, "Restored"), IF reboot THEN "rebooting" ELSE "gate")
             \/ StalledAdvance("Restored", "restore")
       \/ ~Pending("Restored") /\ Skip(IF reboot THEN "rebooting" ELSE "gate")

BootConverge ==
    /\ pc = "converge"
    /\ LET after == effects \cup {installed.unit.pkg}
       IN \/ HookCompletes(after, "gate")
          \/ HookFaults(after, "failed")
          \/ HookIsInconclusive(after)

BootGate == pc = "gate" /\ (Skip("confirm") \/ Skip("failed"))
\* Mutant: a failed gate on a settled head ends the boot.
MutGateEndsBoot ==
    /\ pc = "failed"
    /\ IF tx # None
       THEN IF MayRecordHealthFailure(tx) THEN Persist(WithHealthFailure(tx), "settle") ELSE Fail
       ELSE IF installed.guard # None
            THEN Skip("revert")
            ELSE IF installed.proven
                 THEN Fail
                 ELSE /\ Reject("deployment", installed.unit)
                      /\ Exit
                      /\ UNCHANGED <<hostVars, refused>>

\* plan_gate_failure, after bound_unhealthy_rollback counted a rollback's failure.
GateFailed ==
    /\ pc = "failed"
    /\ IF tx # None
       THEN IF MayRecordHealthFailure(tx) THEN Persist(WithHealthFailure(tx), "settle") ELSE Fail
       ELSE IF installed.guard # None
            THEN Skip("revert")
            ELSE IF installed.proven
                 THEN Skip("rollbackVerified")
                 ELSE /\ Reject("deployment", installed.unit)
                      /\ Exit
                      /\ UNCHANGED <<hostVars, refused>>

Settle ==
    /\ pc = "settle"
    /\ IF tx.fails < MaxRollbackHealthAttempts THEN Fail ELSE Persist(At(tx, "RolledBack"), "report")

ReportSettled ==
    /\ pc = "report"
    /\ IF plan.commit = None THEN Fail ELSE Skip("rollbackVerified")

ConfirmProvisional ==
    /\ pc = "confirm"
    /\ IF installed.proven
       THEN Skip("rollbackVerified")
       ELSE Commit([installed EXCEPT !.proven = TRUE], "rollbackVerified")

FinishRollback ==
    \/ /\ pc = "rollbackVerified"
       /\ IF Pending("RollbackVerified")
          THEN Persist(At(tx, "RollbackVerified"), "rolledBack")
          ELSE Skip("rolledBack")
    \/ /\ pc = "rolledBack"
       /\ IF Pending("RolledBack")
          THEN Persist(At(tx, "RolledBack"), "finalCommit")
          ELSE Skip("finalCommit")
\* Mutant: the final commit also deletes the journal, past the store's own check.
MutCommitAndForget ==
    /\ pc = "finalCommit"
    /\ IF plan.defer /\ plan.commit # None
       THEN /\ installed' = plan.commit
            /\ journal' = None
            /\ heads' = heads \cup {plan.commit.unit}
            /\ pc' = "clear"
            /\ armed' = (plan.commit.guard # None)
            /\ UNCHANGED <<active, ijournal, rejected, enrolled, condemned, tx, plan, repaired,
                           hostVars, refused>>
       ELSE Skip("clear")

FinalCommit ==
    /\ pc = "finalCommit"
    /\ IF plan.defer /\ plan.commit # None
       THEN /\ UNCHANGED hostVars
            /\ IF CommitIsAuthorized(plan.commit)
               THEN /\ CommitInstalled(plan.commit)
                    /\ pc' = "clear"
                    /\ armed' = (plan.commit.guard # None)
                    /\ UNCHANGED <<tx, plan, repaired, refused>>
               ELSE Refuse
       ELSE Skip("clear")

ClearRecovered ==
    /\ pc = "clear"
    /\ IF plan.clear \/ plan.defer THEN Clear("collect") ELSE Skip("collect")
\* Mutant: only the installed payload survives garbage collection.
MutProtectHeadOnly == {Payload(installed.unit)}

Protected == {Payload(installed.unit)}
                 \cup IF installed.guard = None THEN {} ELSE {Payload(installed.guard.prev)}

\* garbage_collect, after which the loop goes on or the host reboots.
GarbageCollect ==
    /\ pc = "collect"
    /\ \E gone \in SUBSET (bundles \ Protected) : bundles' = bundles \ gone
    /\ pin' \in {pin, IF installed.guard = None /\ journal = None THEN None ELSE pin}
    /\ pc' = IF reboot THEN "rebooting" ELSE "idle"
    /\ tx' = None
    /\ plan' = None
    /\ repaired' = FALSE
    /\ UNCHANGED <<storeVars, armed, reboot, held, effects, refused>>

(***************************************************************************)
(* revert_guarded_head, from the boot gate and the confirmation window.    *)
(***************************************************************************)
Revert ==
    /\ pc = "revert"
    /\ IF installed.guard = None
       THEN Fail  \* panics: a guarded head has a rollback guard
       ELSE IF journal # None /\ JournalRecovery = "Committed"
            THEN Clear("revertJournal")
            ELSE Skip("revertJournal")

JournalRevert ==
    \/ pc = "revertJournal" /\ Persist(RollbackOfGuarded(~repaired), "revertReject")
    \/ /\ pc = "revertReject"
       /\ IF tx.reject THEN Reject("deployment", tx.cand) ELSE UNCHANGED storeVars
       /\ Exit
       /\ UNCHANGED <<hostVars, refused>>

(***************************************************************************)
(* The control loop.  Timers are nondeterministic: a probe, the end of the *)
(* confirmation window and a cycle may come in any order.                  *)
(***************************************************************************)
ProbeUnconfirmed == pc = "idle" /\ armed /\ (Skip("disarm") \/ Skip("revert"))

\* disarm_update_rollback: a failed confirmation keeps the in-memory intent.
DisarmUpdateRollback ==
    LET settled == [installed EXCEPT !.guard = None]
    IN /\ pc = "disarm"
       /\ UNCHANGED <<tx, plan, repaired, bundles, pin, reboot, held>>
       /\ \/ /\ installed.guard = None
             /\ pc' = "collect" /\ armed' = FALSE
             /\ UNCHANGED <<storeVars, effects, refused>>
          \/ /\ installed.guard # None /\ CommitIsAuthorized(settled)
             /\ CommitInstalled(settled)
             /\ effects' = effects \ {installed.guard.prev.pkg}
             /\ \/ pc' = "collect" /\ armed' = FALSE
                \/ ConfirmMayTear /\ pc' = "idle" /\ UNCHANGED armed
             /\ UNCHANGED refused
          \/ /\ installed.guard # None
             /\ refused' = (refused \/ ~CommitIsAuthorized(settled))
             /\ pc' = "idle"
             /\ UNCHANGED <<storeVars, armed, effects>>

RepairInLoop == pc = "idle" /\ RepairCommittedBundle("reconverge", "down")

Intact == pc = "idle" /\ Payload(installed.unit) \in bundles

\* A runtime change, or a cycle with nothing new to select.
BeginReconverge == Intact /\ ~armed /\ Skip("reconverge")

ReconvergeEnvironment ==
    /\ pc = "reconverge"
    /\ LET after == effects \cup {installed.unit.pkg}
       IN HookCompletes(after, "idle") \/ HookIsInconclusive(after)

\* check_application with no hop to take: only the repository lineage may move.
RebindLineage ==
    /\ Intact /\ ~armed
    /\ \E l \in Lineages \ {installed.unit.lin} :
         Commit([installed EXCEPT !.unit.lin = l], "reconverge")

RejectMalformed ==
    /\ Intact /\ ~armed
    /\ \E d \in Deployments :
         /\ d.pkg \in Malformed
         /\ ~RejectsDeployment(d)
         /\ Reject("artifact", d)
    /\ Goto("reconverge")
    /\ UNCHANGED <<hostVars, refused>>

(***************************************************************************)
(* An application update.                                                  *)
(***************************************************************************)
\* Mutant: selection does not consult the rejection ledger.
MutSelectRejected ==
    /\ Intact /\ ~armed
    /\ \E d \in Deployments, id \in Fresh :
         /\ d.pkg \notin Malformed \cup {installed.unit.pkg}
         /\ bundles' = bundles \cup {Payload(d)}
         /\ tx' = [id |-> id, prev |-> installed.unit, cand |-> d, reject |-> FALSE,
                   fails |-> 0, phase |-> "Prepared"]
    /\ pc' = "uBegin"
    /\ UNCHANGED <<storeVars, plan, armed, repaired, pin, reboot, held, effects, refused>>

SelectCandidate ==
    /\ Intact /\ ~armed
    /\ \E d \in Deployments, id \in Fresh :
         /\ d.pkg \notin Malformed \cup {installed.unit.pkg}
         /\ ~RejectsDeployment(d)
         /\ bundles' = bundles \cup {Payload(d)}
         /\ tx' = [id |-> id, prev |-> installed.unit, cand |-> d, reject |-> FALSE,
                   fails |-> 0, phase |-> "Prepared"]
    /\ pc' = "uBegin"
    /\ UNCHANGED <<storeVars, plan, armed, repaired, pin, reboot, held, effects, refused>>

ExecuteUpdate ==
    \/ /\ pc = "uBegin"
       /\ IF journal = None THEN Skip("uPin")
          ELSE IF DrivesRollback(journal) THEN Fail ELSE Clear("uPin")
    \/ /\ pc = "uPin"
       /\ pin' = tx.id
       /\ Goto("uPrepared")
       /\ UNCHANGED <<storeVars, bundles, reboot, held, effects, refused>>
    \/ pc = "uPrepared" /\ Persist(tx, "uActivate")

GuardedHead(t) ==
    [unit |-> t.cand, guard |-> [id |-> t.id, prev |-> t.prev], proven |-> TRUE]

ActivateCandidate ==
    \/ pc = "uActivate" /\ Activate(Payload(tx.cand), "uActivated")
    \/ pc = "uActivated" /\ Persist(At(tx, "Activated"), "uConverge")

ConvergeCandidate ==
    /\ pc = "uConverge"
    /\ LET after == effects \cup {tx.cand.pkg}
       IN \/ HookCompletes(after, "uConverged")
          \/ HookFaults(after, "uVerdict")
          \/ HookIsInconclusive(after)

GateCandidate ==
    \/ pc = "uConverged" /\ Persist(At(tx, "Converged"), IF reboot THEN "uCommit" ELSE "uGate")
    \/ pc = "uGate" /\ (Skip("uVerified") \/ Skip("uVerdict") \/ Fail)
    \/ pc = "uVerified" /\ Persist(At(tx, "Verified"), "uCommit")

CommitCandidate ==
    \/ pc = "uCommit" /\ Commit(GuardedHead(tx), "uCommitted")
    \/ pc = "uCommitted" /\ Persist(At(tx, "Committed"), "uClear")
\* Mutant: the loop is not told that the new head is unconfirmed.
MutUnwatchedCommit ==
    /\ pc = "uClear"
    /\ pc' = "collect"
    /\ UNCHANGED <<armed, tx, plan, repaired, hostVars>>
    /\ \/ ClearJournal /\ UNCHANGED refused
       \/ /\ ClearMayFail \/ ~ClearIsAuthorized
          /\ refused' = (refused \/ ~ClearIsAuthorized)
          /\ UNCHANGED storeVars

\* The update is durable: failing to delete its spent journal is tolerated.
ClearCommitted ==
    /\ pc = "uClear"
    /\ pc' = "collect"
    /\ armed' = (installed.guard # None)
    /\ UNCHANGED <<tx, plan, repaired, hostVars>>
    /\ \/ ClearJournal /\ UNCHANGED refused
       \/ /\ ClearMayFail \/ ~ClearIsAuthorized
          /\ refused' = (refused \/ ~ClearIsAuthorized)
          /\ UNCHANGED storeVars

\* reject_then_recover: the verdict is journalled before the ledger write.
RejectThenRecover ==
    \/ pc = "uVerdict" /\ Persist([tx EXCEPT !.reject = TRUE], "uReject")
    \/ /\ pc = "uReject"
       /\ Reject("deployment", tx.cand)
       /\ Exit
       /\ UNCHANGED <<hostVars, refused>>

(***************************************************************************)
(* The environment: process death, the host, the operator and the disk.    *)
(***************************************************************************)
Crash ==
    /\ pc \notin {"down", "killed"}
    /\ ExitTo("killed")
    /\ UNCHANGED <<storeVars, hostVars, refused>>

HostReboots ==
    /\ reboot' = FALSE
    /\ ExitTo(IF pc = "rebooting" THEN "down" ELSE "killed")
    /\ UNCHANGED <<storeVars, bundles, pin, held, effects, refused>>

OperatorResolves ==
    /\ held
    /\ held' = FALSE
    /\ UNCHANGED <<storeVars, processVars, bundles, pin, reboot, effects, refused>>

Corrupt ==
    /\ MayCorrupt
    /\ \E p \in bundles : bundles' = bundles \ {p}
    /\ UNCHANGED <<storeVars, processVars, pin, reboot, held, effects, refused>>

\* A restored backup moves the pointer of a machine with no transaction open.
Drift ==
    /\ MayDrift
    /\ pc \in {"down", "killed"}
    /\ installed # None /\ journal = None /\ ijournal = None
    /\ \E p \in bundles : PointActive(p)
    /\ UNCHANGED <<processVars, hostVars, refused>>

InstallNext == EnsureInstalled \/ ApplyInstall \/ PlaceAndCommit \/ ClearInstall

BootNext ==
    \/ VerifyInstalled \/ MakePlan \/ CompensateCandidate \/ RecordCompensation
    \/ ExecuteBootPlan \/ RestorePredecessor \/ RecordRestored \/ BootConverge
    \/ BootGate \/ GateFailed \/ Settle \/ ReportSettled \/ ConfirmProvisional
    \/ FinishRollback \/ FinalCommit \/ ClearRecovered \/ GarbageCollect
    \/ Revert \/ JournalRevert

LoopNext ==
    \/ ProbeUnconfirmed \/ DisarmUpdateRollback \/ RepairInLoop \/ BeginReconverge
    \/ ReconvergeEnvironment \/ RebindLineage \/ RejectMalformed

UpdateNext ==
    \/ SelectCandidate \/ ExecuteUpdate \/ ActivateCandidate \/ ConvergeCandidate
    \/ GateCandidate \/ CommitCandidate \/ ClearCommitted \/ RejectThenRecover

Environment == Crash \/ HostReboots \/ OperatorResolves \/ Corrupt \/ Drift

Next == Launch \/ InstallNext \/ BootNext \/ LoopNext \/ UpdateNext \/ Environment

Spec == Init /\ [][Next]_vars

(***************************************************************************)
(* Safety.                                                                 *)
(***************************************************************************)

\* The agent's own protocol never runs into the store's guards: no interleaving of
\* crashes, hooks and updates makes it attempt a write the store must refuse (a
\* refusal ends the process, and a boot that repeats it never gets further).
NeverRefused == ~refused

\* Whatever a release's hooks did to the machine is accounted for by durable state:
\* its package is the installed head, the guard's predecessor, or the candidate of
\* a journal that still owes its compensation.
NoOrphanEffects ==
    \A p \in effects :
        /\ installed # None
        /\ \/ p = installed.unit.pkg
           \/ installed.guard # None /\ p = installed.guard.prev.pkg
           \/ /\ journal # None
              /\ p = journal.cand.pkg
              /\ DrivesRollback(journal)
              /\ IsRollback(journal) => RecoveryPending(journal, "CandidateCompensated")

\* The predecessor's hooks and health gate run in recovery only once the candidate
\* has been compensated (complete_candidate_compensation is its own barrier).
CompensatedBeforeRestore ==
    pc \in {"restore", "restored", "gate"} /\ tx # None => tx.cand.pkg \notin effects

\* While a reboot requested in this OS boot is owed, no hook and no health gate runs.
RebootHonoured ==
    reboot => pc \notin {"compensate", "restore", "converge", "gate", "reconverge",
                         "uConverge", "uGate", "idle"}

\* The loop only runs over a settled node: the pointer names the installed payload,
\* the head is proven, no first install is open, and any journal left behind is spent.
SettledWhenIdle ==
    pc = "idle" =>
        /\ active = Payload(installed.unit)
        /\ installed.proven
        /\ ijournal = None
        /\ journal # None => JournalRecovery = "Committed"

\* A durable rollback guard is always watched by the loop: an unconfirmed update
\* neither blocks updates forever nor is superseded by a second update.
GuardIsWatched == pc = "idle" /\ installed.guard # None => armed

\* Recovery never needs bytes or inputs that garbage collection has removed: while a
\* guard or an undecided journal stands, its predecessor's tree verifies and the
\* inputs pinned for that attempt are on disk.
RecoveryMaterialKept ==
    /\ installed # None /\ installed.guard # None =>
         Payload(installed.guard.prev) \in bundles /\ pin = installed.guard.id
    /\ journal # None /\ DrivesRollback(journal) =>
         Payload(journal.prev) \in bundles /\ pin = journal.id

\* A journal left behind by a failed delete is spent, and the loop can still retire it:
\* the next update, or the next boot, deletes it and goes on (execute_update).
LeftoverIsClearable == pc = "idle" /\ journal # None => ClearIsAuthorized

\* A candidate with a recorded verdict is never activated again under that lineage.
CondemnedNeverRetried ==
    [][pc = "uActivate" /\ pc' = "uActivated" => tx.cand \notin condemned]_vars

=============================================================================
