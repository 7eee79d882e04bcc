-------------------------- MODULE UpdateTransaction --------------------------
(***************************************************************************)
(* The durable records of the node agent and the pure rules over them:     *)
(* the update transaction (crates/updated/src/transaction.rs), the         *)
(* first-install transaction (crates/updated/src/install.rs) and the       *)
(* installed record (crates/updated/src/state.rs).                         *)
(*                                                                         *)
(* A deployed unit is one signed package (payload, archive digest and      *)
(* reconciler, which always travel together) under a repository lineage.   *)
(* The active pointer names only the payload, and two packages may carry   *)
(* the same payload: that is a reconciler-only update.                     *)
(***************************************************************************)
EXTENDS Naturals

CONSTANTS Packages,     \* signed packages
          Payloads,     \* payload trees, what the active pointer names
          PayloadOf,    \* the payload a package carries
          Lineages,     \* repository trust lineages
          Ids,          \* attempt tokens
          MaxFailures,  \* u32::MAX, the largest rollback-health tally
          None          \* an absent record

ASSUME PayloadAssumption == PayloadOf \in [Packages -> Payloads]
ASSUME FailuresAssumption == MaxFailures \in Nat

Deployments == [pkg : Packages, lin : Lineages]

Payload(d) == PayloadOf[d.pkg]

(***************************************************************************)
(* Update transactions.                                                    *)
(***************************************************************************)
ForwardPhases == {"Prepared", "Activated", "Converged", "Verified", "Committed"}

RollbackRank == [RollbackPlanned |-> 0, CandidateCompensated |-> 1, Restored |-> 2,
                 RollbackVerified |-> 3, RolledBack |-> 4]

RollbackPhases == {"RollbackPlanned", "CandidateCompensated", "Restored",
                   "RollbackVerified", "RolledBack"}

Phases == ForwardPhases \cup RollbackPhases

Transactions == [id : Ids, prev : Deployments, cand : Deployments, reject : BOOLEAN,
                 fails : 0 .. MaxFailures, phase : Phases]

\* A verdict on the candidate, and a failed rollback gate, can only have been
\* observed at these phases.
PhaseEvidenceIsValid(tx) ==
    /\ tx.reject => tx.phase \in {"Activated", "Converged"} \cup RollbackPhases
    /\ tx.fails # 0 => tx.phase \in {"Restored", "RollbackVerified", "RolledBack"}

ValidTransaction(tx) == tx.prev.pkg # tx.cand.pkg /\ PhaseEvidenceIsValid(tx)

IsRollback(tx) == tx.phase \in RollbackPhases

RecoveryPending(tx, target) ==
    IsRollback(tx) /\ RollbackRank[tx.phase] < RollbackRank[target]

ForwardEdges == {<<"Prepared", "Activated">>, <<"Activated", "Converged">>,
                 <<"Converged", "Verified">>, <<"Verified", "Committed">>,
                 <<"Converged", "Committed">>}

BeginRollbackEdges ==
    {"Prepared", "Activated", "Converged", "Verified"} \X {"RollbackPlanned"}

RollbackEdges == {<<"RollbackPlanned", "CandidateCompensated">>,
                  <<"CandidateCompensated", "Restored">>,
                  <<"Restored", "RollbackVerified">>,
                  <<"RollbackVerified", "RolledBack">>,
                  <<"Restored", "RolledBack">>}

At(tx, phase) == [tx EXCEPT !.phase = phase]

CanAdvance(tx, next) ==
    /\ <<tx.phase, next>> \in ForwardEdges \cup BeginRollbackEdges \cup RollbackEdges
    /\ PhaseEvidenceIsValid(At(tx, next))

\* The boot gate is the authoritative observer from Restored until the rollback ends.
MayRecordHealthFailure(tx) ==
    /\ ~RecoveryPending(tx, "Restored")
    /\ RecoveryPending(tx, "RolledBack")
    /\ tx.fails < MaxFailures

WithHealthFailure(tx) == [tx EXCEPT !.fails = @ + 1]

\* The rewrites of one attempt's journal that keep its identity and its history.
PermitsReplacement(tx, next) ==
    \/ next = tx
    \/ /\ tx.phase = "Committed"
       /\ next = At(tx, "RollbackPlanned")
    \/ /\ CanAdvance(tx, next.phase)
       /\ next = At(tx, next.phase)
    \/ /\ tx.phase \in {"Activated", "Converged"}
       /\ ~tx.reject
       /\ next = [tx EXCEPT !.reject = TRUE]
    \/ /\ MayRecordHealthFailure(tx)
       /\ next = WithHealthFailure(tx)

(***************************************************************************)
(* The installed record and its rollback guard.                            *)
(***************************************************************************)
Guards == [id : Ids, prev : Deployments]

InstalledStates == [unit : Deployments, guard : Guards \cup {None}, proven : BOOLEAN]

ValidInstalled(s) ==
    /\ ~s.proven => s.guard = None
    /\ s.guard # None => s.guard.prev.pkg # s.unit.pkg

Proven(d) == [unit |-> d, guard |-> None, proven |-> TRUE]

Provisional(d) == [unit |-> d, guard |-> None, proven |-> FALSE]

MatchesPrevious(tx, s) == s.unit = tx.prev

MatchesCandidate(tx, s) == s.unit = tx.cand

MatchesRollbackGuard(tx, g) == g.id = tx.id /\ g.prev = tx.prev

\* What a journal implies given the active payload and the committed record.
ClassifyRecovery(tx, active, s) ==
    IF /\ tx.phase \in {"Converged", "Verified", "Committed"}
       /\ active = Payload(tx.cand)
       /\ MatchesCandidate(tx, s)
    THEN "Committed"
    ELSE IF tx.phase \in {"Prepared", "RolledBack"} /\ active = Payload(tx.prev)
         THEN "NeverSwapped"
         ELSE "RestorePredecessor"

(***************************************************************************)
(* First-install transactions.                                             *)
(***************************************************************************)
InstallPhases == {"Started", "Prepared", "Placed", "Committed"}

InstallTransactions == [id : Ids, unit : Deployments, phase : InstallPhases]

InstallEdges == {<<"Started", "Prepared">>, <<"Prepared", "Placed">>,
                 <<"Placed", "Committed">>}

PermitsInstallReplacement(tx, next) ==
    \/ next = tx
    \/ <<tx.phase, next.phase>> \in InstallEdges /\ next = At(tx, next.phase)

\* The records an absent record must be told apart from.
ASSUME NoneAssumption == None \notin Transactions \cup InstalledStates \cup InstallTransactions
                                       \cup Guards \cup Payloads \cup Deployments

\* The installed record already names the unit this install staged.
InstallCommitted(tx, s) == s # None /\ s.unit = tx.unit

=============================================================================
