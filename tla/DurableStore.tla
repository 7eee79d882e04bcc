---------------------------- MODULE DurableStore ----------------------------
(***************************************************************************)
(* The agent's durable store (crates/agent/src/store.rs): the only door to *)
(* the node's durable state, and the grammar of transitions it enforces.   *)
(* Each operation is one atomic durable write guarded by the checks the    *)
(* code makes before it.  Next lets a client call any operation with any   *)
(* argument, so what holds here holds whatever the callers do.             *)
(***************************************************************************)
EXTENDS UpdateTransaction

VARIABLES
    active,     \* payload named by the active-release pointer, or None
    installed,  \* the installed record, or None
    journal,    \* the update transaction journal, or None
    ijournal,   \* the first-install transaction journal, or None
    rejected,   \* the rejection ledger: pairs <<evidence domain, deployment>>
    enrolled,   \* whether the first-install history has been written
    condemned,  \* history: candidates some journal recorded a verdict against
    heads       \* history: deployments that were a proven installed head

storeVars == <<active, installed, journal, ijournal, rejected, enrolled, condemned, heads>>

Evidence == {"artifact", "deployment"}

StoreTypeOK ==
    /\ active \in Payloads \cup {None}
    /\ installed \in InstalledStates \cup {None}
    /\ journal \in Transactions \cup {None}
    /\ ijournal \in InstallTransactions \cup {None}
    /\ rejected \subseteq (Evidence \X Deployments)
    /\ enrolled \in BOOLEAN
    /\ condemned \subseteq Deployments
    /\ heads \subseteq Deployments

StoreInit ==
    /\ active = None
    /\ installed = None
    /\ journal = None
    /\ ijournal = None
    /\ rejected = {}
    /\ enrolled = FALSE
    /\ condemned = {}
    /\ heads = {}

(***************************************************************************)
(* The rejection ledger.  Malformed bytes and runtime failures are         *)
(* separate evidence domains; selection consults both.                     *)
(***************************************************************************)
RejectsDeployment(d) == \E e \in Evidence : <<e, d>> \in rejected

RejectionIsDurable(d) == <<"deployment", d>> \in rejected

\* Mutant: the ledger keeps the latest verdict only.
MutLatestVerdict(e, d) ==
    /\ rejected' = {<<e, d>>}
    /\ UNCHANGED <<active, installed, journal, ijournal, enrolled, condemned, heads>>

Reject(e, d) ==
    /\ rejected' = rejected \cup {<<e, d>>}
    /\ UNCHANGED <<active, installed, journal, ijournal, enrolled, condemned, heads>>

(***************************************************************************)
(* The installed record.                                                   *)
(***************************************************************************)
InstallCommitIsAuthorized(next) ==
    /\ ijournal # None
    /\ ijournal.phase \in {"Placed", "Committed"}
    /\ InstallCommitted(ijournal, next)
    /\ next.guard = None
    /\ ~next.proven

\* Journal-free rewrites: a replay, a rebind, a confirmation, a settlement.
MetadataTransitionIsAuthorized(next) ==
    \/ next = installed
    \/ \E l \in Lineages : next = [installed EXCEPT !.unit.lin = l]
    \/ /\ ~installed.proven
       /\ installed.guard = None
       /\ next = [installed EXCEPT !.proven = TRUE]
    \/ /\ installed.guard # None
       /\ next = [installed EXCEPT !.guard = None]

PendingRollbackIsAuthorized(next) ==
    /\ installed.guard # None
    /\ RejectionIsDurable(installed.unit)
    /\ next = Proven(installed.guard.prev)

JournalTransitionIsAuthorized(next) ==
    /\ journal # None
    /\ \/ /\ journal.phase \in {"Converged", "Verified"}
          /\ ~journal.reject
          /\ MatchesPrevious(journal, installed)
          /\ MatchesCandidate(journal, next)
          /\ next.guard # None
          /\ MatchesRollbackGuard(journal, next.guard)
          /\ next.proven
       \/ /\ journal.phase = "RolledBack"
          /\ MatchesCandidate(journal, installed)
          /\ MatchesPrevious(journal, next)
          /\ next.guard = None
          /\ next.proven \/ RejectsDeployment(journal.prev)

CommitIsAuthorized(next) ==
    /\ ValidInstalled(next)
    /\ active = Payload(next.unit)
    /\ IF installed = None
       THEN InstallCommitIsAuthorized(next)
       ELSE \/ MetadataTransitionIsAuthorized(next)
            \/ PendingRollbackIsAuthorized(next)
            \/ JournalTransitionIsAuthorized(next)

CommitInstalled(next) ==
    /\ CommitIsAuthorized(next)
    /\ installed' = next
    /\ heads' = IF next.proven THEN heads \cup {next.unit} ELSE heads
    /\ UNCHANGED <<active, journal, ijournal, rejected, enrolled, condemned>>

(***************************************************************************)
(* The active pointer.  The caller has verified the payload's tree.        *)
(***************************************************************************)
PointActive(p) ==
    /\ active' = p
    /\ UNCHANGED <<installed, journal, ijournal, rejected, enrolled, condemned, heads>>

(***************************************************************************)
(* The update journal.                                                     *)
(***************************************************************************)
\* The journal's forward obligation has moved into the installed record.
ForwardCommitIsDurable(tx) ==
    /\ installed # None
    /\ ~tx.reject
    /\ MatchesCandidate(tx, installed)
    /\ installed.guard # None
    /\ MatchesRollbackGuard(tx, installed.guard)

JournalMayDiscard(tx) ==
    /\ tx.reject => RejectionIsDurable(tx.cand)
    /\ \/ tx.phase = "Prepared"
       \/ /\ tx.phase \in {"Converged", "Verified", "Committed"}
          /\ ForwardCommitIsDurable(tx)
       \/ /\ tx.phase = "RolledBack"
          /\ installed # None
          /\ active = Payload(tx.prev)
          /\ MatchesPrevious(tx, installed)

PendingAuthorizesRollbackJournal(tx) ==
    /\ installed # None
    /\ installed.guard # None
    /\ tx.phase = "RollbackPlanned"
    /\ tx.fails = 0
    /\ MatchesRollbackGuard(tx, installed.guard)
    /\ MatchesCandidate(tx, installed)

JournalStartIsAuthorized(tx) ==
    \/ PendingAuthorizesRollbackJournal(tx)
    \/ /\ installed # None
       /\ tx.phase = "Prepared"
       /\ ~tx.reject
       /\ tx.fails = 0
       /\ installed.proven
       /\ installed.guard = None
       /\ MatchesPrevious(tx, installed)
       /\ active = Payload(installed.unit)

JournalRewriteIsAuthorized(tx) ==
    /\ PermitsReplacement(journal, tx)
    /\ (journal.phase = "Committed" /\ tx.phase = "RollbackPlanned")
         => PendingAuthorizesRollbackJournal(tx)

JournalWriteIsAuthorized(tx) ==
    /\ ValidTransaction(tx)
    /\ ijournal = None
    /\ tx.phase = "Committed" => active = Payload(tx.cand) /\ ForwardCommitIsDurable(tx)
    /\ \/ journal = None /\ JournalStartIsAuthorized(tx)
       \/ /\ journal # None
          /\ journal.id = tx.id
          /\ JournalRewriteIsAuthorized(tx)
       \/ /\ journal # None
          /\ journal.id # tx.id
          /\ JournalMayDiscard(journal)
          /\ JournalStartIsAuthorized(tx)

WriteJournal(tx) ==
    /\ JournalWriteIsAuthorized(tx)
    /\ journal' = tx
    /\ condemned' = IF tx.reject THEN condemned \cup {tx.cand} ELSE condemned
    /\ UNCHANGED <<active, installed, ijournal, rejected, enrolled, heads>>

ClearIsAuthorized == journal # None => JournalMayDiscard(journal)

ClearJournal ==
    /\ ClearIsAuthorized
    /\ journal' = None
    /\ UNCHANGED <<active, installed, ijournal, rejected, enrolled, condemned, heads>>

(***************************************************************************)
(* The first-install journal and the install history.                      *)
(***************************************************************************)
InstallPhaseIsAuthorized(tx) ==
    /\ tx.phase \in {"Placed", "Committed"} => active = Payload(tx.unit)
    /\ tx.phase = "Committed" => InstallCommitted(tx, installed)

InstallStartIsAuthorized(tx) ==
    /\ tx.phase = "Started"
    /\ ~RejectsDeployment(tx.unit)
    /\ installed = None
    /\ active = None

InstallWriteIsAuthorized(tx) ==
    /\ journal = None
    /\ InstallPhaseIsAuthorized(tx)
    /\ IF ijournal = None
       THEN InstallStartIsAuthorized(tx)
       ELSE ijournal.id = tx.id /\ PermitsInstallReplacement(ijournal, tx)

WriteInstallJournal(tx) ==
    /\ InstallWriteIsAuthorized(tx)
    /\ ijournal' = tx
    /\ UNCHANGED <<active, installed, journal, rejected, enrolled, condemned, heads>>

ClearInstallIsAuthorized == ijournal # None => InstallCommitted(ijournal, installed)

ClearInstallJournal ==
    /\ ClearInstallIsAuthorized
    /\ ijournal' = None
    /\ UNCHANGED <<active, installed, journal, rejected, enrolled, condemned, heads>>

RecordFirstInstall ==
    /\ ~enrolled
    /\ enrolled' = TRUE
    /\ UNCHANGED <<active, installed, journal, ijournal, rejected, condemned, heads>>

StoreNext ==
    \/ \E e \in Evidence, d \in Deployments : Reject(e, d)
    \/ \E s \in InstalledStates : CommitInstalled(s)
    \/ \E p \in Payloads : PointActive(p)
    \/ \E tx \in Transactions : WriteJournal(tx)
    \/ ClearJournal
    \/ \E tx \in InstallTransactions : WriteInstallJournal(tx)
    \/ ClearInstallJournal
    \/ RecordFirstInstall

StoreSpec == StoreInit /\ [][StoreNext]_storeVars

(***************************************************************************)
(* What the store promises, whatever its clients do.                       *)
(***************************************************************************)

\* Update and first install never both have a durable journal, so at most one
\* state machine is authoritative (ensure_exclusive_journal).
JournalsExclusive == journal = None \/ ijournal = None

\* A verdict that a journal recorded against a candidate is never lost: it is in
\* the rejection ledger, or the journal that must still deliver it is on disk.
VerdictKept ==
    \A d \in condemned :
        \/ RejectionIsDurable(d)
        \/ journal # None /\ journal.reject /\ journal.cand = d

\* The journal always brackets the installed head: while an update is journalled
\* the installed package is its predecessor or its candidate, and a rollback guard
\* is the one that transaction wrote, on its candidate.
JournalBracketsHead ==
    journal # None =>
        /\ installed # None
        /\ installed.unit.pkg \in {journal.prev.pkg, journal.cand.pkg}
        /\ installed.guard # None =>
             /\ MatchesRollbackGuard(journal, installed.guard)
             /\ installed.unit.pkg = journal.cand.pkg

\* A rollback only ever returns to a deployment that was once the proven installed
\* head of this node: the target is never invented by a journal or a guard.
RollbackTargetWasHead ==
    /\ journal # None => journal.prev \in heads
    /\ installed # None /\ installed.guard # None => installed.guard.prev \in heads

=============================================================================
