-------------------------- MODULE MCAdmittedState --------------------------
(* Small instances of AdmittedState: two documents, slots of up to three    *)
(* shards, so that a store can keep, widen and narrow its slot.             *)
EXTENDS AdmittedState

CONSTANTS r1, r2

MCRevisions == {r1, r2}
=============================================================================
