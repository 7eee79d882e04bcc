---------------------------- MODULE MCPublisher ----------------------------
(***************************************************************************)
(* Instances of Publisher for TLC.                                         *)
(***************************************************************************)
EXTENDS Publisher, TLC

CONSTANTS c1, c2, p1, p2, n1, n2

MCReplicas == {c1, c2}
MCPlans == {p1, p2}
MCNotes == {n1, n2}
MCOneNote == {n1}
MCSymmetry == Permutations(MCReplicas)
==============================================================================
