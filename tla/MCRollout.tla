----------------------------- MODULE MCRollout -----------------------------
(***************************************************************************)
(* Small fleets for Rollout.                                               *)
(***************************************************************************)
EXTENDS Rollout

CONSTANTS n1, n2, n3, g1, g2, s1, dA, dB, dC, dR

NodesInOrder == <<n1, n2, n3>>
GroupsInOrder == <<g1, g2>>

\* dR is the body rollback_to builds from the catalog of dB and the configuration of dA:
\* another identity, the same archive as dA.
ArchiveOf == [x \in {dA, dB, dC, dR} |-> IF x = dR THEN dA ELSE x]
RestoredTo == [p \in {dA, dB, dC, dR} \X {dA, dB, dC, dR} |->
    IF p = <<dB, dA>> THEN dR ELSE p[2]]

OneSet == [x \in {s1} |-> {g1, g2}]
One == [x \in {s1} |-> 1]
GThenH == [x \in {g1, g2} |-> IF x = g2 THEN {g1} ELSE {}]
BudgetOne == [x \in {g1, g2} |-> 1]

BothOnA == [x \in {g1, g2} |-> dA]
TwoAndOne == [x \in {n1, n2, n3} |-> IF x = n3 THEN g2 ELSE g1]
TwoAndLate == [x \in {n1, n2, n3} |-> IF x = n3 THEN Null ELSE g1]
=============================================================================
