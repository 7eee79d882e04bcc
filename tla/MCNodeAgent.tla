----------------------------- MODULE MCNodeAgent -----------------------------
(* One node, packages a and b with payloads x and y, package c sharing b's   *)
(* payload (a reconciler-only update of b), and a malformed package m.       *)
EXTENDS NodeAgent, TLC

CONSTANTS a, b, c, m, x, y, i, j

MCPayloadOf == [p \in Packages |-> IF p = a THEN x ELSE y]

\* Attempt tokens are interchangeable.
MCSymmetry == Permutations({i, j})

=============================================================================
