---------------------------- MODULE MCEnrollment ----------------------------
(* Two machines, one of them seeded, under one name or under two. *)
EXTENDS Enrollment

CONSTANTS n1, n2, a, b

MCNamings == {[n \in Nodes |-> a], [n \in Nodes |-> IF n = n1 THEN a ELSE b]}

=============================================================================
