---------------------------- MODULE MCRepository ----------------------------
(* One name, two buckets, two assignments; every period is one tick. *)
EXTENDS Repository

CONSTANTS b1, b2, a1, a2

=============================================================================
