-------------------------- MODULE MCSubscription --------------------------
(* Subscription on a small instance. *)
EXTENDS Subscription

CONSTANT r1

OneRepository == {r1}
OnlyLast      == {NumSubscriptions}
AllOfOne      == [s \in Subscriptions |-> r1]

=============================================================================
