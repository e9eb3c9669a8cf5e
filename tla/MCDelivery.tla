----------------------------- MODULE MCDelivery -----------------------------
(* Small instances of Delivery for TLC. *)
EXTENDS Delivery

CONSTANTS t1, t2, t3

\* Every type may be tried as often, or only the type of t1 more than once.
SameCap == [t \in Tasks |-> MaxAttempts]
FirstRetried == [t \in Tasks |-> IF t = t1 THEN MaxAttempts ELSE 1]

=============================================================================
