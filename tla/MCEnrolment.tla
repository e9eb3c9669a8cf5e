---------------------------- MODULE MCEnrolment -----------------------------
(* Small instances of Enrolment for TLC. *)
EXTENDS Enrolment

CONSTANT m1

\* Every slot on one machine: machines share nothing but the pool of ids.
OneMachine == [p \in Processes |-> m1]

=============================================================================
