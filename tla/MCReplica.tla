----------------------------- MODULE MCReplica ------------------------------
(* Small instances of Replica for TLC. *)
EXTENDS Replica, TLC

CONSTANTS s1, s2, w1, w2

\* Two sessions of two workers.
TwoWorkers == [s \in Sessions |-> IF s = s1 THEN w1 ELSE w2]
\* Every session declares every type.
EveryType == [s \in Sessions |-> Tasks]

\* One slot each, or two slots for the first worker.
OneSlot == [s \in Sessions |-> 1]
FirstWider == [s \in Sessions |-> IF s = s1 THEN 2 ELSE 1]

\* Replicas are alike, and so are the two workers with their sessions.
Symmetry == Permutations(Replicas)
            \cup {s1 :> s2 @@ s2 :> s1 @@ w1 :> w2 @@ w2 :> w1}

=============================================================================
