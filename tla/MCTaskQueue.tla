---------------------------- MODULE MCTaskQueue -----------------------------
(* Small instances of TaskQueue for TLC. *)
EXTENDS TaskQueue, TLC

CONSTANT quick      \* a task type

\* Every task is of one type.
OneType == [t \in Tasks |-> quick]
\* Its code-default execution cap, in ticks.
DefaultExecution == [y \in TaskTypes |-> 2]
\* An operator lowers the attempt cap, or changes the two execution timeouts.
SomeUpdates == {[max_attempts |-> 1], [max_execution |-> 3, lease_ttl |-> 2]}

Symmetry == Permutations(Tasks) \cup Permutations(Workers) \cup Permutations(Tokens)

=============================================================================
