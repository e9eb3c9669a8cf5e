--------------------------- MODULE TaskLifecycle ----------------------------
(***************************************************************************)
(* What the queue promises of a task, whatever the machinery: at any time  *)
(* it is in the hands of at most one worker; every handing out has a       *)
(* number of its own, because the number goes up whenever a holder loses   *)
(* the task; only the current holder can win it; and a task that has been  *)
(* won or given up never changes again.  TaskQueue and Delivery are each   *)
(* shown to implement this.                                                *)
(***************************************************************************)
EXTENDS Naturals

CONSTANTS
    Tasks,      \* task ids
    Workers,    \* worker ids
    Nobody      \* the holder of a task that is in nobody's hands

VARIABLE task   \* per task: its phase, its holder and the number of the attempt

State == [phase  : {"unborn", "waiting", "held", "won", "lost"},
          holder : Workers \cup {Nobody},
          number : Nat]

Unborn == [phase |-> "unborn", holder |-> Nobody, number |-> 0]

Init == task = [t \in Tasks |-> Unborn]

(* What may become of one task: old is its state before, new its state after. *)

\* The task is submitted.
Submit(old, new) ==
    old.phase = "unborn" /\ new = [old EXCEPT !.phase = "waiting"]

\* A worker is handed the attempt the task is waiting for.
Take(old, new) ==
    /\ old.phase = "waiting"
    /\ \E w \in Workers :
          new = [phase |-> "held", holder |-> w, number |-> old.number]

\* The holder's answer is accepted.
Win(old, new) ==
    old.phase = "held" /\ new = [old EXCEPT !.phase = "won"]

\* The holder gives the task up, or it is withdrawn before anyone holds it.
GiveUp(old, new) ==
    /\ old.phase \in {"waiting", "held"}
    /\ new = [phase |-> "lost", holder |-> Nobody, number |-> old.number]

\* The holder loses the task: it waits for its next attempt, or is lost.
Expire(old, new) ==
    /\ old.phase = "held"
    /\ \E p \in {"waiting", "lost"} :
          new = [phase |-> p, holder |-> Nobody, number |-> old.number + 1]

Step(old, new) ==
    \/ Submit(old, new) \/ Take(old, new) \/ Win(old, new)
    \/ GiveUp(old, new) \/ Expire(old, new)

\* A statement may move several tasks at once, each by a step of its own.
Next ==
    /\ task' \in [Tasks -> State]
    /\ \A t \in Tasks : Step(task[t], task'[t]) \/ task'[t] = task[t]

Spec == Init /\ [][Next]_task

=============================================================================
