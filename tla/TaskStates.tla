----------------------------- MODULE TaskStates -----------------------------
(***************************************************************************)
(* The task state machine of coordinator/app/task_states.py: the states a  *)
(* row of the tasks table may be in, the moves the application allows, and *)
(* the check every worker-reported move goes through.                      *)
(***************************************************************************)

TASK_STATES ==
    {"QUEUED", "ASSIGNED", "RUNNING", "COMPLETED", "FAILED", "CANCELLED", "REASSIGNED"}

TERMINAL_STATES == {"COMPLETED", "FAILED", "CANCELLED"}

\* _ALLOWED: the legal targets of every state.  REASSIGNED is reserved for
\* attempt rows and is neither the source nor the target of any move.
Allowed ==
    [QUEUED     |-> {"ASSIGNED", "CANCELLED"},
     ASSIGNED   |-> {"RUNNING", "FAILED", "CANCELLED", "QUEUED"},
     RUNNING    |-> {"COMPLETED", "FAILED", "CANCELLED", "QUEUED"},
     COMPLETED  |-> {},
     FAILED     |-> {},
     CANCELLED  |-> {},
     REASSIGNED |-> {}]

\* check_transition returns True when the caller should write, False when the
\* move is a same-state no-op, and raises on a move outside Allowed.
check_transition(current, new) ==
    IF current = new THEN "noop"
    ELSE IF new \in Allowed[current] THEN "write"
    ELSE "illegal"

=============================================================================
