---------------------------- MODULE LeaseRenewal ----------------------------
(***************************************************************************)
(* The timing of one attempt: how the progress reports of the worker       *)
(* (_progress_reporter_loop and the chunk loops of executors.py) keep the  *)
(* task's lease alive through the throttled renewals of assignment.py,     *)
(* across lost sessions, failed renewals, and a worker that stops.         *)
(*                                                                         *)
(* As in TaskQueue, instants are distances from now; Tick moves them.  The *)
(* bounds the deployment is supposed to meet (how long a message, a chunk  *)
(* or a reconnect takes) are deadlines of their own: Tick waits for a step *)
(* that is due at the latest now.  The reclaimer has no such bound.        *)
(***************************************************************************)
EXTENDS Integers

CONSTANTS
    AckTimeout,     \* the acknowledgement lease the claim wrote
    LeaseTTL,       \* TASK_LEASE_TTL_SECONDS: what a renewal writes
    PolicyTTL,      \* what task_started writes: the type's override, or LeaseTTL
    MaxExecution,   \* the execution cap of the type
    RenewAfter,     \* LeaseTTL * TASK_LEASE_RENEW_FRACTION
    Grace,          \* LEASE_DISCONNECT_GRACE_SECONDS
    Interval,       \* WORKER_PROGRESS_INTERVAL_SECONDS
    ChunkTime,      \* the longest a chunk of an executor takes
    Chunks,         \* how many chunks the task has
    Latency,        \* the longest a message is under way
    ReconnectTime,  \* the longest a worker takes to come back
    MaxMisses       \* bound on consecutive renewals the database fails

ASSUME ConstantsAssumption ==
    /\ AckTimeout \in Nat \ {0}
    /\ LeaseTTL \in Nat \ {0}
    /\ PolicyTTL \in Nat \ {0}
    /\ MaxExecution \in Nat \ {0}
    /\ RenewAfter \in Nat \ {0}
    /\ RenewAfter <= LeaseTTL
    /\ Grace \in Nat
    /\ Interval \in Nat \ {0}
    /\ ChunkTime \in Nat \ {0}
    /\ Chunks \in Nat \ {0}
    /\ Latency \in Nat \ {0}
    /\ Latency < Interval
    /\ ReconnectTime \in Nat \ {0}
    /\ MaxMisses \in Nat

VARIABLES
    status,         \* the row's status, of the attempt modelled here
    reason,         \* why the reclaimer took it: classified by its UPDATE
    lease,          \* lease_expires_at
    deadline,       \* deadline_at
    open,           \* a session connects the two sides
    entitled,       \* the task is in credited or recovered_tasks
    due,            \* lease_renew_due of the session; 0 at once when unknown
    shown,          \* the progress of the task's current_tasks entry
    misses,         \* renewals failed since one last worked
    wire,           \* per kind, the time left of the message under way
    timer,          \* until the reporter loop wakes
    work,           \* what the execution is: executing, submitted, cancelled
    progress,       \* chunks done: the slot the executor writes
    last_reported,  \* of RunningTask
    chunk,          \* until the chunk under way ends at the latest
    cancel,         \* the cooperative cancel flag
    back,           \* until the worker is back at the latest
    faults          \* history: what a deployment can do to lose a lease

row == <<status, reason, lease, deadline>>
session == <<open, entitled, due, shown, misses>>
worker == <<timer, work, progress, last_reported, chunk, cancel, back>>
vars == <<row, session, worker, wire, faults>>

None == -1
Kinds == {"ack", "started", "progress", "result", "cancel"}
Faults == {"hung", "gone", "unrecovered"}

Least(a, b) == IF a <= b THEN a ELSE b

Live == status \in {"ASSIGNED", "RUNNING"}
Stuck == faults \cap {"hung", "gone"} # {}

TypeOK ==
    /\ status \in {"ASSIGNED", "RUNNING", "COMPLETED", "RECLAIMED"}
    /\ reason \in {"none", "lease_expired", "execution_deadline_exceeded"}
    /\ lease \in Int /\ lease >= -1
    /\ deadline \in Int /\ deadline >= -1
    /\ open \in BOOLEAN
    /\ entitled \in BOOLEAN
    /\ due \in Int /\ due <= RenewAfter
    /\ shown \in -1..Chunks
    /\ misses \in 0..MaxMisses
    /\ wire \in [Kinds -> -1..Latency]
    /\ timer \in 0..Interval
    /\ work \in {"executing", "submitted", "cancelled"}
    /\ progress \in 0..Chunks
    /\ last_reported \in -1..Chunks
    /\ chunk \in 0..ChunkTime
    /\ cancel \in BOOLEAN
    /\ back \in 0..ReconnectTime
    /\ faults \subseteq Faults

\* A delivery the worker has admitted: _handle_assignment has sent the
\* acknowledgement and task_started back to back and begun to execute.
Init ==
    /\ status = "ASSIGNED" /\ reason = "none"
    /\ lease = AckTimeout /\ deadline = MaxExecution
    /\ open = TRUE /\ entitled = TRUE /\ due = 0 /\ shown = None /\ misses = 0
    /\ wire = [k \in Kinds |-> IF k \in {"ack", "started"} THEN Latency ELSE None]
    /\ timer \in 1..Interval
    /\ work = "executing" /\ progress = 0 /\ last_reported = None
    /\ chunk = ChunkTime /\ cancel = FALSE /\ back = 0
    /\ faults = {}

-----------------------------------------------------------------------------
(* The coordinator's handlers *)

\* Mutated form of RenewalTarget: the cap is left out.
RenewalTargetUncapped == LeaseTTL

\* _RENEWAL_TARGET
RenewalTarget == Least(LeaseTTL, deadline)

\* _lease_due
lease_due == due <= 0

\* renew_lease, which writes live rows of the sender only, then _mark_renewed.
Renew ==
    /\ lease' = IF Live THEN RenewalTarget ELSE lease
    /\ due' = RenewAfter
    /\ misses' = 0

\* _renew_if_due: nothing for a task the session has no title to or one that
\* is not due; otherwise a renewal, or a database failure, which is swallowed
\* and leaves the task due.
renew_if_due ==
    \/ /\ ~(entitled /\ lease_due)
       /\ UNCHANGED <<lease, due, misses>>
    \/ /\ entitled /\ lease_due
       /\ Renew
    \/ /\ entitled /\ lease_due
       /\ misses < MaxMisses
       /\ misses' = misses + 1
       /\ UNCHANGED <<lease, due>>

\* A message of this kind is the oldest under way: the socket keeps the order.
Arrives(kind, before) ==
    /\ open
    /\ wire[kind] # None
    /\ \A k \in before : wire[k] = None
    /\ wire' = [wire EXCEPT ![kind] = None]

\* handle_task_ack of an acceptance
TaskAck ==
    /\ Arrives("ack", {})
    /\ renew_if_due
    /\ UNCHANGED <<status, reason, deadline, open, entitled, shown, worker, faults>>

\* handle_task_started: mark_status writes the deadline and the first execution
\* lease, from the policy; the next renewal is RenewAfter away.
TaskStarted ==
    /\ Arrives("started", {"ack"})
    /\ \/ /\ status = "ASSIGNED"
          /\ status' = "RUNNING"
          /\ deadline' = MaxExecution
          /\ lease' = Least(PolicyTTL, MaxExecution)
          /\ due' = RenewAfter
          /\ misses' = 0
          /\ shown' = 0
       \/ /\ status # "ASSIGNED"
          /\ UNCHANGED <<status, deadline, lease, due, misses, shown>>
    /\ UNCHANGED <<reason, open, entitled, worker, faults>>

\* Mutated form of TaskProgress: the telemetry check comes first.
TaskProgressKnownOnly ==
    /\ Arrives("progress", {"ack", "started"})
    /\ IF shown = None THEN UNCHANGED <<lease, due, misses>> ELSE renew_if_due
    /\ shown' = IF shown = None THEN None ELSE last_reported
    /\ UNCHANGED <<status, reason, deadline, open, entitled, worker, faults>>

\* handle_task_progress: renew first, then record the sample of a task this
\* session saw start.  The message under way carries last_reported.
TaskProgress ==
    /\ Arrives("progress", {"ack", "started"})
    /\ renew_if_due
    /\ shown' = IF shown = None THEN None ELSE last_reported
    /\ UNCHANGED <<status, reason, deadline, open, entitled, worker, faults>>

\* handle_task_result: accepted from the current attempt; the session forgets
\* the task either way.  (A fenced result of a recovered task stays in
\* recovered_tasks, for a row that is no longer this attempt's.)
TaskResult ==
    /\ Arrives("result", {"ack", "started", "progress"})
    /\ status' = IF Live THEN "COMPLETED" ELSE status
    /\ entitled' = FALSE
    /\ shown' = None
    /\ UNCHANGED <<reason, lease, deadline, open, due, misses, worker, faults>>

\* Mutated form of Reclaim: only started tasks are looked at.
ReclaimRunning ==
    /\ status = "RUNNING" /\ lease < 0
    /\ status' = "RECLAIMED"
    /\ reason' = IF deadline <= 0 THEN "execution_deadline_exceeded"
                                  ELSE "lease_expired"
    /\ wire' = [wire EXCEPT !["cancel"] = IF open THEN Latency ELSE None]
    /\ UNCHANGED <<lease, deadline, session, worker, faults>>

\* reclaim_once on this row, with the task_cancel to the session that held it.
Reclaim ==
    /\ Live /\ lease < 0
    /\ status' = "RECLAIMED"
    /\ reason' = IF deadline <= 0 THEN "execution_deadline_exceeded"
                                  ELSE "lease_expired"
    /\ wire' = [wire EXCEPT !["cancel"] = IF open THEN Latency ELSE None]
    /\ UNCHANGED <<lease, deadline, session, worker, faults>>

-----------------------------------------------------------------------------
(* The worker *)

\* _handle_task_cancel: only a task still in the running table has a flag.
TaskCancel ==
    /\ Arrives("cancel", {})
    /\ cancel' = (cancel \/ work = "executing")
    /\ UNCHANGED <<row, session, timer, work, progress, last_reported, chunk,
                   back, faults>>

\* _progress_reporter_loop: wake, and report a fraction that has changed.  It is
\* rounded to four digits there, which keeps chunks apart up to the executors' caps.
Report ==
    /\ open /\ "gone" \notin faults
    /\ timer = 0
    /\ timer' = Interval
    /\ \/ /\ work = "executing" /\ progress # last_reported
          /\ last_reported' = progress
          /\ wire' = [wire EXCEPT !["progress"] = Latency]
       \/ /\ work # "executing" \/ progress = last_reported
          /\ UNCHANGED <<last_reported, wire>>
    /\ UNCHANGED <<row, session, work, progress, chunk, cancel, back, faults>>

\* The chunk loops of executors.py and the end of _execute_task.  A chunk
\* reports its fraction; the cancel flag is looked at before the next one, so
\* the last chunk always returns.  A result is recorded and sent if a session
\* is there.
ChunkEnds ==
    /\ work = "executing" /\ ~Stuck
    /\ progress' = progress + 1
    /\ chunk' = ChunkTime
    /\ \/ /\ progress' = Chunks
          /\ work' = "submitted"
          /\ wire' = [wire EXCEPT !["result"] = IF open THEN Latency ELSE None]
       \/ /\ progress' # Chunks
          /\ work' = IF cancel THEN "cancelled" ELSE "executing"
          /\ UNCHANGED wire
    /\ UNCHANGED <<row, session, timer, last_reported, cancel, back, faults>>

-----------------------------------------------------------------------------
(* Sessions *)

\* The socket dies: what is under way is lost with the reporter and the
\* coordinator's session, and shorten_local_leases cuts the lease, or fails to
\* and swallows the error.
Disconnect ==
    /\ open
    /\ open' = FALSE
    /\ lease' \in IF Live THEN {Least(lease, Grace), lease} ELSE {lease}
    /\ wire' = [k \in Kinds |-> None]
    /\ entitled' = FALSE
    /\ shown' = None
    /\ back' = ReconnectTime
    /\ UNCHANGED <<status, reason, deadline, due, misses, timer, work, progress,
                   last_reported, chunk, cancel, faults>>

\* A new session of the worker: a reporter loop of its own, a table of due
\* times that knows no task, and the pending result sent again at once.
NewSession ==
    /\ ~open /\ "gone" \notin faults
    /\ open' = TRUE
    /\ due' = 0
    /\ misses' = 0
    /\ timer' = Interval
    /\ back' = 0
    /\ wire' = [wire EXCEPT !["result"] =
                   IF work = "submitted" THEN Latency ELSE None]
    /\ UNCHANGED <<status, reason, deadline, shown, work, progress,
                   last_reported, chunk, cancel>>

\* The hello: renew_worker_leases writes the worker's live rows, and the ids it
\* returns become recovered_tasks.
Reconnect ==
    /\ NewSession
    /\ lease' = IF Live THEN RenewalTarget ELSE lease
    /\ entitled' = Live
    /\ UNCHANGED faults

\* The hello whose renewal the database fails: logged and swallowed.
ReconnectUnrenewed ==
    /\ NewSession
    /\ faults' = faults \cup {"unrecovered"}
    /\ UNCHANGED <<lease, entitled>>

\* The executor stops inside a chunk; the rest of the worker goes on.
Hang ==
    /\ work = "executing" /\ ~Stuck
    /\ faults' = faults \cup {"hung"}
    /\ UNCHANGED <<row, session, worker, wire>>

\* The worker does not come back.
Vanish ==
    /\ ~open /\ ~Stuck
    /\ faults' = faults \cup {"gone"}
    /\ UNCHANGED <<row, session, worker, wire>>

-----------------------------------------------------------------------------
(* Time *)

\* What is due at the latest now happens before time moves on.
Punctual ==
    /\ \A k \in Kinds : wire[k] # 0
    /\ open => timer > 0
    /\ work = "executing" /\ ~Stuck => chunk > 0
    /\ ~open /\ "gone" \notin faults => back > 0

\* An instant in the past stays in the past; a due time further back than a
\* lease lasts cannot be told from an earlier one.
Fall(x, floor) == IF x <= floor THEN x ELSE x - 1

Tick ==
    /\ Punctual
    /\ lease' = Fall(lease, -1)
    /\ deadline' = Fall(deadline, -1)
    /\ due' = Fall(due, -LeaseTTL)
    /\ wire' = [k \in Kinds |-> Fall(wire[k], -1)]
    /\ timer' = IF open THEN timer - 1 ELSE timer
    /\ chunk' = Fall(chunk, 0)
    /\ back' = Fall(back, 0)
    /\ UNCHANGED <<status, reason, open, entitled, shown, misses, work, progress,
                   last_reported, cancel, faults>>

Coordinator == TaskAck \/ TaskStarted \/ TaskProgress \/ TaskResult \/ Reclaim

Worker == TaskCancel \/ Report \/ ChunkEnds \/ Reconnect \/ ReconnectUnrenewed

Next == Coordinator \/ Worker \/ Disconnect \/ Hang \/ Vanish \/ Tick

Spec == Init /\ [][Next]_vars

\* Time passes, the reclaimer keeps running, and what Tick waits for happens.
Fairness ==
    /\ WF_vars(Tick)
    /\ WF_vars(Coordinator)
    /\ WF_vars(TaskCancel)
    /\ WF_vars(Report)
    /\ WF_vars(ChunkEnds)
    /\ WF_vars(Reconnect)

FairSpec == Spec /\ Fairness

-----------------------------------------------------------------------------
(* Properties *)

\* How long after a lease becomes due the renewal is handled at the latest,
\* when m renewals have failed: a report interval each, one more for the report
\* that works, and its way to the coordinator.
Budget(m) == (m + 1) * Interval + Latency

\* The numbers under which the design works: a chunk ends between two reports;
\* what is left of a lease when it becomes due, of the override as of the
\* default, covers the late renewal and a reconnect; so does the
\* acknowledgement lease; and the grace covers a reconnect.
Timely ==
    /\ ChunkTime < Interval
    /\ RenewAfter + Budget(MaxMisses) + ReconnectTime <= LeaseTTL
    /\ RenewAfter + Budget(MaxMisses) + ReconnectTime <= PolicyTTL
    /\ Latency + ReconnectTime <= AckTimeout
    /\ ReconnectTime <= Grace

\* handle_task_progress: "this is what lets a legitimate ten-minute task hold
\* its lease for ten minutes".  A worker that executes, reports and comes back
\* after a lost session does not lose its task to lease expiry before the
\* deadline.
HealthyTaskKeepsLease == reason = "lease_expired" => faults # {}

\* renew_lease: "renewal can postpone a reclaim but can never prevent one".
\* Past its deadline a task is up for reclaim, whatever its worker reports and
\* however often it reconnects.
DeadlineBinds == Live /\ deadline < 0 => lease < 0

\* A worker that hangs inside a chunk goes quiet, because an unchanged fraction
\* is not reported, and one that is gone sends nothing: in every case the
\* attempt ends, by a result or by the reclaimer.
AttemptEnds == <>~Live

=============================================================================
