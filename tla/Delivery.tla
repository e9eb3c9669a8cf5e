------------------------------ MODULE Delivery ------------------------------
(***************************************************************************)
(* How claimed tasks reach one worker and how its answers come back: the   *)
(* assignment engine of coordinator/app/assignment.py, the part of         *)
(* ws_connect in coordinator/app/main.py that opens and closes its         *)
(* session, and the agent of worker/worker.py, joined by a WebSocket that  *)
(* keeps the order of messages in each direction and may break at any      *)
(* time, for either side first.                                            *)
(*                                                                         *)
(* The database is what TaskQueue says it is, seen from this worker: who   *)
(* owns a task, in which state, at which attempt.  A lease may run out at  *)
(* any time (Reclaim), and the other workers may claim and finish tasks.   *)
(* The worker follows its own code, so every task it reports on is one it  *)
(* was handed; that such a report is never taken for an impostor's is      *)
(* HonestHolderIsNoImpostor of TaskQueue.                                  *)
(*                                                                         *)
(* One session exists at a time: the worker says hello again only when     *)
(* the coordinator has given up the previous session.                      *)
(***************************************************************************)
EXTENDS Integers, FiniteSets, Sequences, TaskStates

CONSTANTS
    Tasks,              \* task ids, all of them enqueued
    NoExecutor,         \* tasks of a type the worker advertises but cannot run
    MaxConcurrent,      \* the worker's MAX_CONCURRENT, declared in hello
    AttemptCap,         \* max_attempts of each task's type
    MaxAttempts,        \* bound: the largest of these
    MaxPendingResults,  \* MAX_PENDING_RESULTS
    DequeueMaxBatch,    \* TASK_DEQUEUE_MAX_BATCH
    MaxSessions,        \* bound: sessions opened; only the last one lasts
    MaxCopies,          \* bound: copies of one task's result, or of the answer, in transit
    Events              \* the rarer events an instance includes

ASSUME SizesAssumption ==
    /\ MaxConcurrent \in Nat \ {0}
    /\ MaxAttempts \in Nat
    /\ MaxPendingResults \in Nat \ {0}
    /\ DequeueMaxBatch \in Nat \ {0}
    /\ MaxSessions \in Nat
    /\ MaxCopies \in Nat

ASSUME CapsAssumption == AttemptCap \in [Tasks -> 1..MaxAttempts]

ASSUME TasksAssumption == IsFiniteSet(Tasks) /\ NoExecutor \subseteq Tasks

ASSUME EventsAssumption == Events \subseteq {"restart", "drain", "malformed", "renewal_fails"}

VARIABLES
    row,        \* the tasks table: status, owner ("me", "other" or "none"), attempt
    cancels,    \* task_cancel messages between a reclaim and the push channel
    \* the coordinator's LocalSession
    phase,      \* "none", "opened" (registered) or "open" (its read loop runs)
    epoch,      \* session_epoch of the latest session
    credited,   \* tasks delivered to this session and not released
    pendingAcks,\* tasks delivered to this session and not acknowledged
    residual,   \* residual_in_flight
    recovered,  \* recovered_tasks
    saturated,  \* saturated
    draining,   \* _draining of the replica that holds the session
    pass,       \* the assignment pass under way
    \* the sockets
    down,       \* messages to the worker, oldest first
    up,         \* messages to the coordinator, oldest first
    hello,      \* tasks_in_flight of a hello nobody has answered, or NoHello
    \* the worker's TaskRunner
    conn,       \* "down", "hello" (waiting for hello_ack) or "up" (attached)
    running,    \* running: per task, its execution or Idle
    slots,      \* free slots of the semaphore
    results,    \* pending_results, oldest first
    \* history
    executed,   \* <<task, attempt>> pairs whose execution succeeded
    discarded,  \* <<task, attempt>> pairs whose result the worker gave up unanswered
    refused     \* tasks this session saw refused at_capacity

dbVars      == <<row, cancels>>
sessionVars == <<credited, pendingAcks, residual, recovered, saturated>>
coordVars   == <<phase, epoch, draining, pass>>
wireVars    == <<down, up, hello>>
workerVars  == <<conn, running, slots, results>>
histVars    == <<executed, discarded, refused>>
vars == <<dbVars, coordVars, sessionVars, wireVars, workerVars, histVars>>

-----------------------------------------------------------------------------
(* Values *)

NoHello == -1
Idle == [attempt |-> -1, cancel |-> FALSE]

Row == [status : {"QUEUED", "ASSIGNED", "RUNNING", "COMPLETED", "FAILED"},
        owner  : {"me", "other", "none"}, attempt : 0..MaxAttempts]

\* A RunningTask.
Execution == [attempt : 0..MaxAttempts, cancel : BOOLEAN]

\* A result envelope; valid is what results.validate will make of it.
Envelope == [task : Tasks, attempt : 0..MaxAttempts, valid : BOOLEAN]

AssignMsg(t, a)  == [type |-> "task_assign", task |-> t, attempt |-> a]
CancelMsg(t)     == [type |-> "task_cancel", task |-> t]
\* answered is history: the message itself names only the task.
ResultAckMsg(t, a) == [type |-> "task_result_ack", task |-> t, answered |-> a]
HelloAckMsg      == [type |-> "hello_ack"]
AckMsg(t, r)     == [type |-> "task_ack", task |-> t, reply |-> r]
StartedMsg(t)    == [type |-> "task_started", task |-> t]
FailedMsg(t)     == [type |-> "task_failed", task |-> t]
CapacityMsg(t)   == [type |-> "capacity", task |-> t]
ResultMsg(e)     == [type |-> "task_result", task |-> e.task, envelope |-> e]

DownMsg == {HelloAckMsg} \cup {CancelMsg(t) : t \in Tasks}
             \cup {ResultAckMsg(t, a) : t \in Tasks, a \in 0..MaxAttempts}
             \cup {AssignMsg(t, a) : t \in Tasks, a \in 0..MaxAttempts}
Replies == {"accepted", "unsupported_task_type", "at_capacity"}
UpMsg == {AckMsg(t, r) : t \in Tasks, r \in Replies}
           \cup {StartedMsg(t) : t \in Tasks} \cup {FailedMsg(t) : t \in Tasks}
           \cup {CapacityMsg(t) : t \in Tasks} \cup {ResultMsg(e) : e \in Envelope}

\* The pass of assign_once: no pass, candidates chosen for the session of some
\* epoch, or claimed tasks of that epoch's session still to be delivered.
NoPass == [stage |-> "idle", epoch |-> 0, batch |-> {}]
Claimed == [task : Tasks, attempt : 0..MaxAttempts]
Pass == [stage : {"idle", "started", "delivering"}, epoch : 0..MaxSessions,
         batch : SUBSET Claimed]

TypeOK ==
    /\ row \in [Tasks -> Row]
    /\ cancels \subseteq Tasks
    /\ phase \in {"none", "opened", "open"}
    /\ epoch \in 0..MaxSessions
    /\ credited \subseteq Tasks
    /\ pendingAcks \subseteq Tasks
    /\ residual \in 0..MaxConcurrent
    /\ recovered \subseteq Tasks
    /\ saturated \in BOOLEAN
    /\ draining \in BOOLEAN
    /\ pass \in Pass
    /\ down \in Seq(DownMsg)
    /\ up \in Seq(UpMsg)
    /\ hello \in 0..MaxConcurrent \cup {NoHello}
    /\ conn \in {"down", "hello", "up"}
    /\ running \in [Tasks -> Execution \cup {Idle}]
    /\ slots \in 0..MaxConcurrent
    /\ results \in Seq(Envelope)
    /\ executed \subseteq Tasks \X (0..MaxAttempts)
    /\ discarded \subseteq Tasks \X (0..MaxAttempts)
    /\ refused \subseteq Tasks

Init ==
    /\ row = [t \in Tasks |-> [status |-> "QUEUED", owner |-> "none", attempt |-> 0]]
    /\ cancels = {}
    /\ phase = "none"
    /\ epoch = 0
    /\ credited = {} /\ pendingAcks = {} /\ recovered = {} /\ residual = 0
    /\ saturated = FALSE
    /\ draining = FALSE
    /\ pass = NoPass
    /\ down = <<>> /\ up = <<>> /\ hello = NoHello
    /\ conn = "down"
    /\ running = [t \in Tasks |-> Idle]
    /\ slots = MaxConcurrent
    /\ results = <<>>
    /\ executed = {} /\ discarded = {} /\ refused = {}

-----------------------------------------------------------------------------
(* The rest of the system: leases running out, and the other workers *)

Live(t) == row[t].status \in {"ASSIGNED", "RUNNING"}

\* reclaim_expired_leases as reclaim_once calls it: the next attempt, or the
\* end of the task, and a cancel for the worker that lost it.
Reclaim(t) ==
    /\ Live(t)
    /\ row' = [row EXCEPT ![t] =
                  [status  |-> IF @.attempt + 1 >= AttemptCap[t] THEN "FAILED" ELSE "QUEUED",
                   owner   |-> "none",
                   attempt |-> @.attempt + 1]]
    /\ cancels' = IF row[t].owner = "me" THEN cancels \cup {t} ELSE cancels
    /\ UNCHANGED <<coordVars, sessionVars, wireVars, workerVars, histVars>>

\* Another worker's session claims a task, and that worker completes it.
OtherClaims(t) ==
    /\ row[t].status = "QUEUED"
    /\ row' = [row EXCEPT ![t].status = "ASSIGNED", ![t].owner = "other"]
    /\ UNCHANGED <<cancels, coordVars, sessionVars, wireVars, workerVars, histVars>>

OtherCompletes(t) ==
    /\ Live(t) /\ row[t].owner = "other"
    /\ row' = [row EXCEPT ![t].status = "COMPLETED"]
    /\ UNCHANGED <<cancels, coordVars, sessionVars, wireVars, workerVars, histVars>>

-----------------------------------------------------------------------------
(* Sending.  A side that still believes in a broken socket sends into the  *)
(* void.                                                                   *)

ToWorker(msgs) == IF conn = "down" THEN down ELSE down \o msgs
ToCoordinator(msgs) == IF phase = "none" THEN up ELSE up \o msgs

\* TaskRunner.report: dropped when no session is attached.
Report(msg) == IF conn = "up" THEN ToCoordinator(<<msg>>) ELSE up

\* _push_listener: the published cancel reaches the socket of a live session;
\* one published with nobody subscribed is gone, and so is one whose publish
\* fails.
ForwardCancel(t) ==
    /\ t \in cancels
    /\ cancels' = cancels \ {t}
    /\ \/ phase # "none" /\ down' = ToWorker(<<CancelMsg(t)>>)
       \/ UNCHANGED down
    /\ UNCHANGED <<row, coordVars, sessionVars, up, hello, workerVars, histVars>>

-----------------------------------------------------------------------------
(* The session (ws_connect) *)

\* A hello is answered and the session registered with the work the worker
\* declared.  ws_connect does not ask whether its replica is draining.
OpenSession ==
    /\ phase = "none" /\ hello # NoHello
    /\ phase' = "opened" /\ epoch' = epoch + 1
    /\ draining' \in {d \in BOOLEAN : d => "drain" \in Events}
    /\ credited' = {} /\ pendingAcks' = {} /\ recovered' = {} /\ saturated' = FALSE
    /\ residual' = hello
    /\ refused' = {} /\ hello' = NoHello /\ up' = <<>>
    /\ down' = ToWorker(<<HelloAckMsg>>)
    /\ UNCHANGED <<dbVars, pass, workerVars, executed, discarded>>

\* renew_worker_leases on hello: what the database says this worker holds may
\* be renewed by this session.  A failure is logged and swallowed.  The read
\* loop starts after it.
RecoverLeases ==
    /\ phase = "opened"
    /\ phase' = "open"
    /\ \/ recovered' = {t \in Tasks : Live(t) /\ row[t].owner = "me"}
       \/ "renewal_fails" \in Events /\ UNCHANGED recovered
    /\ UNCHANGED <<dbVars, epoch, draining, pass, credited, pendingAcks, residual,
                   saturated, wireVars, workerVars, histVars>>

\* Any session but the last may break, for either side.
MayBreak == epoch < MaxSessions

\* The read loop ends (disconnect, silence, eviction, shutdown) and the
\* session is unregistered.  What it had not read is gone; what it had sent
\* may still arrive.
SessionEnds ==
    /\ phase = "open"
    /\ MayBreak \/ conn = "down"
    /\ phase' = "none"
    /\ credited' = {} /\ pendingAcks' = {} /\ recovered' = {} /\ residual' = 0
    /\ saturated' = FALSE /\ draining' = FALSE /\ refused' = {}
    /\ up' = <<>>
    /\ UNCHANGED <<dbVars, epoch, pass, down, hello, workerVars, executed, discarded>>

\* begin_drain
BeginDrain ==
    /\ "drain" \in Events
    /\ phase # "none" /\ ~draining
    /\ draining' = TRUE
    /\ UNCHANGED <<dbVars, phase, epoch, pass, sessionVars, wireVars, workerVars, histVars>>

-----------------------------------------------------------------------------
(* The assignment pass (assign_once) *)

\* Mutated form of in_flight: the work declared in hello is not counted.
in_flight_without_residue == Cardinality(credited)

in_flight == residual + Cardinality(credited)

free_credits ==
    IF saturated \/ in_flight >= MaxConcurrent THEN 0 ELSE MaxConcurrent - in_flight

PassIsCurrent == phase # "none" /\ pass.epoch = epoch

\* The drain flag, the candidates and the queue depth are read once, here.
StartPass ==
    /\ pass.stage = "idle"
    /\ phase # "none" /\ ~draining /\ free_credits > 0
    /\ \E t \in Tasks : row[t].status = "QUEUED"
    /\ pass' = [stage |-> "started", epoch |-> epoch, batch |-> {}]
    /\ UNCHANGED <<dbVars, phase, epoch, draining, sessionVars, wireVars, workerVars, histVars>>

\* limit: the free credits of the session when its turn comes.  The credits of
\* a session that has ended meanwhile are whatever they were.
ClaimLimit == IF PassIsCurrent THEN free_credits ELSE MaxConcurrent

\* Mutated form of Claim: a row somebody has just been assigned is claimed
\* again, as a claim without its row lock would.
ClaimUnlocked(S) ==
    /\ pass.stage = "started"
    /\ S # {} /\ Cardinality(S) <= ClaimLimit /\ Cardinality(S) <= DequeueMaxBatch
    /\ \A t \in S : row[t].status \in {"QUEUED", "ASSIGNED"}
    /\ row' = [t \in Tasks |->
                  IF t \in S THEN [row[t] EXCEPT !.status = "ASSIGNED", !.owner = "me"]
                  ELSE row[t]]
    /\ pass' = [pass EXCEPT !.stage = "delivering",
                            !.batch = {[task |-> t, attempt |-> row[t].attempt] : t \in S}]
    /\ UNCHANGED <<cancels, phase, epoch, draining, sessionVars, wireVars, workerVars, histVars>>

\* dequeue and its commit, for up to the limit.  The rows are returned with the
\* attempt they had then.
Claim(S) ==
    /\ pass.stage = "started"
    /\ S # {} /\ Cardinality(S) <= ClaimLimit /\ Cardinality(S) <= DequeueMaxBatch
    /\ \A t \in S : row[t].status = "QUEUED"
    /\ row' = [t \in Tasks |->
                  IF t \in S THEN [row[t] EXCEPT !.status = "ASSIGNED", !.owner = "me"]
                  ELSE row[t]]
    /\ pass' = [pass EXCEPT !.stage = "delivering",
                            !.batch = {[task |-> t, attempt |-> row[t].attempt] : t \in S}]
    /\ UNCHANGED <<cancels, phase, epoch, draining, sessionVars, wireVars, workerVars, histVars>>

\* Nothing to claim, or no credit left by the session's turn: dequeue returns
\* no row or refuses the limit, and the pass is over.
ClaimNothing ==
    /\ pass.stage = "started"
    /\ ClaimLimit = 0 \/ \A t \in Tasks : row[t].status # "QUEUED"
    /\ pass' = NoPass
    /\ UNCHANGED <<dbVars, phase, epoch, draining, sessionVars, wireVars, workerVars, histVars>>

PassWithout(d) ==
    IF pass.batch = {d} THEN NoPass ELSE [pass EXCEPT !.batch = @ \ {d}]

\* _deliver: the frame is sent, the credit taken and the acknowledgement
\* awaited.
Deliver(d) ==
    /\ d \in pass.batch /\ PassIsCurrent
    /\ down' = ToWorker(<<AssignMsg(d.task, d.attempt)>>)
    /\ pendingAcks' = pendingAcks \cup {d.task}
    /\ credited' = credited \cup {d.task}
    /\ pass' = PassWithout(d)
    /\ UNCHANGED <<dbVars, phase, epoch, draining, residual, recovered, saturated,
                   up, hello, workerVars, histVars>>

\* _deliver on a dead socket: the send raises and nothing is recorded.  The row
\* stays assigned until its lease runs out.
DeliverFails(d) ==
    /\ d \in pass.batch
    /\ ~PassIsCurrent \/ conn = "down"
    /\ pass' = PassWithout(d)
    /\ UNCHANGED <<dbVars, phase, epoch, draining, sessionVars, wireVars, workerVars, histVars>>

-----------------------------------------------------------------------------
(* The handlers of the read loop, one per message type *)

Receives(type) == phase = "open" /\ up # <<>> /\ Head(up).type = type

\* Mutated form of ReleaseCredit: the residue is drawn on without a check.
ReleaseCreditUnclamped(t) ==
    /\ credited' = credited \ {t}
    /\ residual' = IF t \notin credited THEN residual - 1 ELSE residual

\* _release_credit for a named task: its key, else one unit of the work
\* declared in hello.
ReleaseCredit(t) ==
    /\ credited' = credited \ {t}
    /\ residual' = IF t \notin credited /\ residual > 0 THEN residual - 1 ELSE residual

\* What a report that ends a task's stay resets besides the credit.
ForgetTask(t) ==
    /\ recovered' = recovered \ {t}
    /\ saturated' = FALSE

\* Mutated form of HandleTaskAck: the acknowledgement counts only while the
\* worker still owns the task.
HandleTaskAckOfOwner ==
    /\ Receives("task_ack")
    /\ LET m == Head(up)
           known == m.task \in pendingAcks /\ row[m.task].owner = "me"
       IN  /\ pendingAcks' = IF known THEN pendingAcks \ {m.task} ELSE pendingAcks
           /\ saturated' = IF known /\ m.reply = "at_capacity" THEN TRUE ELSE saturated
           /\ IF known /\ m.reply = "unsupported_task_type"
              THEN ReleaseCredit(m.task)
              ELSE UNCHANGED <<credited, residual>>
    /\ up' = Tail(up)
    /\ UNCHANGED <<dbVars, coordVars, recovered, down, hello, workerVars, histVars>>

\* handle_task_ack.  An acceptance only renews the lease.
HandleTaskAck ==
    /\ Receives("task_ack")
    /\ LET m == Head(up)
           known == m.task \in pendingAcks
       IN  /\ pendingAcks' = pendingAcks \ {m.task}
           /\ saturated' = IF known /\ m.reply = "at_capacity" THEN TRUE ELSE saturated
           /\ refused' = IF known /\ m.reply = "at_capacity"
                         THEN refused \cup {m.task} ELSE refused
           /\ IF known /\ m.reply = "unsupported_task_type"
              THEN ReleaseCredit(m.task)
              ELSE UNCHANGED <<credited, residual>>
    /\ up' = Tail(up)
    /\ UNCHANGED <<dbVars, coordVars, recovered, down, hello, workerVars, executed, discarded>>

\* handle_task_started: mark_status to RUNNING, which does not look at the
\* attempt.
HandleTaskStarted ==
    /\ Receives("task_started")
    /\ LET t == Head(up).task
       IN  row' = IF row[t].owner = "me"
                     /\ check_transition(row[t].status, "RUNNING") = "write"
                  THEN [row EXCEPT ![t].status = "RUNNING"] ELSE row
    /\ up' = Tail(up)
    /\ UNCHANGED <<cancels, coordVars, sessionVars, down, hello, workerVars, histVars>>

\* handle_capacity
HandleCapacity ==
    /\ Receives("capacity")
    /\ ReleaseCredit(Head(up).task)
    /\ ForgetTask(Head(up).task)
    /\ up' = Tail(up)
    /\ UNCHANGED <<dbVars, coordVars, pendingAcks, down, hello, workerVars, histVars>>

\* Mutated form of HandleTaskFailed: a row that is somebody else's by now
\* releases nothing.
HandleTaskFailedOwnerOnly ==
    /\ Receives("task_failed")
    /\ LET t == Head(up).task
           mine == row[t].owner = "me"
       IN  /\ row' = IF mine /\ check_transition(row[t].status, "FAILED") = "write"
                     THEN [row EXCEPT ![t].status = "FAILED"] ELSE row
           /\ IF mine THEN ReleaseCredit(t) ELSE UNCHANGED <<credited, residual>>
           /\ ForgetTask(t)
    /\ up' = Tail(up)
    /\ UNCHANGED <<cancels, coordVars, pendingAcks, down, hello, workerVars, histVars>>

\* handle_task_failed: mark_status to FAILED, then the credit unless the row is
\* somebody else's and this session never delivered the task.
HandleTaskFailed ==
    /\ Receives("task_failed")
    /\ LET t == Head(up).task
           mine == row[t].owner = "me"
       IN  /\ row' = IF mine /\ check_transition(row[t].status, "FAILED") = "write"
                     THEN [row EXCEPT ![t].status = "FAILED"] ELSE row
           /\ IF mine \/ t \in credited
              THEN ReleaseCredit(t)
              ELSE UNCHANGED <<credited, residual>>
           /\ ForgetTask(t)
    /\ up' = Tail(up)
    /\ UNCHANGED <<cancels, coordVars, pendingAcks, down, hello, workerVars, histVars>>

\* Mutated form of result_outcome: the attempt is not compared.
result_outcome_unfenced(e) ==
    IF row[e.task].status \in TERMINAL_STATES THEN "terminal"
    ELSE IF row[e.task].owner = "me" THEN "transitioned"
    ELSE "fenced"

\* complete_task for a worker that was handed the task: duplicate and
\* superseded are one outcome here, and not_owner cannot happen.
result_outcome(e) ==
    IF row[e.task].status \in TERMINAL_STATES THEN "terminal"
    ELSE IF row[e.task].owner = "me" /\ row[e.task].attempt = e.attempt
    THEN "transitioned"
    ELSE "fenced"

\* handle_task_result: a malformed envelope touches the session only; a valid
\* one goes to complete_task.  A fenced result gives a credit back only if the
\* session delivered that task.  Every result is answered.
HandleTaskResult ==
    /\ Receives("task_result")
    /\ LET e == Head(up).envelope
           t == e.task
           outcome == IF e.valid THEN result_outcome(e) ELSE "rejected"
       IN  /\ row' = IF outcome = "transitioned"
                     THEN [row EXCEPT ![t].status = "COMPLETED"] ELSE row
           /\ IF outcome \in {"transitioned", "terminal"} \/ t \in credited
              THEN ReleaseCredit(t)
              ELSE UNCHANGED <<credited, residual>>
           /\ IF outcome # "fenced" \/ t \in credited
              THEN ForgetTask(t)
              ELSE UNCHANGED <<recovered, saturated>>
           /\ down' = ToWorker(<<ResultAckMsg(t, e.attempt)>>)
    /\ up' = Tail(up)
    /\ UNCHANGED <<cancels, coordVars, pendingAcks, hello, workerVars, histVars>>

-----------------------------------------------------------------------------
(* The worker: connecting (_hold_connection) *)

Running == {t \in Tasks : running[t] # Idle}

\* A new socket; hello declares the executions under way.
Connect ==
    /\ conn = "down" /\ phase = "none" /\ epoch < MaxSessions
    /\ conn' = "hello"
    /\ hello' = Cardinality(Running)
    /\ UNCHANGED <<dbVars, coordVars, sessionVars, down, up, running, slots, results, histVars>>

WorkerReceives(type) == down # <<>> /\ Head(down).type = type

\* attach: reports go to this session from here on.
Attach ==
    /\ conn = "hello" /\ WorkerReceives("hello_ack")
    /\ conn' = "up"
    /\ down' = Tail(down)
    /\ UNCHANGED <<dbVars, coordVars, sessionVars, up, hello, running, slots, results, histVars>>

Pending == {results[i] : i \in DOMAIN results}

\* The coordinator has given up the session the worker believes in.
SocketIsDead == conn # "down" /\ phase = "none" /\ hello = NoHello

\* Mutated form of WorkerLosesSocket: unacknowledged results belong to the
\* session and go with it.
WorkerLosesSocketAndResults ==
    /\ conn # "down"
    /\ MayBreak \/ SocketIsDead
    /\ conn' = "down" /\ down' = <<>> /\ hello' = NoHello /\ results' = <<>>
    /\ UNCHANGED <<dbVars, coordVars, sessionVars, up, running, slots, histVars>>

\* The worker loses the socket, or gives up waiting for the answer: detach.
WorkerLosesSocket ==
    /\ conn # "down"
    /\ MayBreak \/ SocketIsDead
    /\ conn' = "down" /\ down' = <<>> /\ hello' = NoHello
    /\ UNCHANGED <<dbVars, coordVars, sessionVars, up, running, slots, results, histVars>>

\* The worker process restarts: executions and unacknowledged results are gone.
RestartWorker ==
    /\ "restart" \in Events /\ MayBreak
    /\ conn # "down"
    /\ conn' = "down" /\ down' = <<>> /\ hello' = NoHello
    /\ running' = [t \in Tasks |-> Idle] /\ slots' = MaxConcurrent /\ results' = <<>>
    /\ discarded' = discarded \cup {<<e.task, e.attempt>> : e \in Pending}
    /\ UNCHANGED <<dbVars, coordVars, sessionVars, up, executed, refused>>

-----------------------------------------------------------------------------
(* The worker: admission, execution, results *)

AlreadyRunning(t) == running[t] # Idle

\* _handle_assignment
HandleAssignment ==
    /\ conn = "up" /\ WorkerReceives("task_assign")
    /\ LET t == Head(down).task
       IN  \/ /\ t \in NoExecutor
              /\ up' = ToCoordinator(<<AckMsg(t, "unsupported_task_type")>>)
              /\ UNCHANGED <<running, slots>>
           \/ /\ t \notin NoExecutor /\ AlreadyRunning(t)
              /\ up' = ToCoordinator(<<AckMsg(t, "accepted")>>)
              /\ UNCHANGED <<running, slots>>
           \/ /\ t \notin NoExecutor /\ ~AlreadyRunning(t) /\ slots = 0
              /\ up' = ToCoordinator(<<AckMsg(t, "at_capacity")>>)
              /\ UNCHANGED <<running, slots>>
           \/ /\ t \notin NoExecutor /\ ~AlreadyRunning(t) /\ slots > 0
              /\ slots' = slots - 1
              /\ running' = [running EXCEPT ![t] = [attempt |-> Head(down).attempt,
                                                    cancel |-> FALSE]]
              /\ up' = ToCoordinator(<<AckMsg(t, "accepted"), StartedMsg(t)>>)
    /\ down' = Tail(down)
    /\ UNCHANGED <<dbVars, coordVars, sessionVars, hello, conn, results, histVars>>

\* _handle_cancel: keyed by the task alone.
HandleCancel ==
    /\ conn = "up" /\ WorkerReceives("task_cancel")
    /\ LET t == Head(down).task
       IN  running' = IF running[t] = Idle THEN running
                      ELSE [running EXCEPT ![t].cancel = TRUE]
    /\ down' = Tail(down)
    /\ UNCHANGED <<dbVars, coordVars, sessionVars, up, hello, conn, slots, results, histVars>>

\* _handle_result_ack: the pending result of that task, if it is still there, is
\* dropped, whichever attempt's result the answer was for.
HandleResultAck ==
    /\ conn = "up" /\ WorkerReceives("task_result_ack")
    /\ LET m == Head(down)
       IN  \/ \E i \in DOMAIN results :
                 /\ results[i].task = m.task
                 /\ results' = SubSeq(results, 1, i - 1)
                                 \o SubSeq(results, i + 1, Len(results))
                 /\ discarded' = IF results[i].attempt = m.answered THEN discarded
                                 ELSE discarded \cup {<<m.task, results[i].attempt>>}
           \/ /\ \A i \in DOMAIN results : results[i].task # m.task
              /\ UNCHANGED <<results, discarded>>
    /\ down' = Tail(down)
    /\ UNCHANGED <<dbVars, coordVars, sessionVars, up, hello, conn, running, slots,
                   executed, refused>>

\* record_result: at the cap the oldest goes first, even when the new result
\* replaces one of the same task, which keeps that one's place.
RecordResult(e) ==
    LET kept == IF Len(results) >= MaxPendingResults THEN Tail(results) ELSE results
        same == {i \in DOMAIN kept : kept[i].task = e.task}
    IN  IF same = {} THEN Append(kept, e)
        ELSE [i \in DOMAIN kept |-> IF i \in same THEN e ELSE kept[i]]

\* Mutated form of ReleaseSlot: the slot comes back only if the report was sent.
ReleaseSlotIfReported(t) ==
    /\ running[t] # Idle
    /\ running' = [running EXCEPT ![t] = Idle]
    /\ slots' = IF conn = "up" THEN slots + 1 ELSE slots

\* The finally clause of _execute_task.  It is reached without giving way to
\* another coroutine once the report has been sent.
ReleaseSlot(t) ==
    /\ running[t] # Idle
    /\ running' = [running EXCEPT ![t] = Idle]
    /\ slots' = slots + 1

\* _execute_task, success: the result is recorded and submitted.
ExecutionSucceeds(t, valid) ==
    /\ ReleaseSlot(t)
    /\ valid \/ "malformed" \in Events
    /\ LET e == [task |-> t, attempt |-> running[t].attempt, valid |-> valid]
       IN  /\ results' = RecordResult(e)
           /\ up' = Report(ResultMsg(e))
    /\ executed' = executed \cup {<<t, running[t].attempt>>}
    /\ discarded' = IF Len(results) >= MaxPendingResults
                    THEN discarded \cup {<<Head(results).task, Head(results).attempt>>}
                    ELSE discarded
    /\ UNCHANGED <<dbVars, coordVars, sessionVars, down, hello, conn, refused>>

\* _execute_task, the executor raised.
ExecutionFails(t) ==
    /\ ReleaseSlot(t)
    /\ up' = Report(FailedMsg(t))
    /\ UNCHANGED <<dbVars, coordVars, sessionVars, down, hello, conn, results, histVars>>

\* _execute_task, the executor saw the cancel flag.
ExecutionCancelled(t) ==
    /\ ReleaseSlot(t) /\ running[t].cancel
    /\ up' = Report(CapacityMsg(t))
    /\ UNCHANGED <<dbVars, coordVars, sessionVars, down, hello, conn, results, histVars>>

\* The copies of a task's result, and of the answers to it, on the wire.
Copies(t) ==
    Cardinality({i \in DOMAIN up : up[i].type = "task_result" /\ up[i].task = t})
  + Cardinality({i \in DOMAIN down : down[i].type = "task_result_ack" /\ down[i].task = t})

\* _result_submission_loop: a result not yet answered is sent again.  The grace
\* it waits before that may run out at any time.
Resend(e) ==
    /\ conn = "up" /\ Copies(e.task) < MaxCopies
    /\ up' = ToCoordinator(<<ResultMsg(e)>>)
    /\ UNCHANGED <<dbVars, coordVars, sessionVars, down, hello, workerVars, histVars>>

-----------------------------------------------------------------------------
(* The specification *)

Environment ==
    \/ \E t \in Tasks : Reclaim(t) \/ OtherClaims(t) \/ OtherCompletes(t) \/ ForwardCancel(t)
    \/ BeginDrain

ReadLoop ==
    \/ HandleTaskAck \/ HandleTaskStarted \/ HandleCapacity
    \/ HandleTaskFailed \/ HandleTaskResult

AssignmentLoop ==
    \/ StartPass \/ ClaimNothing
    \/ \E S \in SUBSET Tasks : Claim(S)
    \/ \E d \in pass.batch : Deliver(d) \/ DeliverFails(d)

WorkerReads == Attach \/ HandleAssignment \/ HandleCancel \/ HandleResultAck

Execute(t) ==
    \/ \E valid \in BOOLEAN : ExecutionSucceeds(t, valid)
    \/ ExecutionFails(t) \/ ExecutionCancelled(t)

Resubmit == \E e \in Pending : Resend(e)

Next ==
    \/ Environment
    \/ OpenSession \/ RecoverLeases \/ SessionEnds
    \/ ReadLoop \/ AssignmentLoop
    \/ Connect \/ WorkerLosesSocket \/ RestartWorker
    \/ WorkerReads
    \/ \E t \in Tasks : Execute(t)
    \/ Resubmit

Spec == Init /\ [][Next]_vars

\* Fairness.  Both event loops keep reading their socket, passes that have been
\* started are carried through, a dead peer is noticed (pings on one side, the
\* pong timeout on the other), and the reconnect and resubmission loops never
\* give up.  A handshake may fail any number of times but not for ever.
\* Nothing is assumed of executions, of leases or of the other workers.
Fairness ==
    /\ WF_vars(ReadLoop) /\ WF_vars(WorkerReads)
    /\ WF_vars(AssignmentLoop) /\ WF_vars(RecoverLeases)
    /\ WF_vars(conn = "down" /\ SessionEnds)
    /\ WF_vars(SocketIsDead /\ WorkerLosesSocket)
    /\ WF_vars(Connect) /\ SF_vars(OpenSession)
    /\ WF_vars(Resubmit)

FairSpec == Spec /\ Fairness

-----------------------------------------------------------------------------
(* Properties *)

\* The credit accounting (in_flight, free_credits, the limit of assign_once)
\* never commits the worker beyond the concurrency it declared, counting what
\* a pass has claimed for this session and not delivered yet.
CreditsWithinLimit ==
    residual + Cardinality(credited)
             + (IF PassIsCurrent
                 THEN Cardinality({d \in pass.batch : d.task \notin credited}) ELSE 0)
        <= MaxConcurrent

\* The semaphore and the running table of TaskRunner agree, whatever is
\* delivered twice, cancelled or finished while disconnected: slots are
\* neither leaked nor handed out twice.
SlotsMatchRunning == slots + Cardinality(Running) = MaxConcurrent

\* handle_task_ack and drain_local_sessions: while the socket is whole, an
\* acknowledgement the session waits for is still to come, so a drain never
\* waits for an answer nobody will send.
PendingAckIsOnTheWay ==
    (phase # "none" /\ conn = "up") =>
        \A t \in pendingAcks :
            \/ \E i \in DOMAIN down : down[i].type = "task_assign" /\ down[i].task = t
            \/ \E i \in DOMAIN up : up[i].type = "task_ack" /\ up[i].task = t

\* Something that will make a handler release t's credit is still under way.
ReleaseIsComing(t) ==
    \/ \E i \in DOMAIN down : down[i].type = "task_assign" /\ down[i].task = t
    \/ running[t] # Idle
    \/ \E i \in DOMAIN up :
          /\ up[i].task = t
          /\ \/ up[i].type \in {"task_result", "task_failed", "capacity"}
             \/ up[i].type = "task_ack" /\ up[i].reply = "unsupported_task_type"
             \/ up[i].type = "task_ack" /\ up[i].reply = "at_capacity"

\* _release_credit's callers: while the socket is whole, a credit is held only
\* as long as a report that releases it is still to come, or because the worker
\* refused the task at capacity in this session.
CreditIsExplained ==
    (phase # "none" /\ conn = "up") =>
        \A t \in credited : t \in refused \/ ReleaseIsComing(t)

\* A task completed by this worker at some attempt was executed to the end by
\* this worker under that very attempt number, although a delivery may find an
\* older execution of the task still running and results are sent again.
CompletionWasExecuted ==
    \A t \in Tasks :
        (row[t].status = "COMPLETED" /\ row[t].owner = "me")
            => <<t, row[t].attempt>> \in executed

\* drain_local_sessions: with nothing new handed out, every delivery of a
\* draining replica is acknowledged, or its session ends.
DrainEmpties == draining ~> (pendingAcks = {} \/ ~draining)

\* The worker holds a well-formed result of the attempt the row is at.
OwesResult(t) ==
    /\ Live(t) /\ row[t].owner = "me"
    /\ \E e \in Pending : e.task = t /\ e.attempt = row[t].attempt /\ e.valid

\* pending_results and _result_submission_loop: a result computed before,
\* during or after an outage is applied in the end, unless the attempt is taken
\* from the worker first or the worker itself gives the result up: when it
\* restarts, when record_result makes room in a full buffer, or when
\* result_acknowledged drops it on the answer to an older attempt's result.
FinishedWorkLands ==
    \A t \in Tasks :
        OwesResult(t) ~> \/ ~(Live(t) /\ row[t].owner = "me")
                         \/ <<t, row[t].attempt>> \in discarded

-----------------------------------------------------------------------------
(* The abstract specification *)

\* What TaskLifecycle speaks of, once every task has been submitted.
AbstractTask ==
    [t \in Tasks |->
        [phase  |-> CASE row[t].status = "QUEUED" -> "waiting"
                      [] row[t].status = "COMPLETED" -> "won"
                      [] row[t].status = "FAILED" -> "lost"
                      [] OTHER -> "held",
         holder |-> IF row[t].status = "FAILED" THEN "none" ELSE row[t].owner,
         number |-> row[t].attempt]]

Lifecycle == INSTANCE TaskLifecycle
                WITH task <- AbstractTask, Workers <- {"me", "other"}, Nobody <- "none"

\* The handlers of the read loop, the assignment pass and the reclaimer move a
\* task only as TaskLifecycle, and therefore the queue, allows: the database
\* this module assumes is not a stronger one than TaskQueue's.
MovesAsLifecycle == [][Lifecycle!Next]_AbstractTask

=============================================================================
