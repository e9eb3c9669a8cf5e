# Verification of the distributed task platform

This directory is the TLA+ development kept beside the coordinator and the worker
agent: modules that model their control, TLC configurations that check them on small
instances, and TLAPS proofs that every safety property and every refinement the runs
check holds for every size.

## The system and its parts

A fleet of untrusted workers executes tasks handed out by any number of identical
coordinator replicas. Postgres is the only authority; Redis carries notifications,
sessions and telemetry; every worker holds one WebSocket to some replica.

| Component | State it keeps | Operations | Correct when |
|---|---|---|---|
| Task state machine (`task_states.py`) | none | `check_transition`, `is_terminal` | every status write is an allowed move, terminal states are final |
| Queue and lease engine (`task_queue.py`) | `tasks`, `task_attempts`, `task_results` | enqueue, dequeue, mark_status, complete_task, renew, shorten, reclaim, cancel, purge | one winner per task, and it is the current attempt; every lost attempt is recorded; every task ends |
| Per-type policies (`task_policies.py`) | `task_policies` | set, clear, lookup inside SQL | a change affects the next statement and never breaks the bounds |
| Assignment engine (`assignment.py`) | `_local_sessions` (credits, pending acks, saturation, renewal due times), doorbell, retry wake-ups | assign pass, one handler per worker message, renewal throttle, reclaim loop, doorbell listener | a worker is never over-committed by the coordinator's own accounting, capacity is not lost, an executing task keeps its lease, no work waits beside a free credit |
| Graceful shutdown (`serve.py`, `assignment.py`) | drain flag | signal, drain, exit | a draining replica takes little more and always exits |
| Worker agent (`worker.py`, `executors.py`) | running tasks, slots, unacknowledged results | admission, execution, result retry, cancel, reconnect | at most `MAX_CONCURRENT` executions, no result dropped without an answer |
| Sessions (`main.py` `ws_connect`, `_control_listener`) | Redis epoch counter, registry key, local session map | handshake, eviction, teardown | one live session per worker, the newest; teardown of an old one harms nothing |
| Worker status and tokens (`main.py`) | `workers` rows, Redis metrics, token generations | refresh, revoke, status transitions, heartbeat sweep | a revoked worker stays out; the status follows the worker |
| Worker enrolment (`main.py`, `security.py`, `worker.py`) | credential hashes, Redis claims, rate counters, the worker's lock and identity files | register, reaffirm, release, token refresh | a machine enrols once, a restart is not taken for a duplicate, the worker comes up again after anything a restart can repair |
| Result validation (`results.py`), task types (`task_types.py`) | none | validate, truncate | a malformed result writes nothing |
| HTTP surface, dashboard, metrics, middleware, configuration, migrations, scripts, infrastructure | none of its own | CRUD over the above | outside the models (see the end) |

How they interact: `POST /tasks` enqueues and rings a Redis doorbell; every replica's
assignment loop claims rows for the sockets it holds and pushes them; the worker
answers with acks, starts, progress and results, each handled in its own transaction;
each replica's reclaim loop takes back rows whose lease has run out, tells the loser
through a Redis channel, and rings the doorbell again.

What is hard here: a worker that is slow rather than dead comes back with an answer
for a task somebody else now runs; messages of two sessions of the same worker
overlap; the reclaimer, the claim, a renewal and a completion race for one row; a
socket dies between a claim and its delivery, between a result and its
acknowledgement, or inside the handshake; retries have budgets, backoffs and
exclusions that may starve a small fleet; a renewal is throttled while the lease it
extends runs; a doorbell is rung while nobody listens; a process dies between two calls
that belong together. `PROJECT.json` lists these hazards with the
line at which each bites and the properties aimed at it.

## Modules

| Module | What it is |
|---|---|
| `TaskStates` | the state machine of `task_states.py` |
| `TaskLifecycle` | the abstract specification: what a task's users may rely on, whatever the machinery |
| `TaskQueue` | the queue and lease engine with the policies |
| `Delivery` | assignment engine, session and worker agent, joined by a breakable socket |
| `Sessions` | overlapping sessions of one worker id, and the worker row's status |
| `Replica` | coordinator processes: the assignment passes over all their sockets, the doorbell between them, drain and exit |
| `LeaseRenewal` | the timing of one attempt: reports, throttled renewals, reconnects, deadline |
| `Enrolment` | worker processes coming up: lock, identity file, registration, claim, rate limit, token |
| `TaskQueueProofs`, `DeliveryProofs`, `SessionsProofs`, `ReplicaProofs`, `LeaseRenewalProofs`, `EnrolmentProofs` | the theorems about the modules of those names |
| `MCTaskQueue`, `MCDelivery`, `MCSessions`, `MCReplica`, `MCEnrolment` | constants for TLC |

`TaskLifecycle` says that a task is in the hands of at most one worker, that its number
goes up whenever a holder loses it, that only the current holder wins it and that a won
or lost task never changes. `TaskQueue` implements it (`ImplementsLifecycle`, checked
and proved) through the status, the owner and the attempt number of a row. `Delivery`
abstracts the database to those same three, and moves them only as `TaskLifecycle`
allows (`MovesAsLifecycle`, checked and proved), so what it assumes of the queue is what the queue gives.

### TaskQueue

One action is one transaction: every function of `task_queue.py` locks the rows it reads
and is committed by its caller before anything else happens, so interleaving whole
functions in any order is what any number of replicas can do. A column that no guard
reads (timestamps kept for display, correlation ids, payloads, priorities) is left out;
`held` is a history variable that records each claim. Instants are distances from
Postgres's `now()`; `Tick` moves them all. The sender of a report is any worker, naming
any task and attempt, which is how the code treats it.

| Action | Code | Note |
|---|---|---|
| `Enqueue(S)` | `enqueue`, `enqueue_batch` | 1 to `EnqueueMaxBatch` rows |
| `Dequeue(w, S)` | `dequeue` | `SKIP LOCKED` makes the chosen rows any set of eligible ones within the limit |
| `MarkRunning`, `MarkFailed` | `mark_status` as called by `handle_task_started` and `handle_task_failed` (with `record_execution_failure`) | the refusals write nothing and are the guard being false |
| `CompleteTask`, `FenceResult` | `complete_task` and the commit in `handle_task_result` | the other outcomes write nothing |
| `RenewLease`, `RenewWorkerLeases`, `ShortenWorkerLeases` | the functions of the same names | |
| `Reclaim(S)` | `reclaim_expired_leases` | the row update and the attempt rows are one transaction; jitter is any backoff up to the cap |
| `CancelQueued`, `PurgeResults`, `SetPolicy`, `ClearPolicy` | the functions of the same names | |

### Delivery

One worker, one session at a time, and everything the two sides keep about each other.
The socket is a pair of FIFO queues. It breaks for each side separately: what the
coordinator had not read is gone when its session ends, what it had sent may still
arrive until the worker notices, and a side that still believes in the socket sends into
the void.

| Variables | Code |
|---|---|
| `row`, `cancels` | status, owner and attempt of each row; cancels published by `reclaim_once` and not yet forwarded |
| `phase`, `epoch`, `credited`, `pendingAcks`, `residual`, `recovered`, `saturated` | the `LocalSession` of `assignment.py` and whether `ws_connect` is before, in or after its read loop |
| `draining`, `pass` | `_draining`; where `assign_once` is between its awaits |
| `hello`, `down`, `up` | what is on the wire |
| `conn`, `running`, `slots`, `results` | `TaskRunner`: attached session, running table, semaphore, `pending_results` |
| `executed`, `discarded`, `refused` | history: executions that succeeded, results the worker gave up without their own answer, tasks refused at capacity |

| Action | Code |
|---|---|
| `OpenSession`, `RecoverLeases`, `SessionEnds` | `ws_connect`: handshake and `register_session`; the renewal on hello; teardown and `unregister_session` |
| `StartPass`, `Claim`, `ClaimNothing`, `Deliver`, `DeliverFails` | `assign_once` and `_deliver`, cut where they await the database or the socket |
| `HandleTaskAck`, `HandleTaskStarted`, `HandleCapacity`, `HandleTaskFailed`, `HandleTaskResult` | the handlers of the same names, each with its transaction and its answer |
| `BeginDrain` | `begin_drain`, called by the signal handler at any time |
| `Reclaim`, `ForwardCancel` | `reclaim_once` with `cancel_on_worker`; `_push_listener` |
| `OtherClaims`, `OtherCompletes` | the rest of the fleet |
| `Connect`, `Attach`, `WorkerLosesSocket`, `RestartWorker` | `_hold_connection`, `_run_ws_forever`, a new process |
| `HandleAssignment`, `HandleCancel`, `HandleResultAck` | the worker's handlers |
| `ExecutionSucceeds`, `ExecutionFails`, `ExecutionCancelled` | the three ends of `_execute_task` with its `finally` |
| `Resend` | `_result_submission_loop` |

Why handlers are atomic: a session has one reader, which finishes a message before it
takes the next; a handler's transaction reads nothing of the session and its session
writes follow without an await, or with one that nothing else depends on. A send and the
bookkeeping after it are one step on both sides, since the coroutine goes on before an
answer to that message can have been read. What is left out of `Delivery` because it
changes none of the modelled state: when a lease is renewed (leases may run out at any
time instead; `LeaseRenewal` has the times), the doorbell (`Replica` has it), counters
and logs. A session may open on a replica that already drains: `ws_connect` does not ask.
`AttemptCap` is `max_attempts` per task, since the caps of two types differ. A handler whose database call raises
ends the session, which `SessionEnds` covers. `complete_task` cannot answer `not_owner`
to this worker: that is `HonestHolderIsNoImpostor` of the queue.

### Sessions

`Delivery` has one session after the other. `Sessions` looks at one worker id from the
other side: any number of connection attempts on any number of replicas, because a
worker reconnects before its old socket has been noticed dead, gives up on a slow
handshake and dials again, or runs twice. A session's task state is left to `Delivery`
and its leases to `TaskQueue`; here an attempt is where its coroutine stands
(`stage`), and `ws_connect` is cut at every await that reads or writes shared state.

| Variables | Code |
|---|---|
| `stage`, `replica`, `token`, `epoch`, `open` | the locals of one `ws_connect` and its socket |
| `listener`, `told` | `_control_listener`: created, subscribed; it received a newer epoch |
| `sessions` | `_local_sessions` of each replica |
| `generation`, `lastEpoch`, `registry`, `heartbeat` | the Redis keys `token_gen`, `session_epoch`, `connection` and the age of `last_heartbeat_at` |
| `status`, `revoked`, `write` | the worker row, and the status each writer has read and not yet committed |
| `sweep` | the row a replica's sweep has selected |
| `unheard` | history: a newer epoch went by an older session, which was not listening yet or no longer |

| Action | Code |
|---|---|
| `RefreshToken`, `Authenticate` | `refresh_token`, `_authenticate_ws_token` |
| `GoConnecting`, `TakeEpoch`, `Announce`, `Record`, `GoOnline`, `Register`, `EnterReadLoop` | `ws_connect` down to its read loop |
| `Subscribe`, `Evict`, `ListenerDies`, `SocketEnds`, `Heartbeat` | the control listener, which ends by closing the session or by an exception that leaves the session open; the end of a socket; a heartbeat |
| `Leave`, `CheckRegistry`, `DeleteKey`, `GoOffline`, `ShortenLeases` | the `finally` block |
| `Abandon` | a return or an exception before the `try`, an exception inside the `finally` |
| `CommitStatus`, `Revoke` | the commit of `_transition_status` and of `revoke_worker`; its read |
| `StartSweep`, `JudgeWorker`, `Age`, `ExpireRegistry`, `Crash` | `_sweep_heartbeats`, cut after its SELECT; clocks; a replica that dies and restarts |

`PUBLISH` reaches exactly the listeners subscribed at that moment, which is what Redis
does. The registry key expires only while no session is being read, since each pong
extends it. The SUSPECT and OFFLINE thresholds are three ages. Left out as nobody but
the dashboard reads them: the other metrics, `current_tasks`, pushes.

### Replica

`Delivery` follows one session; `Replica` follows the processes that hold many. A session
is reduced to its credits, its pending acknowledgements and its saturation, a row to
whether it is queued, for whom and who has locked it.

| Variables | Code |
|---|---|
| `row`, `owner`, `held`, `excluded`, `attempt`, `lock` | the row, its backoff (`not_before`), its exclusion, and the transaction that holds it under `SKIP LOCKED` |
| `stage`, `at`, `credited`, `pending`, `saturated`, `executing` | the `LocalSession` objects, where they are held, and what their workers run |
| `engine`, `todo`, `cur`, `batch`, `got` | where `assignment_loop` and the locals of `assign_once` are |
| `bell`, `listener`, `wakes` | `_work_available`, the subscription, `_retry_wakes` |
| `announce`, `requeued` | enqueued or reclaimed, committed and not yet rung for |
| `proc`, `draining` | the process and `_draining` |
| `lost`, `late` | history: a ring the replica needed was lost; claims made while draining |

| Action | Code |
|---|---|
| `WakeUp`, `CountQueue`, `Dequeue`, `CommitClaim`, `Deliver`, `EndPass` | `assignment_loop`, `assign_once`, `_deliver`, cut at every await |
| `LimitRaises`, `DatabaseRaises`, `Retry` | a pass that raises, rolls back and sleeps |
| `Enqueue`, `Announce` | `enqueue_tasks` up to its commit, and its publication |
| `Reclaim`, `RingReclaimed`, `FireWake` | `reclaim_once` up to its commit, its rings, `_schedule_retry_wake` |
| `Subscribe`, `ListenerDrops` | `notification_listener` |
| `Connect`, `HangUp`, `AcceptTask`, `RefuseTask`, `TaskEnds`, `CapacityFreed` | `register_session`, a socket that ends by itself, and what the message handlers do to credits and bell |
| `BackoffElapses`, `ExclusionElapses` | the database's clock |
| `Signal`, `DrainEnds`, `DrainTimesOut`, `CloseSocket`, `LifespanEnds`, `Crash`, `Start` | `DrainingServer`, `drain_local_sessions`, the sockets uvicorn closes, the end and the start of `lifespan` |

A publication reaches every listener subscribed at that moment in the step that makes
it; a message that was sent and not yet read when a subscription drops is one sent after
the drop. A worker has at most one open session here: overlapping ones are `Sessions`.
Crashes, failing calls, refusals and hang-ups share one bound (`MaxFaults`).

### LeaseRenewal

One attempt that the worker has admitted, in time. The worker's chunk loop moves the
progress slot, the reporter loop looks at it every `Interval` and sends a fraction that
has changed, the message takes up to `Latency`, and the coordinator renews if the task
is the session's and due. What a deployment is supposed to meet (`Latency`, `ChunkTime`,
`ReconnectTime`) is a deadline that `Tick` waits for (`Punctual`); the reclaimer is held
to nothing, so every reclaim it could make is made.

| Variables | Code |
|---|---|
| `status`, `reason`, `lease`, `deadline` | the row, and `deadline_exceeded` of the reclaim |
| `open`, `entitled`, `due`, `shown` | the session; the task is in `credited` or `recovered_tasks`; `lease_renew_due`; `current_tasks` |
| `wire`, `timer`, `back` | messages under way, the reporter's sleep, the reconnect |
| `work`, `progress`, `last_reported`, `chunk`, `cancel` | `RunningTask` and the executor |
| `misses`, `faults` | renewals that failed in a row (at most `MaxMisses`); what the worker or a failed hello renewal did to lose the lease |

| Action | Code |
|---|---|
| `TaskAck`, `TaskStarted`, `TaskProgress`, `TaskResult` | the handlers of `assignment.py`, with `_renew_if_due` |
| `Reclaim`, `TaskCancel` | `reclaim_once` on this row; the worker's `_handle_cancel` |
| `Report`, `ChunkEnds` | `_progress_reporter_loop`; the loops of `executors.py` and the end of `_execute_task` |
| `Disconnect`, `Reconnect`, `ReconnectUnrenewed` | teardown with `shorten_local_leases`; the hello with `renew_worker_leases`, and one whose renewal fails |
| `Hang`, `Vanish` | an executor that does not return; a worker that does not come back |

`Timely` is the condition on the numbers: a chunk ends between two reports, and what is
left of a lease when a renewal becomes due covers `MaxMisses` failed renewals, the one
that works, its way, and a reconnect. With the defaults (TTL 60 s, renewal at half of it,
reports every 10 s) it admits one failed renewal and not two.

### Enrolment

| Variables | Code |
|---|---|
| `lock`, `file` | the lock file and the identity file of a machine; `write_text` leaves the file torn for a moment |
| `pc`, `identity` | where a worker process is, and the identity it uses |
| `request`, `subject` | how far the process's HTTP request has been served, and for which worker |
| `rows`, `made` | the `workers` table and which machine enrolled each row |
| `claim`, `count`, `expires`, `newest` | the Redis keys: claim, rate counter and whether it has an expiry, token generation |
| `refused`, `faults`, `signals` | history and bounds |

| Action | Code |
|---|---|
| `Start`, `Register`, `LoadFails`, `SaveBegins`, `SaveEnds` | `main`, `_acquire_single_instance_lock`, `_register_or_reaffirm`, `_load_identity`, `_save_identity` |
| `AskToken`, `Connect`, `SessionEnds`, `SigTerm`, `Kill` | `_run_ws_forever`, `_on_sigterm`, and the end of a process |
| `Count`, `SetExpiry` | the INCR and the EXPIRE of `_fixed_window_limited` |
| `Reaffirm`, `Enrol`, `ClaimNew`, `Release` | `register_worker` in its two forms, cut after the commit of a new row; `release_worker` |
| `Mint`, `StoreToken` | `refresh_token` on both sides of the generation it takes |
| `ClaimExpires`, `WindowEnds`, `RequestLost`, `Revoke` | TTLs, a replica or a call that dies under a request, `revoke_worker` |

A request goes on when the process that made it is killed, so its effects may land in the
life of the next process. A slot of `Processes` is used again only once its last request
is over; the other slot of the machine need not wait, which is how a successor meets what
its predecessor left. A graceful stop is taken between requests. A request that dies after
its last write is a process killed after the answer, and `Kill` covers it. A process that
finds the lock taken exits and has changed nothing, so it is not a step.

## What is checked

Type correctness is proved of every module; the runs of `Delivery`, `Replica` and
`Enrolment` check it as well, since their types carry bounds (a residue that is never
negative, attempts within the cap).

| Run | Instance | What it shows |
|---|---|---|
| `queue_safety` | 1 task, 2 workers, 2 tokens, 3 attempts, two policy changes | the fencing, history, lease and budget invariants, under all interleavings; `TaskLifecycle` is implemented |
| `queue_progress` | 1 task, 1 worker, fair clock, reclaimer and assignment | `EveryAttemptEnds`, `EveryTaskEnds` |
| `delivery_reassignment` | 3 tasks (one retried, one of a type the worker refuses), 1 slot, batches of 2, 2 sessions, restarts, a result buffer of 1 | credits never exceed the limit and are explained; the residue never drops below zero; slots match the running table; a completion was executed under its own attempt |
| `delivery_progress` | 1 task of 2 attempts, 2 slots, 3 sessions, restarts, drain, malformed results, failing renewals, fair | an acknowledgement waited for is still to come; rows move as `TaskLifecycle` allows; `DrainEmpties`, `FinishedWorkLands` |
| `sessions_safety` | 2 attempts, 2 replicas, failing handshakes, dying listeners, expiry, crash, revocation | map entries are live sessions; unless an epoch went unheard, the older session is closed or about to be and the newer one is served; a settled quarantine stays |
| `sessions_progress` | 2 attempts, 1 replica with its sweep, 1 crash, fair | `GoneWorkerGoesOffline`, `LiveWorkerIsOnline` |
| `replica_doorbell` | 2 replicas, 2 workers of 1 slot, 1 task of 2 attempts, restarts, 1 fault (crash, failing database, lost publication or subscription, refusal, hang-up) | `NoLostWakeUp`: an engine that waits beside work it could hand out has a ring coming, unless one was really lost |
| `replica_drain` | 1 replica, a worker of 2 slots and one of 1, 1 task of 2 attempts, signals, reclaims, 1 fault, fair | `LateClaimsBounded`, `QueuedWorkIsClaimed`, `ShutdownEnds` |
| `renewal` | an 11-chunk task, numbers that satisfy `Timely` exactly, 1 failing renewal, any number of disconnects, hang, vanish, fair | `HealthyTaskKeepsLease`, `DeadlineBinds`, `AttemptEnds` |
| `enrolment` | 1 machine, 2 process slots, 3 worker ids, rate limit 2, 2 faults, 2 signals, fair | `EnrolsOnce`, `IdentityIsKnown`, `RestartIsNotADuplicate`, `WorkerComesUp` |

The bounds are enough for the cases the code worries about. In the queue, three attempts
let a task leave a worker, run elsewhere and come back to the first one while both
earlier results are still on their way; two tokens separate a duplicate from a
superseded result; lease, deadline, acknowledgement and backoff of one to three ticks
put every order of their expiries in the state space. In `Delivery`, two attempts let an
old execution, its result, its cancel and a new delivery of the same task meet; two
sessions give one reconnect, with work running, finished or reported at any point of
the handshake (`MaxSessions`; only the last session cannot break, so that a bounded
number of outages ends in a whole connection); the third session of `delivery_progress`
lets a result be lost with one session, its attempt be retried in the next and the answer
to the old result arrive late; two tasks compete for one slot, or share
a batch; a result buffer of one overflows (in `delivery_reassignment`; the one task of
`delivery_progress` cannot fill a buffer, so there a result is given up by a restart or by
the answer to another attempt); `MaxCopies` bounds how often one result is on
the wire at once, which stands for the grace period of the resubmission loop. In
`Sessions` two attempts are the pair every claim there is about (the proofs cover more);
two replicas keep them in different processes or in the same one; `MaxCrashes` allows
one crash; `Events` switches the rare events on; one sweep (`Sweepers`) is enough to be
stale against both attempts. In `Replica` two replicas are one that rings and one that
should hear; two sessions on one replica, the first with a slot to spare, let a refusal
take a candidate's credits in the middle of a pass, which is then abandoned for the other;
a second attempt brings the backoff and the exclusion of a retry, which
run out with or without a ring (several rows of one reclaim pass are left to the proof of
`NoLostWakeUp`); one fault is enough for each loss, and `lost` says which excuse a
waiting engine has; `DrainWindow` only distinguishes zero. In `Enrolment` two slots are a
process and its successor, two faults let one request die and the process that repairs it
be killed, three ids cover the orphan of each fault and the one that stays, and a rate
limit of two is passed by a restart loop. In `LeaseRenewal` the numbers are the smallest
with a report interval above the latency and the chunk time.

### Where the code and its comments disagree

Two runs check a sentence of the repository against the code and end in a
counterexample; `PROJECT.json` quotes the sentences.

* `sessions_quarantine`: a status transition that read the row before a revocation
  commits over QUARANTINED. What does hold is `QuarantineSettles`.
* `renewal_override`: the throttle of `_mark_renewed` counts in the default TTL, while
  `task_started` leased the row with its type's override. An override shorter than the
  cadence runs out under a worker that reports on time. What does hold, with an override
  that satisfies `Timely`, is `HealthyTaskKeepsLease`.

More facts are modelled as the code has them, each against what a comment says:

* A renewal writes the default TTL, never the type's override (`RenewalTarget`), although
  `task_policies.py:14` says that every statement that writes a lease resolves it.
* `task_queue.py:939-943` says that a task which is delivered and not started has no
  deadline yet; the claim stamps one (`task_queue.py:259-275`), and `LeaseDiscipline` says
  that every live row has it.
* `config.py:357` says that five dropped progress messages in a row cost no lease; with
  the throttle it is one (`Timely`).
* After a reconnect a fenced result gives no credit back, since its task is in the residue
  and not in `credited` (`assignment.py:1077` says it must come back).
* The answer to an old attempt's result removes the result of the current attempt, since
  both are kept by task id (`worker.py:618` says a result cannot simply be dropped). A
  restart and a full buffer drop results too; `FinishedWorkLands` names the three.
* Of two overlapping handshakes the older may miss the newer epoch, since it subscribes
  long after it took its own, and is then never evicted (`main.py:974`). Neither is a
  session whose control listener has died on a Redis error (`main.py:978-1005`). What does
  hold without either is `OneWinner` and `WinnerIsServed`.
* A pass that has read the drain flag still claims after it is set (`assignment.py:1257`);
  `LateClaimsBounded` says how much.
* A candidate whose credits are gone by its turn makes `dequeue` raise, and the pass is
  abandoned for the sessions behind it.
* A rate counter whose request dies between INCR and EXPIRE, and an identity file torn by
  a crash inside `write_text`, are not repaired by any number of restarts. `Broken`
  collects these, and `WorkerComesUp` says that nothing else is needed.
* An execution that fails between `hello` and `attach` is counted by the session until it
  ends; the stale result of an old attempt takes the credit of a new delivery of the same
  task, whose progress then renews nothing; a teardown that has passed its registry check
  deletes the key of a session that registered meanwhile, and no pong brings it back;
  `task_failed` is not fenced (the repository documents this); a refusal at capacity keeps
  the refused task's credit (`CreditIsExplained` exempts exactly those); cancelling a task
  that waits for its retry leaves its backoff and excluded worker on the row, so
  `RetryStateCoherent` is about completed and failed tasks only.

### Fairness

`FairSpec` of the queue assumes that time passes and that an expired row is eventually
reclaimed, which `lease_reclaim_loop` provides on every replica (a pass that
raises is logged and the loop goes on; oldest expiry first), and that a row some
worker stays eligible for is eventually claimed, which `assignment_loop` provides through its safety-net poll. No fairness is assumed of workers there: they may
fall silent for ever.

`FairSpec` of `Delivery` assumes that both event loops keep reading, that a pass under
way goes on, that a dead socket is noticed (the pong timeout on one side, the failing
send or read on the other), that `_run_ws_forever` and `_result_submission_loop` keep
trying, and that a handshake attempted again and again succeeds (strong fairness of
`OpenSession`, the only strong one: the worker may give up each single wait).
Executions, leases and the other workers are free to do nothing.

`FairSpec` of `Sessions` assumes that each event loop runs the coroutines that can run
(a handshake that hangs is ended by `Abandon`, through its own timeout), that a worker
with an open socket heartbeats, that `_heartbeat_sweep_loop` goes on for ever (it
swallows what a pass raises), and that time passes. Connecting, disconnecting, revoking
and crashing are free.

`FairSpec` of `Replica` assumes that a live process runs its loops, the poll of
`assignment_loop` and the resubscribing listener included, that an exiting one closes its
sockets, and that the database's clock passes `not_before`. Workers need neither
acknowledge nor finish: the drain has its ceiling for that.

`FairSpec` of `LeaseRenewal` assumes that time passes, that both sides handle what is
under way, and that the reclaim loop runs. `FairSpec` of `Enrolment` assumes a supervisor
that starts a worker again when none of the machine's processes runs, that processes and
requests go on, and that TTLs run out; signals, kills and lost requests are free within
their bounds.

## What is proved

Every invariant, action property and refinement that a passing run checks is also a
theorem. Each proof module has the same shape: the inductive invariant `IInv` with its
parts named, a lemma per group of actions, and at the end `Spec => []IInv` and one short
theorem per property. Every part of an `IInv` was first checked by TLC on the instances
of the runs.

### TaskQueue

`TaskQueueProofs` proves, for every number of tasks, workers, types and every timeout
and cap (from the named assumptions of `TaskQueue`: timeouts positive, caps at least 1,
policies within `validate_policy`'s bounds; `AttemptCeiling` is the largest cap in use,
since `TASK_MAX_ATTEMPTS` itself is parsed without a bound), type correctness, each
invariant and action property `queue_safety` checks, two more (`RetryStateCoherent`,
`StatusMovesAreLegal`), and that the queue implements `TaskLifecycle`.

None of the invariants is inductive alone. That no attempt number is handed out twice
needs to know that a queued row's number is above everything handed out so far; that
the account of lost attempts is complete needs to know that the rows already there
are about smaller numbers, and that a live row's owner really was handed its number;
the winner rule needs the owner of a completed row to be the last holder; the lease
bound needs a live row to have both a lease and a deadline. `IInv` is that
conjunction, stated one task at a time. The proof first shows that every step of
`Next`, seen from one task, is one of a dozen row moves (`StepIsRowMove`), and then
that each move keeps each conjunct. The refinement theorem reads the same row moves
through `AbstractRow`: each is a step of `TaskLifecycle` or leaves the abstract task
alone (`RowMoveIsStep`).

### Sessions

`SessionsProofs` proves every safety property of `Sessions`, for any number of attempts,
replicas, sweeps and crashes. That the older session is closed or about to be is not
inductive: it needs to know that an attempt which is numbered and not listening is the
newest one (`UnlistenedIsNewest`), so that whoever subscribes has missed nothing, that a
listener has heard every newer epoch past its announcement (`ListenersHeard`), and that a
session which was told and has no listener any more is closed (`ToldAreClosed`).
`WinnerIsServed` rests on both: a session that overwrites another's map entry is newer,
and the other has been told. `QuarantineSettles` needs only that what the operator
commits is the quarantine.

### LeaseRenewal

`LeaseRenewalProofs` proves type correctness, `DeadlineBinds` (assuming that the
acknowledgement timeout is within the execution cap) and, assuming `Timely`,
`HealthyTaskKeepsLease`, for every choice of the timeouts, any number of chunks and any
number of lost sessions. That a lease is kept is a statement about the future, so its
inductive invariant says how far away the next renewal can be. `Flow` ties a
report under way to the reporter's timer and empties the wire when a session ends. `Held`,
while the row is live and nothing has gone wrong, says that no cancel is about, that a
finished execution has its result under way, and that the next report will not be
suppressed (the fraction has changed, or the chunk ends before the timer). `OnTime` is the
bound: without a session the lease outlasts the reconnect; before `task_started` is
handled it outlasts that message and a reconnect; after it, it outlasts the wait until a
renewal is due, a report interval for every failure that may still come, and a reconnect,
or it reaches the deadline.
Each conjunct of `Timely` is used; without the one about the override the proof fails at
`TaskStarted`, which is the counterexample of `renewal_override`.

### Delivery

`DeliveryProofs` assumes that there are finitely many tasks (credits and slots are
counted) and that the slots, each task's cap, the batch and the result buffer are positive
numbers, and proves all safety properties of `Delivery` for any number of tasks,
attempts, slots and sessions.

* `MovesAsLifecycle` needs only the types and `AttemptsLeft` (a row that is not over has
  an attempt left, a queued one no owner): each handler's transaction, seen through
  `AbstractTask`, is a step of `TaskLifecycle` or changes nothing.
* `SlotsMatchRunning` is inductive with the types. `CreditsWithinLimit` counts what is
  credited, what is residue and what the pass under way has claimed for the session, and
  needs the tasks of a batch to be distinct (`BatchIsKeyed`) and the pass to belong to a
  session already opened (`EpochsOrdered`): a claim made for an old session must not be
  credited to its successor.
* `CompletionWasExecuted` needs `ResultsWereExecuted`: whatever is kept in
  `pending_results` or is on the wire, also from an earlier session, is the result of an
  execution that succeeded under the attempt it names.
* `PendingAckIsOnTheWay` and `CreditIsExplained` are about both directions of the socket
  at once. The properties speak of an attached worker; the invariant also covers the
  socket between `hello` and `attach` (`NothingBeforeAttach`, `AcksOnTheWay`). A credit
  survives its acknowledgement, so an acceptance under way must be *followed*: the
  execution still runs, or the report that ends it stands later in the same queue
  (`AcceptedIsFollowed`); when the acceptance is read, that report is what explains the
  credit (`AcknowledgedIsExplained`). This is where the proof uses that the socket is
  FIFO.

### Replica

`ReplicaProofs` assumes finitely many tasks (the claim's limit is compared with the number
of eligible rows), positive slots, batch and attempts, and a `None` outside the other
sets. `PassInv` is what both properties rest on: a locked row is in the batch of the
replica that locked it and still queued, and a batch is locked as a whole or not at all
(`LockedIsBatch`); `assign_once` has a current session exactly while it has a batch
(`PassShape`); a pass refers to sessions of its own replica, no session is in two passes,
and its turn comes once (`PassSessions`); an open socket belongs to a live process
(`OpenIsAlive`).

* `LateClaimsBounded` follows from `LateIsLast`: after a late claim the session is in no
  `todo`, is not waiting for another commit, and, as long as it is open, its replica
  drains, so no new pass picks it up. A replica stops draining only when its process ends,
  and by then the session is closed.
* `NoLostWakeUp` speaks of an engine that waits; the inductive `WakeInv` speaks of every
  engine: work beside a free credit has a ring, a recorded loss, or a pass under way that
  will still look at this session (`WillLook`: its turn is to come, its batch is being
  handed out, or a delivery has been made, which is followed by another pass). Its proof
  goes through each action: whatever makes a row eligible owes a ring; whatever gives a
  session a credit rings the bell of its replica; a pass that begins takes every
  candidate; a claim leaves an eligible row behind only when it took some other; an
  abandoned pass or a lost process that releases locks is a recorded loss. Clearing the
  bell before the pass, and not after, is what the case of `EndPass` uses.

### Enrolment

`EnrolmentProofs` assumes finitely many processes and workers, and `None` and `Torn`
outside the other sets (they stand for a missing value and an unreadable file), and proves
type correctness, `IdentityIsKnown`, `RestartIsNotADuplicate` and `EnrolsOnce`.

A process that runs holds the lock of its machine (`LockHeld`), so at most one process of
a machine runs; it waits only for its own request, while the request of a process that is
gone may still be served (`WaitsForOwnRequest`); from the load on it uses the identity in
the file, unless it is saving a new one (`IdentityIsFile`), and every name in a process, a
request or a file is a committed row of that machine (`NamesAreCommitted`). Until the first
fault no request outlives its process, and a claim on the identity of a machine belongs to
a process that is up there, which is why nobody is refused (`QuietUntilFault`).
`EnrolsOnce` is a count: the workers a machine has made, plus the requests that may still
commit one, plus one if a process may still open such a request, stay within one more
than the faults (`EnrolmentsCounted`). A commit turns a request into a worker, a request
uses up the opening, and only a fault makes room for another.

### Only model-checked

The liveness properties: `EveryAttemptEnds`, `EveryTaskEnds`, `DrainEmpties`,
`FinishedWorkLands`, `GoneWorkerGoesOffline`, `LiveWorkerIsOnline`, `QueuedWorkIsClaimed`,
`ShutdownEnds`, `AttemptEnds` and `WorkerComesUp`. They depend on fairness, which is outside
the prover's reach.

## What is not modelled

Validation of task parameters and result fields (pure data); hashing and comparing
secrets; the heartbeat's host metrics and backoff arithmetic; the read-only HTTP views,
paging and rendering, dashboard, metrics, logging, environment parsing, migrations,
scripts and infrastructure, which keep no state the task path depends on. A SIGTERM that
arrives while a token refresh is in flight is taken after it, and one that arrives before
the handler is installed is a `Kill`; a refresh that has timed out at a worker that goes on
and is served afterwards is not represented. `task_attempts` is a set of rows, so
`FenceRowsBounded` sees a second row only if its reason differs. `Replica` knows one kind
of refusal, at capacity, and a send that fails only with its session; the others are in
`Delivery`. `LeaseRenewal` reports exact chunks, which the four digits of the code keep
apart up to the largest task (7200 slices), and forgets the entitlement also after a fenced
result, where the code keeps a recovered task's entry for a row that has been reclaimed.

## Plan

Done, in this order: `TaskStates`, `TaskQueue` and its proofs, `TaskLifecycle`,
`Delivery`, `Sessions` and its proofs, `Replica`, `LeaseRenewal` and its proofs,
`Enrolment`; then the proofs about `Enrolment`, `Delivery` and `Replica`.

Next:

1. An abstract specification of the sessions (at any time one epoch is authoritative)
   with the registry and the teardown guard shown to implement it where handshakes do
   not overlap.
2. The safety half of the liveness properties: what no step may undo on the way to the
   goal (a signalled replica only moves towards its exit, a drained session stays empty, a
   result owed stays owed until it is applied or the attempt is taken away).
