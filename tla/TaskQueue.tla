----------------------------- MODULE TaskQueue ------------------------------
(***************************************************************************)
(* The queue and lease engine of coordinator/app/task_queue.py, with the   *)
(* per-type policies of task_policies.py.  The state is the part of the    *)
(* Postgres tables tasks, task_attempts, task_results and task_policies    *)
(* that decides who runs which task.  Every operation of the code is one   *)
(* transaction that locks the rows it writes, so every operation is one    *)
(* action; any number of coordinator replicas may take them in any order.  *)
(*                                                                         *)
(* Instants are kept as distances from Postgres's now(): a lease of 2      *)
(* expires in two ticks, a lease of 0 expires now, a negative one is in    *)
(* the past.  now() + make_interval(secs => n) is therefore n, and a       *)
(* comparison with now() is a comparison with 0.  Tick is the passing of   *)
(* time; an instant far enough in the past that no statement can tell it   *)
(* from an earlier one stops moving, which keeps the state finite without  *)
(* bounding the clock.                                                     *)
(*                                                                         *)
(* A worker is untrusted: the messages behind mark_status, complete_task   *)
(* and renew_lease come from any worker, about any task, naming any        *)
(* attempt, at any time and any number of times.                           *)
(***************************************************************************)
EXTENDS Integers, FiniteSets, TaskStates

CONSTANTS
    Tasks,              \* task ids (inserted over time by Enqueue)
    Workers,            \* worker ids
    Tokens,             \* idempotency tokens a submission may carry
    TaskTypes,          \* registered task types
    TypeOf,             \* the task_type column, fixed when the row is inserted
    Null,               \* SQL NULL
    AckTimeout,         \* TASK_ACK_TIMEOUT_SECONDS
    LeaseTTL,           \* TASK_LEASE_TTL_SECONDS
    MaxExecution,       \* DEFAULT_MAX_EXECUTION_SECONDS, per task type
    MaxAttempts,        \* TASK_MAX_ATTEMPTS
    DisconnectGrace,    \* LEASE_DISCONNECT_GRACE_SECONDS
    BackoffBase,        \* TASK_RETRY_BACKOFF_BASE_SECONDS
    BackoffFactor,      \* TASK_RETRY_BACKOFF_FACTOR
    BackoffMax,         \* TASK_RETRY_BACKOFF_MAX_SECONDS
    ExclusionWindow,    \* TASK_RETRY_EXCLUSION_SECONDS
    Retention,          \* RESULT_RETENTION_DAYS
    PolicyUpdates,      \* the override columns an operator may submit at once
    AttemptCeiling,     \* the largest cap in use: MAX_MAX_ATTEMPTS, which bounds a
                        \* policy, or the default where that is larger
    EnqueueMaxBatch,    \* TASK_ENQUEUE_MAX_BATCH
    DequeueMaxBatch,    \* TASK_DEQUEUE_MAX_BATCH
    ReclaimBatch        \* LEASE_RECLAIM_BATCH

\* The overridable columns (POLICY_FIELDS).
POLICY_FIELDS == {"ack_timeout", "lease_ttl", "max_execution", "max_attempts"}

ASSUME NullAssumption ==
    /\ Null \notin Int
    /\ Null \notin Workers
    /\ Null \notin Tokens

ASSUME TypesAssumption == TypeOf \in [Tasks -> TaskTypes]

\* validate_policy's lower bound, and the defaults' own: no timeout and no cap
\* is zero.
ASSUME TimeoutAssumption ==
    /\ AckTimeout \in Nat \ {0}
    /\ LeaseTTL \in Nat \ {0}
    /\ MaxExecution \in [TaskTypes -> Nat \ {0}]
    /\ DisconnectGrace \in Nat
    /\ ExclusionWindow \in Nat
    /\ Retention \in Nat
    /\ BackoffBase \in Nat
    /\ BackoffFactor \in Nat
    /\ BackoffMax \in Nat

\* TASK_MAX_ATTEMPTS is parsed without an upper bound, hence the larger of the
\* two.  A default of zero, which is not refused either, acts as one.
ASSUME AttemptsAssumption ==
    /\ AttemptCeiling \in Nat \ {0}
    /\ MaxAttempts \in 1..AttemptCeiling

\* What validate_policy lets through: some columns, each within its bounds.
ASSUME PolicyAssumption ==
    \A u \in PolicyUpdates :
        /\ DOMAIN u \subseteq POLICY_FIELDS
        /\ DOMAIN u # {}
        /\ \A f \in DOMAIN u : u[f] \in Nat \ {0}
        /\ "max_attempts" \in DOMAIN u => u["max_attempts"] <= AttemptCeiling

VARIABLES
    tasks,      \* the tasks table
    attempts,   \* the task_attempts table: per task, the set of its rows
    results,    \* the task_results row a task's result_id names, or Null
    policies,   \* the task_policies table: per type and column, a value or Null
    held        \* history: the <<worker, attempt>> pairs a task was handed to

vars == <<tasks, attempts, results, policies, held>>

-----------------------------------------------------------------------------
(* Rows *)

Instant == Int \cup {Null}

\* A row of tasks.  assigned_at is set and cleared with assigned_worker and is
\* left out; started stands for started_at IS NOT NULL.  "ABSENT" is a task id
\* not yet inserted.
Row == [status          : TASK_STATES \cup {"ABSENT"},
        assigned_worker : Workers \cup {Null},
        started         : BOOLEAN,
        lease           : Instant,
        deadline        : Instant,
        attempt_count   : Nat,
        not_before      : Instant,
        excluded_worker : Workers \cup {Null}]

AttemptRow == [attempt : Nat,
               worker  : Workers \cup {Null},
               outcome : {"REASSIGNED", "FAILED", "FENCED"},
               reason  : {"lease_expired", "execution_deadline_exceeded",
                          "executor_error", "stale_attempt", "task_reassigned"}]

\* A stored envelope; keep is the instant retention deletes it.
Result == [worker : Workers, attempt : Nat, token : Tokens, keep : Int]

\* The row a task id has before it is inserted, and the row enqueue inserts.
NewRow(status) ==
    [status |-> status, assigned_worker |-> Null, started |-> FALSE,
     lease |-> Null, deadline |-> Null, attempt_count |-> 0,
     not_before |-> Null, excluded_worker |-> Null]

Least(a, b) == IF a <= b THEN a ELSE b

\* _LIVE
Live(t) == tasks[t].status \in {"ASSIGNED", "RUNNING"}

Terminal(t) == tasks[t].status \in TERMINAL_STATES

-----------------------------------------------------------------------------
(* Policies (task_policies.py): the stored override, else the default *)

policy_value(t, column, default) ==
    LET override == policies[TypeOf[t]][column]
    IN  IF override = Null THEN default ELSE override

ack_timeout(t)   == policy_value(t, "ack_timeout", AckTimeout)
lease_ttl(t)     == policy_value(t, "lease_ttl", LeaseTTL)
max_execution(t) == policy_value(t, "max_execution", MaxExecution[TypeOf[t]])
max_attempts(t)  == policy_value(t, "max_attempts", MaxAttempts)

\* set_policy: an upsert that writes the submitted columns only.
SetPolicy(type, update) ==
    /\ policies' = [policies EXCEPT ![type] =
                        [f \in POLICY_FIELDS |->
                            IF f \in DOMAIN update THEN update[f] ELSE @[f]]]
    /\ UNCHANGED <<tasks, attempts, results, held>>

\* clear_policy
ClearPolicy(type) ==
    /\ policies' = [policies EXCEPT ![type] = [f \in POLICY_FIELDS |-> Null]]
    /\ UNCHANGED <<tasks, attempts, results, held>>

-----------------------------------------------------------------------------
(* Enqueue and dequeue *)

Init ==
    /\ tasks = [t \in Tasks |-> NewRow("ABSENT")]
    /\ attempts = [t \in Tasks |-> {}]
    /\ results = [t \in Tasks |-> Null]
    /\ policies = [y \in TaskTypes |-> [f \in POLICY_FIELDS |-> Null]]
    /\ held = [t \in Tasks |-> {}]

\* enqueue and enqueue_batch: one INSERT of between one row and the batch cap.
Enqueue(S) ==
    /\ S # {}
    /\ Cardinality(S) <= EnqueueMaxBatch
    /\ \A t \in S : tasks[t].status = "ABSENT"
    /\ tasks' = [t \in Tasks |-> IF t \in S THEN NewRow("QUEUED") ELSE tasks[t]]
    /\ UNCHANGED <<attempts, results, policies, held>>

\* Mutated form of Eligible: the exclusion of the worker that lost the task
\* never expires.
EligibleForeverExcluded(t, w) ==
    /\ tasks[t].status = "QUEUED"
    /\ tasks[t].not_before # Null => tasks[t].not_before <= 0
    /\ tasks[t].excluded_worker # w

\* The WHERE clause of the claim (status test and _ELIGIBLE).
Eligible(t, w) ==
    /\ tasks[t].status = "QUEUED"
    /\ tasks[t].not_before # Null => tasks[t].not_before <= 0
    /\ tasks[t].excluded_worker = w => tasks[t].not_before + ExclusionWindow <= 0

\* The SET clause of the claim: the acknowledgement lease and a first deadline.
ClaimedRow(t, w) ==
    [tasks[t] EXCEPT !.status = "ASSIGNED",
                     !.assigned_worker = w,
                     !.lease = ack_timeout(t),
                     !.deadline = max_execution(t)]

\* dequeue: claim up to the limit.  The statement orders by priority and age
\* but steps over rows another transaction has locked, so which eligible rows
\* it returns is any set of them within the limit.
Dequeue(w, S) ==
    /\ S # {}
    /\ Cardinality(S) <= DequeueMaxBatch
    /\ \A t \in S : Eligible(t, w)
    /\ tasks' = [t \in Tasks |-> IF t \in S THEN ClaimedRow(t, w) ELSE tasks[t]]
    /\ held' = [t \in Tasks |->
                   IF t \in S THEN held[t] \cup {<<w, tasks[t].attempt_count>>}
                              ELSE held[t]]
    /\ UNCHANGED <<attempts, results, policies>>

-----------------------------------------------------------------------------
(* Worker-reported moves: mark_status *)

\* The guards of mark_status, in order.
mark_outcome(t, w, new) ==
    IF tasks[t].status = "ABSENT" THEN "not_found"
    ELSE IF tasks[t].assigned_worker # w THEN "not_owner"
    ELSE LET check == check_transition(tasks[t].status, new)
         IN  IF check = "write" THEN "transitioned" ELSE check

\* handle_task_started: mark_status to RUNNING stamps the execution deadline
\* and replaces the acknowledgement lease by the first execution lease.
MarkRunning(t, w) ==
    /\ mark_outcome(t, w, "RUNNING") = "transitioned"
    /\ tasks' = [tasks EXCEPT ![t].status = "RUNNING",
                              ![t].started = TRUE,
                              ![t].deadline = max_execution(t),
                              ![t].lease = Least(lease_ttl(t), max_execution(t))]
    /\ UNCHANGED <<attempts, results, policies, held>>

\* What a terminal write clears: the lease pair and the retry pair.
Finished(row, status) ==
    [row EXCEPT !.status = status, !.lease = Null, !.deadline = Null,
                !.not_before = Null, !.excluded_worker = Null]

\* Mutated forms of WithRowOnce: no NOT EXISTS, and one that does not compare
\* the outcome.
WithRowAlways(rows, row) == rows \cup {row}
WithRowOnceAnyOutcome(rows, row) ==
    IF \E r \in rows : r.worker = row.worker /\ r.attempt = row.attempt
    THEN rows
    ELSE rows \cup {row}

\* INSERT INTO task_attempts ... WHERE NOT EXISTS a row of the same worker,
\* attempt number and outcome.  A set of rows: an identical row written twice
\* counts once, and rows that differ in their reason count each.
WithRowOnce(rows, row) ==
    IF \E r \in rows : /\ r.worker = row.worker
                       /\ r.attempt = row.attempt
                       /\ r.outcome = row.outcome
    THEN rows
    ELSE rows \cup {row}

\* handle_task_failed: mark_status to FAILED and record_execution_failure, in
\* one transaction.
MarkFailed(t, w) ==
    /\ mark_outcome(t, w, "FAILED") = "transitioned"
    /\ tasks' = [tasks EXCEPT ![t] = Finished(@, "FAILED")]
    /\ attempts' = [attempts EXCEPT ![t] =
                       WithRowOnce(@, [attempt |-> tasks[t].attempt_count,
                                       worker  |-> w,
                                       outcome |-> "FAILED",
                                       reason  |-> "executor_error"])]
    /\ UNCHANGED <<results, policies, held>>

-----------------------------------------------------------------------------
(* Result submission: complete_task *)

\* Mutated form of IsCurrentAttempt: the attempt number is not compared.
IsCurrentAssignee(t, w, a) == tasks[t].assigned_worker = w

\* The fencing rule: the sender is the assignee and names the task's current
\* attempt.
IsCurrentAttempt(t, w, a) ==
    /\ tasks[t].assigned_worker = w
    /\ a = tasks[t].attempt_count

\* _ever_held: the assignee, or a worker some attempt row names.
ever_held(t, w) ==
    \/ tasks[t].assigned_worker = w
    \/ \E r \in attempts[t] : r.worker = w

\* _terminal_result_outcome: whose result is stored?
terminal_result_outcome(t, token) ==
    IF results[t] # Null /\ results[t].token = token
    THEN "duplicate" ELSE "superseded"

\* The guards of complete_task, in order.  The last one, ILLEGAL, cannot be
\* reached: an assignee exists on ASSIGNED and RUNNING rows only.
complete_outcome(t, w, a, token) ==
    IF tasks[t].status = "ABSENT" THEN "not_found"
    ELSE IF Terminal(t) THEN terminal_result_outcome(t, token)
    ELSE IF IsCurrentAttempt(t, w, a) THEN
        IF Live(t) THEN "transitioned" ELSE "illegal"
    ELSE IF ever_held(t, w) THEN "fenced"
    ELSE "not_owner"

\* complete_task accepting a result, then handle_task_result's commit.
\* ASSIGNED is walked through RUNNING; started_at is filled in if it was
\* missing.
CompleteTask(t, w, a, token) ==
    /\ complete_outcome(t, w, a, token) = "transitioned"
    /\ tasks' = [tasks EXCEPT ![t] = [Finished(@, "COMPLETED") EXCEPT !.started = TRUE]]
    /\ results' = [results EXCEPT ![t] = [worker |-> w, attempt |-> a,
                                          token |-> token, keep |-> Retention]]
    /\ UNCHANGED <<attempts, policies, held>>

\* complete_task refusing a submission that is not the current attempt's, then
\* the commit: one FENCED row per worker and attempt number, and none for an
\* attempt number the task has not reached.
FenceResult(t, w, a, token) ==
    /\ complete_outcome(t, w, a, token) = "fenced"
    /\ a <= tasks[t].attempt_count
    /\ attempts' = [attempts EXCEPT ![t] =
                       WithRowOnce(@, [attempt |-> a,
                                       worker  |-> w,
                                       outcome |-> "FENCED",
                                       reason  |-> IF tasks[t].assigned_worker = w
                                                   THEN "stale_attempt"
                                                   ELSE "task_reassigned"])]
    /\ UNCHANGED <<tasks, results, policies, held>>

-----------------------------------------------------------------------------
(* The lease engine *)

\* Mutated form of RenewalTarget: the renewal ignores the deadline.
RenewalTargetUncapped(t) == LeaseTTL

\* _RENEWAL_TARGET: the default TTL from now, never past the deadline.
RenewalTarget(t) ==
    IF tasks[t].deadline = Null THEN LeaseTTL
    ELSE Least(LeaseTTL, tasks[t].deadline)

\* Mutated form of LeaseHolder: a finished row may be renewed too.
LeaseHolderAnyStatus(t, w) == tasks[t].assigned_worker = w

\* The rows a renewal or a shortening may write: live, and the sender's.
LeaseHolder(t, w) == tasks[t].assigned_worker = w /\ Live(t)

\* renew_lease
RenewLease(t, w) ==
    /\ LeaseHolder(t, w)
    /\ tasks' = [tasks EXCEPT ![t].lease = RenewalTarget(t)]
    /\ UNCHANGED <<attempts, results, policies, held>>

\* renew_worker_leases: every live lease of a reconnecting worker.
RenewWorkerLeases(w) ==
    /\ tasks' = [t \in Tasks |->
                    IF LeaseHolder(t, w)
                    THEN [tasks[t] EXCEPT !.lease = RenewalTarget(t)]
                    ELSE tasks[t]]
    /\ UNCHANGED <<attempts, results, policies, held>>

\* shorten_worker_leases: at most the grace period for every live lease of a
\* worker whose socket closed.
ShortenWorkerLeases(w) ==
    /\ tasks' = [t \in Tasks |->
                    IF LeaseHolder(t, w)
                    THEN [tasks[t] EXCEPT !.lease =
                            IF @ = Null THEN DisconnectGrace
                            ELSE Least(@, DisconnectGrace)]
                    ELSE tasks[t]]
    /\ UNCHANGED <<attempts, results, policies, held>>

\* The WHERE clause of the reclaimer.
Expired(t) ==
    /\ Live(t)
    /\ tasks[t].lease # Null
    /\ tasks[t].lease < 0

\* Mutated form of Exhausted: one execution too many.
ExhaustedLate(t) == tasks[t].attempt_count >= max_attempts(t)

\* No attempt is left once this one has ended.
Exhausted(t) == tasks[t].attempt_count + 1 >= max_attempts(t)

\* Mutated form of ReclaimedRow: the attempt number is not advanced.
ReclaimedRowSameAttempt(t, backoff) ==
    IF Exhausted(t)
    THEN [NewRow("FAILED") EXCEPT !.attempt_count = tasks[t].attempt_count]
    ELSE [NewRow("QUEUED") EXCEPT !.attempt_count = tasks[t].attempt_count,
                                  !.excluded_worker = tasks[t].assigned_worker,
                                  !.not_before = backoff]

\* The SET clause of the reclaimer: assignment, start, lease and deadline are
\* cleared on both branches, the retry pair is written on the retry branch.
ReclaimedRow(t, backoff) ==
    IF Exhausted(t)
    THEN [NewRow("FAILED") EXCEPT !.attempt_count = tasks[t].attempt_count + 1]
    ELSE [NewRow("QUEUED") EXCEPT !.attempt_count = tasks[t].attempt_count + 1,
                                  !.excluded_worker = tasks[t].assigned_worker,
                                  !.not_before = backoff]

\* Mutated form of ExpiryRow: the row is numbered after the attempt about to
\* start instead of the one that ended.
ExpiryRowNextAttempt(t) ==
    [attempt |-> tasks[t].attempt_count + 1,
     worker  |-> tasks[t].assigned_worker,
     outcome |-> IF Exhausted(t) THEN "FAILED" ELSE "REASSIGNED",
     reason  |-> "lease_expired"]

\* Mutated form of ExpiryRow: the row does not name the worker that lost the
\* task.
ExpiryRowAnonymous(t) ==
    [attempt |-> tasks[t].attempt_count,
     worker  |-> Null,
     outcome |-> IF Exhausted(t) THEN "FAILED" ELSE "REASSIGNED",
     reason  |-> "lease_expired"]

\* _RECORD_EXPIRY_SQL: who lost the task, in which attempt, and which clock
\* ran out.
ExpiryRow(t) ==
    [attempt |-> tasks[t].attempt_count,
     worker  |-> tasks[t].assigned_worker,
     outcome |-> IF Exhausted(t) THEN "FAILED" ELSE "REASSIGNED",
     reason  |-> IF tasks[t].deadline # Null /\ tasks[t].deadline <= 0
                 THEN "execution_deadline_exceeded" ELSE "lease_expired"]

\* _RETRY_BACKOFF without its random(): full jitter draws up to this much.
RetryBackoff(n) == Least(BackoffMax, BackoffBase * BackoffFactor ^ n)

\* reclaim_expired_leases: one pass over some of the expired rows (at most a
\* batch; rows another transaction has locked are stepped over), each with its
\* own jittered backoff.
Reclaim(S) ==
    /\ S # {}
    /\ Cardinality(S) <= ReclaimBatch
    /\ \A t \in S : Expired(t)
    /\ \E backoff \in [S -> 0..BackoffMax] :
         /\ \A t \in S : backoff[t] <= RetryBackoff(tasks[t].attempt_count)
         /\ tasks' = [t \in Tasks |->
                         IF t \in S THEN ReclaimedRow(t, backoff[t]) ELSE tasks[t]]
    /\ attempts' = [t \in Tasks |->
                       IF t \in S THEN attempts[t] \cup {ExpiryRow(t)} ELSE attempts[t]]
    /\ UNCHANGED <<results, policies, held>>

-----------------------------------------------------------------------------
(* Cancellation, retention, time *)

\* cancel_queued_task: QUEUED only, and nothing but the status is written.
CancelQueued(t) ==
    /\ tasks[t].status = "QUEUED"
    /\ tasks' = [tasks EXCEPT ![t].status = "CANCELLED"]
    /\ UNCHANGED <<attempts, results, policies, held>>

\* purge_expired_results: the body goes, and result_id with it.  A retention of
\* zero or less disables the sweep.
PurgeResults ==
    /\ Retention > 0
    /\ results' = [t \in Tasks |->
                      IF results[t] # Null /\ results[t].keep < 0 THEN Null
                      ELSE results[t]]
    /\ UNCHANGED <<tasks, attempts, policies, held>>

\* One tick later an instant is one tick nearer, or one tick further in the
\* past; past floor no statement tells the difference.
Elapse(instant, floor) ==
    IF instant = Null THEN Null
    ELSE IF instant > floor THEN instant - 1 ELSE floor

Tick ==
    /\ tasks' = [t \in Tasks |->
                    [tasks[t] EXCEPT !.lease = Elapse(@, -1),
                                     !.deadline = Elapse(@, -1),
                                     !.not_before = Elapse(@, -ExclusionWindow)]]
    /\ results' = [t \in Tasks |->
                      IF results[t] = Null THEN Null
                      ELSE [results[t] EXCEPT !.keep = Elapse(@, -1)]]
    /\ UNCHANGED <<attempts, policies, held>>

-----------------------------------------------------------------------------
(* Specification *)

\* What workers make the queue do.
WorkerStep(t, w) ==
    \/ MarkRunning(t, w)
    \/ MarkFailed(t, w)
    \/ RenewLease(t, w)
    \/ \E a \in 0..AttemptCeiling, token \in Tokens :
          \/ CompleteTask(t, w, a, token)
          \/ FenceResult(t, w, a, token)

\* What the coordinators and operators do.
CoordinatorStep ==
    \/ \E S \in SUBSET Tasks : Enqueue(S)
    \/ \E w \in Workers, S \in SUBSET Tasks : Dequeue(w, S)
    \/ \E w \in Workers : RenewWorkerLeases(w)
    \/ \E w \in Workers : ShortenWorkerLeases(w)
    \/ \E S \in SUBSET Tasks : Reclaim(S)
    \/ \E t \in Tasks : CancelQueued(t)
    \/ PurgeResults
    \/ \E type \in TaskTypes, update \in PolicyUpdates : SetPolicy(type, update)
    \/ \E type \in TaskTypes : ClearPolicy(type)

Next ==
    \/ \E t \in Tasks, w \in Workers : WorkerStep(t, w)
    \/ CoordinatorStep
    \/ Tick

Spec == Init /\ [][Next]_vars

\* Time passes; lease_reclaim_loop runs on every replica and takes the oldest
\* expiry first, so no expired row is passed over for ever.
RecoveryFairness ==
    /\ WF_vars(Tick)
    /\ \A t \in Tasks : WF_vars(\E S \in SUBSET Tasks : t \in S /\ Reclaim(S))

\* assignment_loop polls for every connected worker: a row some worker stays
\* eligible for is claimed.  Which worker is not promised.
AssignmentFairness ==
    \A t \in Tasks :
        WF_vars(\E w \in Workers, S \in SUBSET Tasks : t \in S /\ Dequeue(w, S))

FairSpec == Spec /\ RecoveryFairness /\ AssignmentFairness

-----------------------------------------------------------------------------
(* Properties *)

\* Every column keeps its type, whatever the workers report.
TypeOK ==
    /\ tasks \in [Tasks -> Row]
    /\ attempts \in [Tasks -> SUBSET AttemptRow]
    /\ results \in [Tasks -> Result \cup {Null}]
    /\ policies \in [TaskTypes -> [POLICY_FIELDS -> (Nat \ {0}) \cup {Null}]]
    /\ held \in [Tasks -> SUBSET (Workers \X Nat)]

\* An attempt number names one execution: dequeue, mark_status and the
\* reclaimer together never hand two workers the same attempt of a task, and
\* never hand out an attempt number above the row's.  The fencing rule of
\* complete_task rests on this.
AttemptNamesOneHolder ==
    \A t \in Tasks :
        /\ \A g, h \in held[t] : g[2] = h[2] => g = h
        /\ \A h \in held[t] : h[2] <= tasks[t].attempt_count

\* The winner rule of complete_task: a stored result belongs to a completed
\* task and comes from the execution handed out last, however many earlier
\* holders submit late, and whatever attempt numbers they claim.
WinnerIsLatestHolder ==
    \A t \in Tasks :
        results[t] # Null =>
            /\ tasks[t].status = "COMPLETED"
            /\ <<results[t].worker, results[t].attempt>> \in held[t]
            /\ \A h \in held[t] : h[2] <= results[t].attempt

\* NOT_OWNER means what complete_task says it means: a worker that ever held
\* the task, submitting the attempt it was given, is answered transitioned,
\* duplicate, superseded or fenced, in every state the task can reach later.
HonestHolderIsNoImpostor ==
    \A t \in Tasks : \A h \in held[t] : \A token \in Tokens :
        complete_outcome(t, h[1], h[2], token)
            \in {"transitioned", "duplicate", "superseded", "fenced"}

\* The attempt rows that end an attempt: written by the reclaimer and by
\* record_execution_failure, as opposed to FENCED rows.
EndingRows(t) == {r \in attempts[t] : r.outcome # "FENCED"}

\* "Never silently dropped": every attempt number below the row's has exactly
\* one row that ends it, naming the worker that was handed that attempt.
LostAttemptsRecorded ==
    \A t \in Tasks :
        \A a \in 0..AttemptCeiling :
            a < tasks[t].attempt_count =>
                \E r \in EndingRows(t) :
                    /\ r.attempt = a
                    /\ <<r.worker, a>> \in held[t]
                    /\ \A s \in EndingRows(t) : s.attempt = a => s = r

\* A failed task is inspectable with a reason, and only a failed task claims to
\* have failed: FAILED rows of task_attempts exist exactly on FAILED tasks.
FailureIsExplained ==
    \A t \in Tasks :
        tasks[t].status = "FAILED" <=> \E r \in attempts[t] : r.outcome = "FAILED"

\* The bound complete_task puts on worker-driven rows: a worker can make the
\* coordinator write at most one FENCED row per attempt number the task has
\* reached, and none for a task it never held.  It tells rows apart by what they
\* say, so what it excludes is a second row under another reason.
FenceRowsBounded ==
    \A t \in Tasks : \A r \in attempts[t] :
        r.outcome = "FENCED" =>
            /\ r.attempt <= tasks[t].attempt_count
            /\ \E h \in held[t] : h[1] = r.worker
            /\ \A s \in attempts[t] :
                  (s.outcome = "FENCED" /\ s.worker = r.worker /\ s.attempt = r.attempt)
                     => s = r

\* One row's lease columns: exactly the live rows have an owner, a lease and a
\* deadline pending, and no renewal has carried the lease of a started task
\* past its execution deadline.
LeaseDisciplined(t) ==
    /\ Live(t) => /\ tasks[t].assigned_worker # Null
                  /\ tasks[t].lease # Null
                  /\ tasks[t].deadline # Null
    /\ ~Live(t) => tasks[t].lease = Null /\ tasks[t].deadline = Null
    /\ tasks[t].status = "RUNNING" => tasks[t].lease <= tasks[t].deadline
    /\ tasks[t].status \in {"ABSENT", "QUEUED", "CANCELLED"} =>
          tasks[t].assigned_worker = Null /\ ~tasks[t].started

\* The lease engine keeps that discipline on every row: a renewal racing a
\* completion, a disconnect or a reclaim never leaves a finished task with an
\* expiry, or a running one with a lease its deadline does not bound.
LeaseDiscipline == \A t \in Tasks : LeaseDisciplined(t)

\* One row's retry pair: a backoff and an exclusion are written and cleared
\* together, name the worker that lost the previous attempt, and are gone from
\* a completed or failed task.
RetryCoherent(t) ==
    /\ tasks[t].not_before = Null <=> tasks[t].excluded_worker = Null
    /\ tasks[t].excluded_worker # Null =>
          <<tasks[t].excluded_worker, tasks[t].attempt_count - 1>> \in held[t]
    /\ tasks[t].status \in {"ABSENT", "COMPLETED", "FAILED"} => tasks[t].not_before = Null

\* The reclaimer's exclusion always names the worker that really lost the
\* attempt before the one queued, whatever was claimed and lost in between.
RetryStateCoherent == \A t \in Tasks : RetryCoherent(t)

\* No task is executed more often than the largest cap allows: attempts are
\* numbered from 0, so a task that may still run is below the ceiling.
AttemptBudget ==
    \A t \in Tasks :
        /\ tasks[t].attempt_count <= AttemptCeiling
        /\ tasks[t].status # "FAILED" => tasks[t].attempt_count < AttemptCeiling

\* A terminal row is never written again, and neither is its history: a late
\* ack, start, failure, progress or result for a finished task changes nothing
\* (the backoff left on a cancelled row recedes into the past).  The stored
\* result can only be deleted, by retention.
TerminalIsFinal ==
    [][\A t \in Tasks :
         Terminal(t) =>
            /\ tasks'[t] = [tasks[t] EXCEPT !.not_before = tasks'[t].not_before]
            /\ tasks'[t].not_before \in {tasks[t].not_before,
                                         Elapse(tasks[t].not_before, -ExclusionWindow)}
            /\ attempts'[t] = attempts[t]
            /\ held'[t] = held[t]
            /\ results'[t] # Null =>
                  /\ results[t] # Null
                  /\ results'[t].token = results[t].token
                  /\ results'[t].attempt = results[t].attempt]_vars

\* Every write of the status column, the ones in raw SQL included, is a move
\* the state machine allows; a completion may pass through RUNNING.
StatusMovesAreLegal ==
    [][\A t \in Tasks :
         LET old == tasks[t].status
             new == tasks'[t].status
         IN  new # old =>
                \/ old = "ABSENT" /\ new = "QUEUED"
                \/ old # "ABSENT" /\ new \in Allowed[old]
                \/ old = "ASSIGNED" /\ new = "COMPLETED"]_vars

\* Renewal can postpone a reclaim but never prevent one: however often its
\* holder renews, every attempt of every task ends.
EveryAttemptEnds ==
    \A t \in Tasks : \A a \in 0..AttemptCeiling :
        (Live(t) /\ tasks[t].attempt_count = a)
            ~> ~(Live(t) /\ tasks[t].attempt_count = a)

\* Retries come to an end: every queued task is eventually completed, failed or
\* cancelled, on a fleet of one worker too.
EveryTaskEnds ==
    \A t \in Tasks : tasks[t].status = "QUEUED" ~> Terminal(t)

-----------------------------------------------------------------------------
(* The abstract specification *)

\* The part of a row TaskLifecycle speaks of.
AbstractRow(row) ==
    [phase  |-> CASE row.status = "ABSENT" -> "unborn"
                  [] row.status = "QUEUED" -> "waiting"
                  [] row.status = "COMPLETED" -> "won"
                  [] row.status \in {"FAILED", "CANCELLED"} -> "lost"
                  [] OTHER -> "held",
     holder |-> IF row.status \in {"ASSIGNED", "RUNNING", "COMPLETED"}
                THEN row.assigned_worker ELSE Null,
     number |-> row.attempt_count]

AbstractTask == [t \in Tasks |-> AbstractRow(tasks[t])]

Lifecycle == INSTANCE TaskLifecycle WITH task <- AbstractTask, Nobody <- Null

\* The queue implements TaskLifecycle: seen through a task's holder and attempt
\* number, every transaction of task_queue.py, those that write many rows
\* included, hands out, ends, wins or gives up an attempt, or changes nothing.
ImplementsLifecycle == Lifecycle!Spec

=============================================================================
