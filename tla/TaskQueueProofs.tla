-------------------------- MODULE TaskQueueProofs ---------------------------
(***************************************************************************)
(* What holds of TaskQueue for every number of tasks, workers and task     *)
(* types, and for every value of the timeouts, caps and batch sizes.       *)
(*                                                                         *)
(* Every statement of the queue writes each row it touches on its own, so  *)
(* a step of Next is, seen from one task, one of a dozen row moves.  The   *)
(* invariants are about one task at a time and are proved of these moves.  *)
(***************************************************************************)
EXTENDS TaskQueue, TLAPS

\* A policy lookup yields a positive number whatever overrides are stored, so
\* no lease is written already expired.
LEMMA PolicyValues ==
    ASSUME TypeOK, NEW t \in Tasks
    PROVE  /\ ack_timeout(t) \in Nat \ {0}
           /\ lease_ttl(t) \in Nat \ {0}
           /\ max_execution(t) \in Nat \ {0}
           /\ max_attempts(t) \in Nat \ {0}
<1>1. TypeOf[t] \in TaskTypes
  BY TypesAssumption
<1>2. \A f \in POLICY_FIELDS : policies[TypeOf[t]][f] \in (Nat \ {0}) \cup {Null}
  BY <1>1 DEF TypeOK
<1>3. MaxExecution[TypeOf[t]] \in Nat \ {0}
  BY <1>1, TimeoutAssumption
<1>4. MaxAttempts \in Nat \ {0}
  BY AttemptsAssumption
<1> QED
  BY <1>2, <1>3, <1>4, TimeoutAssumption
     DEF ack_timeout, lease_ttl, max_execution, max_attempts, policy_value, POLICY_FIELDS

\* The row enqueue inserts, and the row a reclaim starts from, are well typed.
LEMMA NewRowType ==
    ASSUME NEW s \in TASK_STATES \cup {"ABSENT"}
    PROVE  NewRow(s) \in Row
BY DEF NewRow, Row, Instant

\* LEAST of two instants is an instant no later than either.
LEMMA LeastType ==
    ASSUME NEW a \in Int, NEW b \in Int
    PROVE  Least(a, b) \in Int /\ Least(a, b) <= a /\ Least(a, b) <= b
BY DEF Least

\* Time passing keeps an instant an instant and a NULL a NULL.
LEMMA ElapseType ==
    ASSUME NEW i \in Instant, NEW f \in Int
    PROVE  /\ Elapse(i, f) \in Instant
           /\ Elapse(i, f) = Null <=> i = Null
           /\ i \in Int => Elapse(i, f) \in Int
BY NullAssumption DEF Elapse, Instant

-----------------------------------------------------------------------------
(* What one step does to one task *)

\* The columns of task t other than the ones a move names are left alone.
KeepRow(t) == tasks'[t] = tasks[t]
KeepHistory(t) == attempts'[t] = attempts[t] /\ held'[t] = held[t]
KeepResult(t) == results'[t] = results[t]

RowEnqueue(t) ==
    /\ tasks[t].status = "ABSENT"
    /\ tasks'[t] = NewRow("QUEUED")
    /\ KeepHistory(t) /\ KeepResult(t)

RowDequeue(t, w) ==
    /\ tasks[t].status = "QUEUED"
    /\ tasks'[t] = ClaimedRow(t, w)
    /\ held'[t] = held[t] \cup {<<w, tasks[t].attempt_count>>}
    /\ attempts'[t] = attempts[t] /\ KeepResult(t)

RowRunning(t) ==
    /\ tasks[t].status = "ASSIGNED"
    /\ \E l, d \in Int :
          /\ l <= d
          /\ tasks'[t] = [tasks[t] EXCEPT !.status = "RUNNING", !.started = TRUE,
                                          !.deadline = d, !.lease = l]
    /\ KeepHistory(t) /\ KeepResult(t)

RowLease(t) ==
    /\ Live(t)
    /\ \E l \in Int :
          /\ tasks'[t] = [tasks[t] EXCEPT !.lease = l]
          /\ \/ tasks[t].lease = Null
             \/ tasks[t].lease \in Int /\ l <= tasks[t].lease
             \/ tasks[t].deadline \in Int => l <= tasks[t].deadline
    /\ KeepHistory(t) /\ KeepResult(t)

RowFailed(t, w) ==
    /\ Live(t)
    /\ tasks[t].assigned_worker = w
    /\ tasks'[t] = Finished(tasks[t], "FAILED")
    /\ attempts'[t] = WithRowOnce(attempts[t],
                          [attempt |-> tasks[t].attempt_count, worker |-> w,
                           outcome |-> "FAILED", reason |-> "executor_error"])
    /\ held'[t] = held[t] /\ KeepResult(t)

RowComplete(t, w, k) ==
    /\ Live(t)
    /\ tasks[t].assigned_worker = w
    /\ tasks'[t] = [Finished(tasks[t], "COMPLETED") EXCEPT !.started = TRUE]
    /\ results'[t] = [worker |-> w, attempt |-> tasks[t].attempt_count,
                      token |-> k, keep |-> Retention]
    /\ KeepHistory(t)

RowFence(t, w, a) ==
    /\ tasks[t].status \notin {"ABSENT", "COMPLETED", "FAILED", "CANCELLED"}
    /\ ever_held(t, w)
    /\ a <= tasks[t].attempt_count
    /\ \E reason \in {"stale_attempt", "task_reassigned"} :
          attempts'[t] = WithRowOnce(attempts[t],
                            [attempt |-> a, worker |-> w,
                             outcome |-> "FENCED", reason |-> reason])
    /\ KeepRow(t) /\ held'[t] = held[t] /\ KeepResult(t)

RowReclaim(t, b) ==
    /\ Live(t)
    /\ tasks'[t] = ReclaimedRow(t, b)
    /\ attempts'[t] = attempts[t] \cup {ExpiryRow(t)}
    /\ held'[t] = held[t] /\ KeepResult(t)

RowCancel(t) ==
    /\ tasks[t].status = "QUEUED"
    /\ tasks'[t] = [tasks[t] EXCEPT !.status = "CANCELLED"]
    /\ KeepHistory(t) /\ KeepResult(t)

RowPurge(t) ==
    /\ results'[t] = Null
    /\ KeepRow(t) /\ KeepHistory(t)

RowTick(t) ==
    /\ tasks'[t] = [tasks[t] EXCEPT !.lease = Elapse(@, -1),
                                    !.deadline = Elapse(@, -1),
                                    !.not_before = Elapse(@, -ExclusionWindow)]
    /\ results'[t] = IF results[t] = Null THEN Null
                     ELSE [results[t] EXCEPT !.keep = Elapse(@, -1)]
    /\ KeepHistory(t)

RowMove(t) ==
    \/ KeepRow(t) /\ KeepHistory(t) /\ KeepResult(t)
    \/ RowEnqueue(t)
    \/ \E w \in Workers : RowDequeue(t, w)
    \/ RowRunning(t)
    \/ RowLease(t)
    \/ \E w \in Workers : RowFailed(t, w)
    \/ \E w \in Workers, k \in Tokens : RowComplete(t, w, k)
    \/ \E w \in Workers, a \in Nat : RowFence(t, w, a)
    \/ \E b \in Nat : RowReclaim(t, b)
    \/ RowCancel(t)
    \/ RowPurge(t)
    \/ RowTick(t)

\* The states task_states lets a task leave for RUNNING and for FAILED.
LEMMA AllowedSources ==
    \A s \in TASK_STATES :
        /\ "RUNNING" \in Allowed[s] => s = "ASSIGNED"
        /\ "FAILED" \in Allowed[s] => s \in {"ASSIGNED", "RUNNING"}
<1> SUFFICES ASSUME NEW s \in TASK_STATES
             PROVE  /\ "RUNNING" \in Allowed[s] => s = "ASSIGNED"
                    /\ "FAILED" \in Allowed[s] => s \in {"ASSIGNED", "RUNNING"}
  OBVIOUS
<1>1. /\ Allowed["QUEUED"] = {"ASSIGNED", "CANCELLED"}
      /\ Allowed["RUNNING"] = {"COMPLETED", "FAILED", "CANCELLED", "QUEUED"}
      /\ Allowed["COMPLETED"] = {}
      /\ Allowed["FAILED"] = {}
      /\ Allowed["CANCELLED"] = {}
      /\ Allowed["REASSIGNED"] = {}
  BY DEF Allowed
<1>2. s \in {"QUEUED", "ASSIGNED", "RUNNING", "COMPLETED", "FAILED", "CANCELLED",
            "REASSIGNED"}
  BY DEF TASK_STATES
<1> QED
  BY <1>1, <1>2

\* A worker's report is applied only to a row in a state the state machine
\* lets it leave.
LEMMA MarkSource ==
    ASSUME TypeOK, NEW t \in Tasks, NEW w \in Workers
    PROVE  /\ mark_outcome(t, w, "RUNNING") = "transitioned" =>
                 tasks[t].status = "ASSIGNED" /\ tasks[t].assigned_worker = w
           /\ mark_outcome(t, w, "FAILED") = "transitioned" =>
                 Live(t) /\ tasks[t].assigned_worker = w
<1>1. tasks[t].status \in TASK_STATES \cup {"ABSENT"}
  BY DEF TypeOK, Row
<1> QED
  BY <1>1, AllowedSources DEF mark_outcome, check_transition, Live

\* What the two outcomes of complete_task that write imply about the row.
LEMMA CompleteSource ==
    ASSUME TypeOK, NEW t \in Tasks, NEW w \in Workers, NEW a \in Nat, NEW k \in Tokens
    PROVE  /\ complete_outcome(t, w, a, k) = "transitioned" =>
                 Live(t) /\ tasks[t].assigned_worker = w /\ a = tasks[t].attempt_count
           /\ complete_outcome(t, w, a, k) = "fenced" =>
                 /\ tasks[t].status \notin {"ABSENT", "COMPLETED", "FAILED", "CANCELLED"}
                 /\ ever_held(t, w)
BY DEF complete_outcome, terminal_result_outcome, IsCurrentAttempt, Terminal, TERMINAL_STATES

\* Seen from one task, every step is a row move.
LEMMA StepIsRowMove ==
    ASSUME TypeOK, [Next]_vars, NEW t \in Tasks
    PROVE  RowMove(t)
<1>0. /\ tasks[t] \in Row
      /\ tasks \in [Tasks -> Row]
      /\ attempts \in [Tasks -> SUBSET AttemptRow]
      /\ results \in [Tasks -> Result \cup {Null}]
      /\ held \in [Tasks -> SUBSET (Workers \X Nat)]
  BY DEF TypeOK
<1> USE DEF RowMove, KeepRow, KeepHistory, KeepResult
<1>1. CASE UNCHANGED vars
  BY <1>1 DEF vars
<1>2. ASSUME NEW S \in SUBSET Tasks, Enqueue(S)
      PROVE  RowMove(t)
  BY <1>2 DEF Enqueue, RowEnqueue
<1>3. ASSUME NEW w \in Workers, NEW S \in SUBSET Tasks, Dequeue(w, S)
      PROVE  RowMove(t)
  BY <1>3 DEF Dequeue, RowDequeue, Eligible
<1>4. ASSUME NEW u \in Tasks, NEW w \in Workers, MarkRunning(u, w)
      PROVE  RowMove(t)
  <2>1. CASE u = t
    <3>1. lease_ttl(t) \in Int /\ max_execution(t) \in Int
      BY PolicyValues
    <3>2. /\ Least(lease_ttl(t), max_execution(t)) \in Int
          /\ Least(lease_ttl(t), max_execution(t)) <= max_execution(t)
      BY <3>1, LeastType
    <3>3. tasks[t].status = "ASSIGNED"
      BY <1>4, <2>1, MarkSource DEF MarkRunning
    <3>4. tasks'[t] = [tasks[t] EXCEPT !.status = "RUNNING", !.started = TRUE,
                                      !.deadline = max_execution(t),
                                      !.lease = Least(lease_ttl(t), max_execution(t))]
      BY <1>0, <1>4, <2>1 DEF MarkRunning
    <3>5. RowRunning(t)
      BY <1>4, <3>1, <3>2, <3>3, <3>4 DEF MarkRunning, RowRunning
    <3> QED
      BY <3>5
  <2>2. CASE u # t
    BY <1>0, <1>4, <2>2 DEF MarkRunning
  <2> QED
    BY <2>1, <2>2
<1>5. ASSUME NEW u \in Tasks, NEW w \in Workers, MarkFailed(u, w)
      PROVE  RowMove(t)
  <2>1. CASE u = t
    <3>1. RowFailed(t, w)
      BY <1>0, <1>5, <2>1, MarkSource DEF MarkFailed, RowFailed
    <3> QED
      BY <3>1
  <2>2. CASE u # t
    BY <1>0, <1>5, <2>2 DEF MarkFailed
  <2> QED
    BY <2>1, <2>2
<1>6. ASSUME NEW u \in Tasks, NEW w \in Workers, NEW a \in Nat, NEW k \in Tokens,
             CompleteTask(u, w, a, k)
      PROVE  RowMove(t)
  <2>1. CASE u = t
    <3>1. Live(t) /\ tasks[t].assigned_worker = w /\ a = tasks[t].attempt_count
      BY <1>6, <2>1, CompleteSource DEF CompleteTask
    <3>2. RowComplete(t, w, k)
      BY <1>0, <1>6, <2>1, <3>1 DEF CompleteTask, RowComplete
    <3> QED
      BY <3>2
  <2>2. CASE u # t
    BY <1>0, <1>6, <2>2 DEF CompleteTask
  <2> QED
    BY <2>1, <2>2
<1>7. ASSUME NEW u \in Tasks, NEW w \in Workers, NEW a \in Nat, NEW k \in Tokens,
             FenceResult(u, w, a, k)
      PROVE  RowMove(t)
  <2>1. CASE u = t
    <3>1. /\ tasks[t].status \notin {"ABSENT", "COMPLETED", "FAILED", "CANCELLED"}
          /\ ever_held(t, w)
      BY <1>7, <2>1, CompleteSource DEF FenceResult
    <3>2. RowFence(t, w, a)
      BY <1>0, <1>7, <2>1, <3>1 DEF FenceResult, RowFence
    <3> QED
      BY <3>2
  <2>2. CASE u # t
    BY <1>0, <1>7, <2>2 DEF FenceResult
  <2> QED
    BY <2>1, <2>2
<1>8. Live(t) => /\ RenewalTarget(t) \in Int
                 /\ tasks[t].deadline \in Int => RenewalTarget(t) <= tasks[t].deadline
  <2>1. LeaseTTL \in Int
    BY TimeoutAssumption
  <2>2. tasks[t].deadline \in Int \/ tasks[t].deadline = Null
    BY <1>0 DEF Row, Instant
  <2>3. CASE tasks[t].deadline = Null
    BY <2>1, <2>3, NullAssumption DEF RenewalTarget
  <2>4. CASE tasks[t].deadline \in Int
    <3>1. RenewalTarget(t) = Least(LeaseTTL, tasks[t].deadline)
      BY <2>4, NullAssumption DEF RenewalTarget
    <3> QED
      BY <2>1, <2>4, <3>1, LeastType
  <2> QED
    BY <2>2, <2>3, <2>4
<1>9. ASSUME NEW u \in Tasks, NEW w \in Workers, RenewLease(u, w)
      PROVE  RowMove(t)
  <2>1. CASE u = t
    <3>1. RowLease(t)
      BY <1>0, <1>8, <1>9, <2>1 DEF RenewLease, RowLease, LeaseHolder
    <3> QED
      BY <3>1
  <2>2. CASE u # t
    BY <1>0, <1>9, <2>2 DEF RenewLease
  <2> QED
    BY <2>1, <2>2
<1>10. ASSUME NEW w \in Workers, RenewWorkerLeases(w)
       PROVE  RowMove(t)
  <2>1. CASE LeaseHolder(t, w)
    <3>1. RowLease(t)
      BY <1>8, <1>10, <2>1 DEF RenewWorkerLeases, RowLease, LeaseHolder
    <3> QED
      BY <3>1
  <2>2. CASE ~LeaseHolder(t, w)
    BY <1>10, <2>2 DEF RenewWorkerLeases
  <2> QED
    BY <2>1, <2>2
<1>11. ASSUME NEW w \in Workers, ShortenWorkerLeases(w)
       PROVE  RowMove(t)
  <2>1. CASE LeaseHolder(t, w) /\ tasks[t].lease # Null
    <3>1. /\ tasks[t].lease \in Int
          /\ Least(tasks[t].lease, DisconnectGrace) \in Int
          /\ Least(tasks[t].lease, DisconnectGrace) <= tasks[t].lease
      <4>1. tasks[t].lease \in Int
        BY <1>0, <2>1 DEF Row, Instant
      <4>2. DisconnectGrace \in Int
        BY TimeoutAssumption
      <4> QED
        BY <4>1, <4>2, LeastType
    <3>2. tasks'[t] = [tasks[t] EXCEPT !.lease = Least(tasks[t].lease, DisconnectGrace)]
      BY <1>0, <1>11, <2>1 DEF ShortenWorkerLeases
    <3>3. RowLease(t)
      BY <1>11, <2>1, <3>1, <3>2 DEF ShortenWorkerLeases, RowLease, LeaseHolder
    <3> QED
      BY <3>3
  <2>2. CASE ~LeaseHolder(t, w)
    BY <1>11, <2>2 DEF ShortenWorkerLeases
  <2>3. CASE LeaseHolder(t, w) /\ tasks[t].lease = Null
    <3>1. DisconnectGrace \in Int
      BY TimeoutAssumption
    <3>2. tasks'[t] = [tasks[t] EXCEPT !.lease = DisconnectGrace]
      BY <1>0, <1>11, <2>3 DEF ShortenWorkerLeases
    <3>3. RowLease(t)
      BY <1>11, <2>3, <3>1, <3>2 DEF ShortenWorkerLeases, RowLease, LeaseHolder
    <3> QED
      BY <3>3
  <2> QED
    BY <2>1, <2>2, <2>3
<1>12. ASSUME NEW S \in SUBSET Tasks, Reclaim(S)
       PROVE  RowMove(t)
  <2>1. CASE t \in S
    <3>1. PICK backoff \in [S -> 0..BackoffMax] :
             tasks' = [u \in Tasks |->
                         IF u \in S THEN ReclaimedRow(u, backoff[u]) ELSE tasks[u]]
      BY <1>12 DEF Reclaim
    <3>2. backoff[t] \in Nat
      BY <2>1, <3>1, TimeoutAssumption
    <3>3. RowReclaim(t, backoff[t])
      BY <1>12, <2>1, <3>1 DEF Reclaim, RowReclaim, Expired
    <3> QED
      BY <3>2, <3>3
  <2>2. CASE t \notin S
    BY <1>12, <2>2 DEF Reclaim
  <2> QED
    BY <2>1, <2>2
<1>13. ASSUME NEW u \in Tasks, CancelQueued(u)
       PROVE  RowMove(t)
  BY <1>0, <1>13 DEF CancelQueued, RowCancel
<1>14. CASE PurgeResults
  BY <1>14 DEF PurgeResults, RowPurge
<1>15. ASSUME NEW y \in TaskTypes,
              ClearPolicy(y) \/ \E p \in PolicyUpdates : SetPolicy(y, p)
       PROVE  RowMove(t)
  BY <1>15 DEF ClearPolicy, SetPolicy
<1>16. CASE Tick
  BY <1>16 DEF Tick, RowTick
<1>17. CASE \E u \in Tasks, w \in Workers : WorkerStep(u, w)
  <2>1. 0..AttemptCeiling \subseteq Nat
    BY AttemptsAssumption
  <2> QED
    BY <1>4, <1>5, <1>6, <1>7, <1>9, <1>17, <2>1 DEF WorkerStep
<1>18. CASE CoordinatorStep
  BY <1>2, <1>3, <1>10, <1>11, <1>12, <1>13, <1>14, <1>15, <1>18 DEF CoordinatorStep
<1> QED
  BY <1>1, <1>16, <1>17, <1>18 DEF Next

-----------------------------------------------------------------------------
(* Type correctness *)

\* Every step leaves the five tables functions on their keys, and the policies
\* well typed.
LEMMA StepKeepsTables ==
    ASSUME TypeOK, [Next]_vars
    PROVE  /\ tasks' = [t \in Tasks |-> tasks'[t]]
           /\ attempts' = [t \in Tasks |-> attempts'[t]]
           /\ results' = [t \in Tasks |-> results'[t]]
           /\ held' = [t \in Tasks |-> held'[t]]
           /\ policies' \in [TaskTypes -> [POLICY_FIELDS -> (Nat \ {0}) \cup {Null}]]
<1>0. /\ tasks = [t \in Tasks |-> tasks[t]]
      /\ attempts = [t \in Tasks |-> attempts[t]]
      /\ results = [t \in Tasks |-> results[t]]
      /\ held = [t \in Tasks |-> held[t]]
      /\ policies \in [TaskTypes -> [POLICY_FIELDS -> (Nat \ {0}) \cup {Null}]]
  BY DEF TypeOK
<1>1. CASE UNCHANGED vars
  BY <1>0, <1>1 DEF vars
<1>2. CASE \E u \in Tasks, w \in Workers : WorkerStep(u, w)
  <2>1. PICK u \in Tasks, w \in Workers : WorkerStep(u, w)
    BY <1>2
  <2>2. CASE MarkRunning(u, w) \/ RenewLease(u, w)
    BY <1>0, <2>2 DEF MarkRunning, RenewLease
  <2>3. CASE MarkFailed(u, w)
    BY <1>0, <2>3 DEF MarkFailed
  <2>4. CASE \E a \in 0..AttemptCeiling, k \in Tokens : CompleteTask(u, w, a, k)
    BY <1>0, <2>4 DEF CompleteTask
  <2>5. CASE \E a \in 0..AttemptCeiling, k \in Tokens : FenceResult(u, w, a, k)
    BY <1>0, <2>5 DEF FenceResult
  <2> QED
    BY <2>1, <2>2, <2>3, <2>4, <2>5 DEF WorkerStep
<1>3. CASE Tick
  BY <1>0, <1>3 DEF Tick
<1>4. ASSUME NEW y \in TaskTypes, NEW p \in PolicyUpdates, SetPolicy(y, p)
      PROVE  policies' \in [TaskTypes -> [POLICY_FIELDS -> (Nat \ {0}) \cup {Null}]]
  <2>1. \A f \in DOMAIN p : p[f] \in Nat \ {0}
    BY PolicyAssumption
  <2>2. [f \in POLICY_FIELDS |-> IF f \in DOMAIN p THEN p[f] ELSE policies[y][f]]
           \in [POLICY_FIELDS -> (Nat \ {0}) \cup {Null}]
    BY <1>0, <2>1
  <2> QED
    BY <1>0, <1>4, <2>2 DEF SetPolicy
<1>5. ASSUME NEW y \in TaskTypes, ClearPolicy(y)
      PROVE  policies' \in [TaskTypes -> [POLICY_FIELDS -> (Nat \ {0}) \cup {Null}]]
  BY <1>0, <1>5 DEF ClearPolicy
<1>6. CASE CoordinatorStep
  <2>1. ASSUME NEW y \in TaskTypes,
               ClearPolicy(y) \/ \E p \in PolicyUpdates : SetPolicy(y, p)
        PROVE  UNCHANGED <<tasks, attempts, results, held>>
    BY <2>1 DEF SetPolicy, ClearPolicy
  <2>2. CASE \E y \in TaskTypes :
                ClearPolicy(y) \/ \E p \in PolicyUpdates : SetPolicy(y, p)
    BY <1>0, <1>4, <1>5, <2>1, <2>2
  <2>3. CASE PurgeResults \/ \E t \in Tasks : CancelQueued(t)
    BY <1>0, <2>3 DEF PurgeResults, CancelQueued
  <2>4. CASE \E w \in Workers : RenewWorkerLeases(w) \/ ShortenWorkerLeases(w)
    BY <1>0, <2>4 DEF RenewWorkerLeases, ShortenWorkerLeases
  <2>5. CASE \E S \in SUBSET Tasks : Enqueue(S)
    BY <1>0, <2>5 DEF Enqueue
  <2>6. CASE \E S \in SUBSET Tasks, w \in Workers : Dequeue(w, S)
    BY <1>0, <2>6 DEF Dequeue
  <2>7. CASE \E S \in SUBSET Tasks : Reclaim(S)
    BY <1>0, <2>7 DEF Reclaim
  <2> QED
    BY <1>6, <2>2, <2>3, <2>4, <2>5, <2>6, <2>7 DEF CoordinatorStep
<1> QED
  BY <1>1, <1>2, <1>3, <1>6 DEF Next

\* Every row move leaves the task's row, history and result well typed.
LEMMA RowMoveType ==
    ASSUME TypeOK, NEW t \in Tasks, RowMove(t)
    PROVE  /\ tasks'[t] \in Row
           /\ attempts'[t] \subseteq AttemptRow
           /\ results'[t] \in Result \cup {Null}
           /\ held'[t] \subseteq Workers \X Nat
<1>0. /\ tasks[t] \in Row
      /\ attempts[t] \subseteq AttemptRow
      /\ results[t] \in Result \cup {Null}
      /\ held[t] \subseteq Workers \X Nat
  BY DEF TypeOK
<1> USE <1>0 DEF KeepRow, KeepHistory, KeepResult
<1>1. CASE KeepRow(t) /\ KeepHistory(t) /\ KeepResult(t)
  BY <1>1
<1>2. CASE RowEnqueue(t)
  BY <1>2, NewRowType DEF RowEnqueue, TASK_STATES
<1>3. ASSUME NEW w \in Workers, RowDequeue(t, w)
      PROVE  tasks'[t] \in Row /\ held'[t] \subseteq Workers \X Nat
  <2>1. ack_timeout(t) \in Instant /\ max_execution(t) \in Instant
    BY PolicyValues DEF Instant
  <2>2. tasks'[t] \in Row
    BY <1>3, <2>1 DEF RowDequeue, ClaimedRow, Row, TASK_STATES
  <2>3. held'[t] \subseteq Workers \X Nat
    BY <1>3 DEF RowDequeue, Row
  <2> QED
    BY <2>2, <2>3
<1>4. CASE RowRunning(t)
  BY <1>4 DEF RowRunning, Row, Instant, TASK_STATES
<1>5. CASE RowLease(t)
  BY <1>5 DEF RowLease, Row, Instant, TASK_STATES
<1>6. ASSUME NEW w \in Workers, RowFailed(t, w)
      PROVE  tasks'[t] \in Row /\ attempts'[t] \subseteq AttemptRow
  <2>1. tasks'[t] \in Row
    BY <1>6 DEF RowFailed, Finished, Row, Instant, TASK_STATES
  <2>2. [attempt |-> tasks[t].attempt_count, worker |-> w,
         outcome |-> "FAILED", reason |-> "executor_error"] \in AttemptRow
    BY DEF AttemptRow, Row
  <2> QED
    BY <1>6, <2>1, <2>2 DEF RowFailed, WithRowOnce
<1>7. ASSUME NEW w \in Workers, NEW k \in Tokens, RowComplete(t, w, k)
      PROVE  tasks'[t] \in Row /\ results'[t] \in Result
  <2>1. tasks'[t] \in Row
    BY <1>7 DEF RowComplete, Finished, Row, Instant, TASK_STATES
  <2>2. results'[t] \in Result
    BY <1>7, TimeoutAssumption DEF RowComplete, Result, Row
  <2> QED
    BY <2>1, <2>2
<1>8. ASSUME NEW w \in Workers, NEW a \in Nat, RowFence(t, w, a)
      PROVE  attempts'[t] \subseteq AttemptRow
  <2>1. \A reason \in {"stale_attempt", "task_reassigned"} :
           [attempt |-> a, worker |-> w, outcome |-> "FENCED", reason |-> reason]
              \in AttemptRow
    BY DEF AttemptRow
  <2> QED
    BY <1>8, <2>1 DEF RowFence, WithRowOnce
<1>9. ASSUME NEW b \in Nat, RowReclaim(t, b)
      PROVE  tasks'[t] \in Row /\ attempts'[t] \subseteq AttemptRow
  <2>1. ReclaimedRow(t, b) \in Row
    <3>1. NewRow("FAILED") \in Row /\ NewRow("QUEUED") \in Row
      BY NewRowType DEF TASK_STATES
    <3>2. /\ tasks[t].attempt_count + 1 \in Nat
          /\ tasks[t].assigned_worker \in Workers \cup {Null}
          /\ b \in Instant
      BY DEF Row, Instant
    <3> QED
      BY <3>1, <3>2 DEF ReclaimedRow, Row
  <2>2. ExpiryRow(t) \in AttemptRow
    BY DEF ExpiryRow, AttemptRow, Row
  <2> QED
    BY <1>9, <2>1, <2>2 DEF RowReclaim
<1>10. CASE RowCancel(t)
  BY <1>10 DEF RowCancel, Row, TASK_STATES
<1>11. CASE RowPurge(t)
  BY <1>11 DEF RowPurge
<1>12. CASE RowTick(t)
  <2>1. /\ Elapse(tasks[t].lease, -1) \in Instant
        /\ Elapse(tasks[t].deadline, -1) \in Instant
        /\ Elapse(tasks[t].not_before, -ExclusionWindow) \in Instant
    BY ElapseType, TimeoutAssumption DEF Row
  <2>2. tasks'[t] \in Row
    BY <1>12, <2>1 DEF RowTick, Row
  <2>3. results[t] # Null => Elapse(results[t].keep, -1) \in Int
    <3> SUFFICES ASSUME results[t] # Null
                 PROVE  Elapse(results[t].keep, -1) \in Int
      OBVIOUS
    <3>1. results[t].keep \in Int /\ results[t].keep \in Instant
      BY DEF Result, Instant
    <3> QED
      BY <3>1, ElapseType
  <2>4. results'[t] \in Result \cup {Null}
    BY <1>12, <2>3 DEF RowTick, Result
  <2> QED
    BY <1>12, <2>2, <2>4 DEF RowTick
<1>13. ASSUME NEW w \in Workers, RowDequeue(t, w)
       PROVE  attempts'[t] = attempts[t] /\ results'[t] = results[t]
  BY <1>13 DEF RowDequeue
<1>14. ASSUME NEW w \in Workers, RowFailed(t, w)
       PROVE  results'[t] = results[t] /\ held'[t] = held[t]
  BY <1>14 DEF RowFailed
<1>15. ASSUME NEW w \in Workers, NEW k \in Tokens, RowComplete(t, w, k)
       PROVE  attempts'[t] = attempts[t] /\ held'[t] = held[t]
  BY <1>15 DEF RowComplete
<1>16. ASSUME NEW w \in Workers, NEW a \in Nat, RowFence(t, w, a)
       PROVE  /\ tasks'[t] = tasks[t]
              /\ results'[t] = results[t]
              /\ held'[t] = held[t]
  BY <1>16 DEF RowFence
<1>17. ASSUME NEW b \in Nat, RowReclaim(t, b)
       PROVE  results'[t] = results[t] /\ held'[t] = held[t]
  BY <1>17 DEF RowReclaim
<1> QED
  BY <1>1, <1>2, <1>3, <1>4, <1>5, <1>6, <1>7, <1>8, <1>9, <1>10, <1>11, <1>12,
     <1>13, <1>14, <1>15, <1>16, <1>17 DEF RowMove

\* TypeOK is an invariant: no sequence of claims, reports, submissions,
\* renewals, reclaims and policy changes takes a column out of its type.
THEOREM TypeCorrect == Spec => []TypeOK
<1>1. Init => TypeOK
  BY NewRowType DEF Init, TypeOK, TASK_STATES
<1>2. TypeOK /\ [Next]_vars => TypeOK'
  <2> SUFFICES ASSUME TypeOK, [Next]_vars PROVE TypeOK'
    OBVIOUS
  <2>1. \A t \in Tasks : RowMove(t)
    BY StepIsRowMove
  <2> QED
    BY <2>1, RowMoveType, StepKeepsTables DEF TypeOK
<1> QED
  BY <1>1, <1>2, PTL DEF Spec

-----------------------------------------------------------------------------
(* The inductive invariant, one task at a time *)

\* Who was handed what.  A queued task has been handed out under smaller
\* attempt numbers only, so the next claim is always of a fresh number; a live
\* or completed task belongs to the holder of its current number; and every
\* holder of a smaller number is named by some attempt row.
HolderInv(t) ==
    /\ tasks[t].status # "REASSIGNED"
    /\ tasks[t].status = "ABSENT" => held[t] = {}
    /\ \A g, h \in held[t] : g[2] = h[2] => g = h
    /\ \A h \in held[t] : h[2] <= tasks[t].attempt_count
    /\ tasks[t].status \in {"ABSENT", "QUEUED", "CANCELLED"} =>
          /\ tasks[t].assigned_worker = Null
          /\ \A h \in held[t] : h[2] < tasks[t].attempt_count
    /\ tasks[t].status \in {"ASSIGNED", "RUNNING", "COMPLETED"} =>
          <<tasks[t].assigned_worker, tasks[t].attempt_count>> \in held[t]
    /\ results[t] # Null =>
          /\ tasks[t].status = "COMPLETED"
          /\ results[t].worker = tasks[t].assigned_worker
          /\ results[t].attempt = tasks[t].attempt_count
    /\ \A h \in held[t] :
          h[2] < tasks[t].attempt_count => \E r \in attempts[t] : r.worker = h[1]

\* A step that leaves the status, owner and attempt number of a task alone, and
\* loses no history, keeps HolderInv.
LEMMA HolderFrame ==
    ASSUME NEW t \in Tasks, HolderInv(t),
           tasks'[t].status = tasks[t].status,
           tasks'[t].assigned_worker = tasks[t].assigned_worker,
           tasks'[t].attempt_count = tasks[t].attempt_count,
           attempts[t] \subseteq attempts'[t],
           held'[t] = held[t],
           \/ results'[t] = Null
           \/ /\ results[t] # Null
              /\ results'[t].worker = results[t].worker
              /\ results'[t].attempt = results[t].attempt
           \/ results'[t] = results[t]
    PROVE  HolderInv(t)'
BY DEF HolderInv

\* Every row move keeps the record of who was handed what: only a claim hands
\* out a number, and only of a row whose number is fresh.
LEMMA RowHolder ==
    ASSUME TypeOK, NEW t \in Tasks, HolderInv(t), RowMove(t)
    PROVE  HolderInv(t)'
<1>0. /\ tasks[t] \in Row
      /\ results[t] \in Result \cup {Null}
      /\ held[t] \subseteq Workers \X Nat
      /\ tasks[t].attempt_count \in Nat
  BY DEF TypeOK, Row
<1>1. CASE KeepRow(t) /\ KeepHistory(t) /\ KeepResult(t)
  BY <1>1, HolderFrame DEF KeepRow, KeepHistory, KeepResult
<1>2. CASE RowEnqueue(t)
  <2>1. held[t] = {} /\ results[t] = Null
    BY <1>0, <1>2 DEF RowEnqueue, HolderInv
  <2>2. /\ tasks'[t].status = "QUEUED"
        /\ tasks'[t].assigned_worker = Null
    BY <1>2 DEF RowEnqueue, NewRow
  <2> QED
    BY <1>2, <2>1, <2>2 DEF RowEnqueue, KeepHistory, KeepResult, HolderInv
<1>3. ASSUME NEW w \in Workers, RowDequeue(t, w)
      PROVE  HolderInv(t)'
  <2>1. /\ tasks'[t].status = "ASSIGNED"
        /\ tasks'[t].assigned_worker = w
        /\ tasks'[t].attempt_count = tasks[t].attempt_count
    BY <1>0, <1>3 DEF RowDequeue, ClaimedRow, Row
  <2>2. \A h \in held[t] : h[2] \in Nat /\ h[2] < tasks[t].attempt_count
    BY <1>0, <1>3 DEF RowDequeue, HolderInv
  <2>3. results'[t] = Null
    BY <1>3 DEF RowDequeue, KeepResult, HolderInv
  <2>4. held'[t] = held[t] \cup {<<w, tasks[t].attempt_count>>}
    BY <1>3 DEF RowDequeue
  <2>5. attempts'[t] = attempts[t]
    BY <1>3 DEF RowDequeue
  <2>6. \A h \in held'[t] : h \in held[t] \/ (h = <<w, tasks[t].attempt_count>> /\ h[2] = tasks[t].attempt_count)
    BY <2>4
  <2>7. \A g, h \in held'[t] : g[2] = h[2] => g = h
    BY <1>0, <2>2, <2>6 DEF HolderInv
  <2>8. \A h \in held'[t] : h[2] <= tasks'[t].attempt_count
    BY <1>0, <2>1, <2>2, <2>6
  <2>9. \A h \in held'[t] :
           h[2] < tasks'[t].attempt_count => \E r \in attempts'[t] : r.worker = h[1]
    BY <1>0, <2>1, <2>2, <2>5, <2>6 DEF HolderInv
  <2> QED
    BY <2>1, <2>3, <2>4, <2>7, <2>8, <2>9 DEF HolderInv
<1>4. CASE RowRunning(t)
  <2>1. /\ tasks'[t].status = "RUNNING"
        /\ tasks'[t].assigned_worker = tasks[t].assigned_worker
        /\ tasks'[t].attempt_count = tasks[t].attempt_count
    BY <1>0, <1>4 DEF RowRunning, Row
  <2> QED
    BY <1>4, <2>1 DEF RowRunning, KeepHistory, KeepResult, HolderInv
<1>5. CASE RowLease(t)
  <2>1. /\ tasks'[t].status = tasks[t].status
        /\ tasks'[t].assigned_worker = tasks[t].assigned_worker
        /\ tasks'[t].attempt_count = tasks[t].attempt_count
    BY <1>0, <1>5 DEF RowLease, Row
  <2> QED
    BY <1>5, <2>1, HolderFrame DEF RowLease, KeepHistory, KeepResult
<1>6. ASSUME NEW w \in Workers, RowFailed(t, w)
      PROVE  HolderInv(t)'
  <2>1. /\ tasks'[t].status = "FAILED"
        /\ tasks'[t].assigned_worker = tasks[t].assigned_worker
        /\ tasks'[t].attempt_count = tasks[t].attempt_count
    BY <1>0, <1>6 DEF RowFailed, Finished, Row
  <2>2. attempts[t] \subseteq attempts'[t] /\ held'[t] = held[t] /\ results'[t] = Null
    BY <1>6 DEF RowFailed, WithRowOnce, KeepResult, HolderInv, Live
  <2> QED
    BY <2>1, <2>2 DEF HolderInv
<1>7. ASSUME NEW w \in Workers, NEW k \in Tokens, RowComplete(t, w, k)
      PROVE  HolderInv(t)'
  <2>1. /\ tasks'[t].status = "COMPLETED"
        /\ tasks'[t].assigned_worker = w
        /\ tasks[t].assigned_worker = w
        /\ tasks'[t].attempt_count = tasks[t].attempt_count
    BY <1>0, <1>7 DEF RowComplete, Finished, Row
  <2>2. results'[t].worker = w /\ results'[t].attempt = tasks[t].attempt_count
    BY <1>7 DEF RowComplete
  <2>3. <<w, tasks[t].attempt_count>> \in held[t]
    BY <1>7, <2>1 DEF RowComplete, HolderInv, Live
  <2> QED
    BY <1>7, <2>1, <2>2, <2>3 DEF RowComplete, KeepHistory, HolderInv
<1>8. ASSUME NEW w \in Workers, NEW a \in Nat, RowFence(t, w, a)
      PROVE  HolderInv(t)'
  BY <1>8, HolderFrame DEF RowFence, WithRowOnce, KeepRow, KeepResult
<1>9. ASSUME NEW b \in Nat, RowReclaim(t, b)
      PROVE  HolderInv(t)'
  <2>1. /\ tasks'[t].status \in {"FAILED", "QUEUED"}
        /\ tasks'[t].assigned_worker = Null
        /\ tasks'[t].attempt_count = tasks[t].attempt_count + 1
    BY <1>9 DEF RowReclaim, ReclaimedRow, NewRow
  <2>2. <<tasks[t].assigned_worker, tasks[t].attempt_count>> \in held[t]
    BY <1>9 DEF RowReclaim, HolderInv, Live
  <2>3. results'[t] = Null
    BY <1>9 DEF RowReclaim, KeepResult, HolderInv, Live
  <2>4. \A h \in held[t] : h[2] \in Nat /\ h[2] < tasks[t].attempt_count + 1
    BY <1>0 DEF HolderInv
  <2>5. ExpiryRow(t) \in attempts'[t] /\ ExpiryRow(t).worker = tasks[t].assigned_worker
    BY <1>9 DEF RowReclaim, ExpiryRow
  <2>6. \A h \in held[t] : \E r \in attempts'[t] : r.worker = h[1]
    <3> SUFFICES ASSUME NEW h \in held[t]
                 PROVE  \E r \in attempts'[t] : r.worker = h[1]
      OBVIOUS
    <3>1. CASE h[2] = tasks[t].attempt_count
      <4>1. h = <<tasks[t].assigned_worker, tasks[t].attempt_count>>
        BY <2>2, <3>1 DEF HolderInv
      <4> QED
        BY <2>5, <4>1
    <3>2. CASE h[2] # tasks[t].attempt_count
      <4>1. h[2] < tasks[t].attempt_count
        BY <1>0, <2>4, <3>2
      <4> QED
        BY <1>9, <4>1 DEF RowReclaim, HolderInv
    <3> QED
      BY <3>1, <3>2
  <2>7. held'[t] = held[t]
    BY <1>9 DEF RowReclaim
  <2>8. \A h \in held[t] : h[2] <= tasks[t].attempt_count + 1
    BY <1>0, <2>4
  <2> QED
    BY <2>1, <2>3, <2>4, <2>6, <2>7, <2>8 DEF HolderInv
<1>10. CASE RowCancel(t)
  <2>1. /\ tasks'[t].status = "CANCELLED"
        /\ tasks'[t].assigned_worker = tasks[t].assigned_worker
        /\ tasks'[t].attempt_count = tasks[t].attempt_count
    BY <1>0, <1>10 DEF RowCancel, Row
  <2> QED
    BY <1>10, <2>1 DEF RowCancel, KeepHistory, KeepResult, HolderInv
<1>11. CASE RowPurge(t)
  BY <1>11, HolderFrame DEF RowPurge, KeepRow, KeepHistory
<1>12. CASE RowTick(t)
  <2>1. /\ tasks'[t].status = tasks[t].status
        /\ tasks'[t].assigned_worker = tasks[t].assigned_worker
        /\ tasks'[t].attempt_count = tasks[t].attempt_count
    BY <1>0, <1>12 DEF RowTick, Row
  <2>2. results[t] # Null => /\ results'[t].worker = results[t].worker
                             /\ results'[t].attempt = results[t].attempt
    BY <1>0, <1>12 DEF RowTick, Result
  <2>3. results[t] = Null => results'[t] = Null
    BY <1>12 DEF RowTick
  <2> QED
    BY <1>12, <2>1, <2>2, <2>3, HolderFrame DEF RowTick, KeepHistory
<1> QED
  BY <1>1, <1>2, <1>3, <1>4, <1>5, <1>6, <1>7, <1>8, <1>9, <1>10, <1>11, <1>12 DEF RowMove

\* What the attempt rows say.  Until a task has failed, its ending rows are
\* about smaller attempt numbers, so the row the reclaimer or a failure report
\* adds is the only one about its attempt.
HistoryInv(t) ==
    /\ tasks[t].status = "ABSENT" => attempts[t] = {}
    /\ \A a \in Nat :
          a < tasks[t].attempt_count =>
              \E r \in EndingRows(t) :
                  /\ r.attempt = a
                  /\ <<r.worker, a>> \in held[t]
                  /\ \A s \in EndingRows(t) : s.attempt = a => s = r
    /\ tasks[t].status # "FAILED" =>
          \A r \in EndingRows(t) :
              r.attempt < tasks[t].attempt_count /\ r.outcome # "FAILED"
    /\ tasks[t].status = "FAILED" => \E r \in attempts[t] : r.outcome = "FAILED"

\* The rows workers can cause.
FenceInv(t) ==
    /\ \A r \in attempts[t] : \E h \in held[t] : h[1] = r.worker
    /\ \A r \in attempts[t] :
          r.outcome = "FENCED" => r.attempt <= tasks[t].attempt_count
    /\ \A r, s \in attempts[t] :
          (/\ r.outcome = "FENCED" /\ s.outcome = "FENCED"
           /\ r.worker = s.worker /\ r.attempt = s.attempt) => r = s

\* How the four kinds of row move treat a task's history.
LEMMA HistoryMoves ==
    ASSUME TypeOK, NEW t \in Tasks, HolderInv(t), HistoryInv(t), RowMove(t)
    PROVE  \/ /\ attempts'[t] = attempts[t]
              /\ held[t] \subseteq held'[t]
              /\ tasks'[t].attempt_count = tasks[t].attempt_count
              /\ tasks'[t].status = "FAILED" <=> tasks[t].status = "FAILED"
              /\ tasks'[t].status = "ABSENT" => tasks[t].status = "ABSENT"
           \/ RowEnqueue(t)
           \/ \E w \in Workers : RowFailed(t, w)
           \/ \E w \in Workers, a \in Nat : RowFence(t, w, a)
           \/ \E b \in Nat : RowReclaim(t, b)
<1>0. tasks[t] \in Row /\ held[t] \subseteq Workers \X Nat
  BY DEF TypeOK
<1> USE <1>0 DEF Row, KeepRow, KeepHistory, KeepResult
<1>1. CASE KeepRow(t) /\ KeepHistory(t) /\ KeepResult(t)
  BY <1>1
<1>2. ASSUME NEW w \in Workers, RowDequeue(t, w)
      PROVE  /\ attempts'[t] = attempts[t]
             /\ held[t] \subseteq held'[t]
             /\ tasks'[t].attempt_count = tasks[t].attempt_count
             /\ tasks[t].status = "QUEUED"
             /\ tasks'[t].status = "ASSIGNED"
  BY <1>2 DEF RowDequeue, ClaimedRow
<1>3. CASE RowRunning(t)
  BY <1>3 DEF RowRunning
<1>4. CASE RowLease(t)
  BY <1>4 DEF RowLease
<1>5. ASSUME NEW w \in Workers, NEW k \in Tokens, RowComplete(t, w, k)
      PROVE  /\ attempts'[t] = attempts[t]
             /\ held[t] \subseteq held'[t]
             /\ tasks'[t].attempt_count = tasks[t].attempt_count
             /\ tasks[t].status # "FAILED"
             /\ tasks'[t].status = "COMPLETED"
  BY <1>5 DEF RowComplete, Finished, Live
<1>6. CASE RowCancel(t)
  BY <1>6 DEF RowCancel
<1>7. CASE RowPurge(t)
  BY <1>7 DEF RowPurge
<1>8. CASE RowTick(t)
  BY <1>8 DEF RowTick
<1> QED
  BY <1>1, <1>2, <1>3, <1>4, <1>5, <1>6, <1>7, <1>8 DEF RowMove

\* Every row move keeps the account of ended attempts: the reclaimer and a
\* failure report each add one row about the attempt that was running.
LEMMA RowHistory ==
    ASSUME TypeOK, NEW t \in Tasks, HolderInv(t), HistoryInv(t), RowMove(t)
    PROVE  HistoryInv(t)'
<1>0. /\ tasks[t] \in Row
      /\ tasks[t].attempt_count \in Nat
      /\ attempts[t] \subseteq AttemptRow
      /\ \A r \in attempts[t] : r.attempt \in Nat
  BY DEF TypeOK, Row, AttemptRow
<1>1. CASE /\ attempts'[t] = attempts[t]
           /\ held[t] \subseteq held'[t]
           /\ tasks'[t].attempt_count = tasks[t].attempt_count
           /\ tasks'[t].status = "FAILED" <=> tasks[t].status = "FAILED"
           /\ tasks'[t].status = "ABSENT" => tasks[t].status = "ABSENT"
  BY <1>1 DEF HistoryInv, EndingRows
<1>2. CASE RowEnqueue(t)
  BY <1>2 DEF RowEnqueue, NewRow, KeepHistory, HistoryInv, EndingRows
\* An ending row for the current attempt, added to a live task's history.
<1>3. ASSUME NEW row \in AttemptRow,
             Live(t),
             row.outcome # "FENCED",
             row.attempt = tasks[t].attempt_count,
             row.worker = tasks[t].assigned_worker,
             attempts'[t] = attempts[t] \cup {row},
             held'[t] = held[t]
      PROVE  /\ EndingRows(t)' = EndingRows(t) \cup {row}
             /\ \A a \in Nat :
                   a <= tasks[t].attempt_count =>
                      \E r \in EndingRows(t)' :
                          /\ r.attempt = a
                          /\ <<r.worker, a>> \in held'[t]
                          /\ \A s \in EndingRows(t)' : s.attempt = a => s = r
  <2>1. EndingRows(t)' = EndingRows(t) \cup {row}
    BY <1>3 DEF EndingRows
  <2>2. \A r \in EndingRows(t) : r.attempt < tasks[t].attempt_count
    BY <1>3 DEF HistoryInv, Live
  <2>3. <<row.worker, tasks[t].attempt_count>> \in held'[t]
    BY <1>3 DEF HolderInv, Live
  <2> SUFFICES ASSUME NEW a \in Nat, a <= tasks[t].attempt_count
               PROVE  \E r \in EndingRows(t)' :
                          /\ r.attempt = a
                          /\ <<r.worker, a>> \in held'[t]
                          /\ \A s \in EndingRows(t)' : s.attempt = a => s = r
    BY <2>1
  <2>4. CASE a = tasks[t].attempt_count
    <3>1. \A s \in EndingRows(t)' : s.attempt = a => s = row
      BY <1>0, <2>1, <2>2, <2>4 DEF EndingRows
    <3> QED
      BY <1>3, <2>1, <2>3, <2>4, <3>1
  <2>5. CASE a < tasks[t].attempt_count
    <3>1. PICK r \in EndingRows(t) :
             /\ r.attempt = a
             /\ <<r.worker, a>> \in held[t]
             /\ \A s \in EndingRows(t) : s.attempt = a => s = r
      BY <2>5 DEF HistoryInv
    <3>2. row.attempt # a
      BY <1>0, <1>3, <2>5
    <3> QED
      BY <1>3, <2>1, <3>1, <3>2
  <2>6. a = tasks[t].attempt_count \/ a < tasks[t].attempt_count
    BY <1>0
  <2> QED
    BY <2>4, <2>5, <2>6
<1>4. ASSUME NEW w \in Workers, RowFailed(t, w)
      PROVE  HistoryInv(t)'
  <2> DEFINE row == [attempt |-> tasks[t].attempt_count, worker |-> w,
                     outcome |-> "FAILED", reason |-> "executor_error"]
  <2>1. row \in AttemptRow /\ row.outcome = "FAILED" /\ row.attempt = tasks[t].attempt_count /\ row.worker = w
    BY <1>0 DEF AttemptRow
  <2>2. Live(t) /\ tasks[t].assigned_worker = w /\ held'[t] = held[t]
    BY <1>4 DEF RowFailed
  <2>3. \A r \in attempts[t] : r.outcome # "FAILED"
    BY <2>2 DEF HistoryInv, EndingRows, Live
  <2>4. attempts'[t] = attempts[t] \cup {row}
    BY <1>4, <2>1, <2>3 DEF RowFailed, WithRowOnce
  <2>5. /\ tasks'[t].status = "FAILED"
        /\ tasks'[t].attempt_count = tasks[t].attempt_count
    BY <1>0, <1>4 DEF RowFailed, Finished, Row
  <2> HIDE DEF row
  <2>6. row.outcome # "FENCED" /\ row.worker = tasks[t].assigned_worker
    BY <2>1, <2>2
  <2>7. \A a \in Nat :
           a <= tasks[t].attempt_count =>
              \E r \in EndingRows(t)' :
                  /\ r.attempt = a
                  /\ <<r.worker, a>> \in held'[t]
                  /\ \A s \in EndingRows(t)' : s.attempt = a => s = r
    BY <1>3, <2>1, <2>2, <2>4, <2>6
  <2>8. \A a \in Nat : a < tasks'[t].attempt_count => a <= tasks[t].attempt_count
    BY <1>0, <2>5
  <2> QED
    BY <2>1, <2>4, <2>5, <2>7, <2>8 DEF HistoryInv
<1>5. ASSUME NEW w \in Workers, NEW a \in Nat, RowFence(t, w, a)
      PROVE  HistoryInv(t)'
  <2>1. EndingRows(t)' = EndingRows(t)
    BY <1>5 DEF RowFence, WithRowOnce, EndingRows
  <2>2. tasks'[t] = tasks[t] /\ held'[t] = held[t] /\ attempts[t] \subseteq attempts'[t]
        /\ tasks[t].status # "ABSENT"
    BY <1>5 DEF RowFence, WithRowOnce, KeepRow
  <2> QED
    BY <2>1, <2>2 DEF HistoryInv
<1>6. ASSUME NEW b \in Nat, RowReclaim(t, b)
      PROVE  HistoryInv(t)'
  <2>1. /\ ExpiryRow(t) \in AttemptRow
        /\ ExpiryRow(t).outcome = IF Exhausted(t) THEN "FAILED" ELSE "REASSIGNED"
        /\ ExpiryRow(t).attempt = tasks[t].attempt_count
        /\ ExpiryRow(t).worker = tasks[t].assigned_worker
    BY <1>0 DEF ExpiryRow, AttemptRow, Row
  <2>2. /\ Live(t) /\ held'[t] = held[t]
        /\ attempts'[t] = attempts[t] \cup {ExpiryRow(t)}
    BY <1>6 DEF RowReclaim
  <2>3. /\ tasks'[t].status = IF Exhausted(t) THEN "FAILED" ELSE "QUEUED"
        /\ tasks'[t].attempt_count = tasks[t].attempt_count + 1
    BY <1>6 DEF RowReclaim, ReclaimedRow, NewRow
  <2>4. /\ EndingRows(t)' = EndingRows(t) \cup {ExpiryRow(t)}
        /\ \A a \in Nat :
              a <= tasks[t].attempt_count =>
                 \E r \in EndingRows(t)' :
                     /\ r.attempt = a
                     /\ <<r.worker, a>> \in held'[t]
                     /\ \A s \in EndingRows(t)' : s.attempt = a => s = r
    BY <1>3, <2>1, <2>2
  <2>5. \A r \in EndingRows(t) : r.attempt \in Nat /\ r.attempt < tasks[t].attempt_count /\ r.outcome # "FAILED"
    BY <1>0, <2>2 DEF HistoryInv, Live, EndingRows
  <2>6. \A a \in Nat : a < tasks'[t].attempt_count => a <= tasks[t].attempt_count
    BY <1>0, <2>3
  <2>7. tasks'[t].status # "FAILED" =>
           \A r \in EndingRows(t)' :
              r.attempt < tasks'[t].attempt_count /\ r.outcome # "FAILED"
    BY <1>0, <2>1, <2>3, <2>4, <2>5
  <2>8. tasks'[t].status = "FAILED" => \E r \in attempts'[t] : r.outcome = "FAILED"
    BY <2>1, <2>2, <2>3
  <2> QED
    BY <2>3, <2>4, <2>6, <2>7, <2>8 DEF HistoryInv
<1> QED
  BY <1>1, <1>2, <1>4, <1>5, <1>6, HistoryMoves

\* Every row move keeps the bound on FENCED rows.
LEMMA RowFences ==
    ASSUME TypeOK, NEW t \in Tasks, HolderInv(t), HistoryInv(t), FenceInv(t), RowMove(t)
    PROVE  FenceInv(t)'
<1>0. /\ tasks[t] \in Row
      /\ tasks[t].attempt_count \in Nat
      /\ attempts[t] \subseteq AttemptRow
      /\ \A r \in attempts[t] : r.attempt \in Nat
  BY DEF TypeOK, Row, AttemptRow
<1>1. CASE /\ attempts'[t] = attempts[t]
           /\ held[t] \subseteq held'[t]
           /\ tasks'[t].attempt_count = tasks[t].attempt_count
  BY <1>1 DEF FenceInv
<1>2. CASE RowEnqueue(t)
  BY <1>2 DEF RowEnqueue, KeepHistory, FenceInv, HistoryInv
<1>3. ASSUME NEW w \in Workers, RowFailed(t, w)
      PROVE  FenceInv(t)'
  <2>1. <<w, tasks[t].attempt_count>> \in held[t]
    BY <1>3 DEF RowFailed, HolderInv, Live
  <2>2. tasks'[t].attempt_count = tasks[t].attempt_count /\ held'[t] = held[t]
    BY <1>0, <1>3 DEF RowFailed, Finished, Row
  <2>3. \A r \in attempts'[t] :
           r \in attempts[t] \/ (r.worker = w /\ r.outcome = "FAILED")
    BY <1>3 DEF RowFailed, WithRowOnce
  <2>4. \A r \in attempts'[t] : \E h \in held'[t] : h[1] = r.worker
    BY <2>1, <2>2, <2>3 DEF FenceInv
  <2> QED
    BY <2>2, <2>3, <2>4 DEF FenceInv
<1>4. ASSUME NEW w \in Workers, NEW a \in Nat, RowFence(t, w, a)
      PROVE  FenceInv(t)'
  <2>1. \E h \in held[t] : h[1] = w
    <3>1. CASE tasks[t].assigned_worker = w
      <4>1. tasks[t].status \in {"ASSIGNED", "RUNNING"}
        BY <1>0, <1>4, <3>1, NullAssumption DEF RowFence, HolderInv, Row, TASK_STATES
      <4> QED
        BY <3>1, <4>1 DEF HolderInv
    <3>2. CASE \E r \in attempts[t] : r.worker = w
      BY <3>2 DEF FenceInv
    <3> QED
      BY <1>4, <3>1, <3>2 DEF RowFence, ever_held
  <2>2. tasks'[t] = tasks[t] /\ held'[t] = held[t] /\ a <= tasks[t].attempt_count
    BY <1>4 DEF RowFence, KeepRow
  <2>3. CASE attempts'[t] = attempts[t]
    BY <2>2, <2>3 DEF FenceInv
  <2>4. CASE attempts'[t] # attempts[t]
    <3>1. PICK reason \in {"stale_attempt", "task_reassigned"} :
             attempts'[t] = WithRowOnce(attempts[t],
                               [attempt |-> a, worker |-> w,
                                outcome |-> "FENCED", reason |-> reason])
      BY <1>4 DEF RowFence
    <3>2. /\ attempts'[t] = attempts[t] \cup {[attempt |-> a, worker |-> w,
                                              outcome |-> "FENCED", reason |-> reason]}
          /\ ~\E r \in attempts[t] : r.worker = w /\ r.attempt = a /\ r.outcome = "FENCED"
      BY <2>4, <3>1 DEF WithRowOnce
    <3>3. \A r \in attempts'[t] : \E h \in held'[t] : h[1] = r.worker
      BY <2>1, <2>2, <3>2 DEF FenceInv
    <3> QED
      BY <2>2, <3>2, <3>3 DEF FenceInv
  <2> QED
    BY <2>3, <2>4
<1>5. ASSUME NEW b \in Nat, RowReclaim(t, b)
      PROVE  FenceInv(t)'
  <2>1. <<tasks[t].assigned_worker, tasks[t].attempt_count>> \in held[t]
    BY <1>5 DEF RowReclaim, HolderInv, Live
  <2>2. /\ tasks'[t].attempt_count = tasks[t].attempt_count + 1
        /\ held'[t] = held[t]
        /\ attempts'[t] = attempts[t] \cup {ExpiryRow(t)}
    BY <1>5 DEF RowReclaim, ReclaimedRow, NewRow
  <2>3. ExpiryRow(t).worker = tasks[t].assigned_worker /\ ExpiryRow(t).outcome # "FENCED"
    BY DEF ExpiryRow
  <2>4. \A r \in attempts'[t] : \E h \in held'[t] : h[1] = r.worker
    BY <2>1, <2>2, <2>3 DEF FenceInv
  <2>5. \A r \in attempts'[t] :
           r.outcome = "FENCED" => r.attempt <= tasks'[t].attempt_count
    BY <1>0, <2>2, <2>3 DEF FenceInv
  <2> QED
    BY <2>2, <2>3, <2>4, <2>5 DEF FenceInv
<1> QED
  BY <1>1, <1>2, <1>3, <1>4, <1>5, HistoryMoves

\* Time does not reorder two instants.
LEMMA ElapseMonotone ==
    ASSUME NEW a \in Int, NEW b \in Int, NEW f \in Int, a <= b
    PROVE  Elapse(a, f) <= Elapse(b, f)
BY NullAssumption DEF Elapse

\* Every row move keeps the lease columns disciplined.
LEMMA RowLeases ==
    ASSUME TypeOK, NEW t \in Tasks, HolderInv(t), LeaseDisciplined(t), RowMove(t)
    PROVE  LeaseDisciplined(t)'
<1>0. /\ tasks[t] \in Row
      /\ held[t] \subseteq Workers \X Nat
      /\ tasks[t].lease \in Instant /\ tasks[t].deadline \in Instant
      /\ tasks[t].status \in TASK_STATES \cup {"ABSENT"}
  BY DEF TypeOK, Row
<1> USE <1>0 DEF KeepRow, KeepHistory, KeepResult
<1>1. CASE tasks'[t] = tasks[t]
  BY <1>1 DEF LeaseDisciplined, Live
<1>2. CASE RowEnqueue(t)
  BY <1>2 DEF RowEnqueue, NewRow, LeaseDisciplined, Live
<1>3. ASSUME NEW w \in Workers, RowDequeue(t, w)
      PROVE  LeaseDisciplined(t)'
  <2>1. ack_timeout(t) # Null /\ max_execution(t) # Null /\ w # Null
    BY PolicyValues, NullAssumption
  <2>2. /\ tasks'[t].status = "ASSIGNED"
        /\ tasks'[t].assigned_worker = w
        /\ tasks'[t].lease = ack_timeout(t)
        /\ tasks'[t].deadline = max_execution(t)
    BY <1>3 DEF RowDequeue, ClaimedRow, Row
  <2> QED
    BY <2>1, <2>2 DEF LeaseDisciplined, Live
<1>4. CASE RowRunning(t)
  <2>1. PICK l \in Int, d \in Int :
           /\ l <= d
           /\ tasks'[t] = [tasks[t] EXCEPT !.status = "RUNNING", !.started = TRUE,
                                           !.deadline = d, !.lease = l]
    BY <1>4 DEF RowRunning
  <2>2. /\ tasks'[t].status = "RUNNING"
        /\ tasks'[t].assigned_worker = tasks[t].assigned_worker
        /\ tasks'[t].lease = l
        /\ tasks'[t].deadline = d
    BY <2>1 DEF Row
  <2>3. tasks[t].assigned_worker # Null
    BY <1>4 DEF RowRunning, LeaseDisciplined, Live
  <2> QED
    BY <2>1, <2>2, <2>3, NullAssumption DEF LeaseDisciplined, Live
<1>5. CASE RowLease(t)
  <2>1. PICK l \in Int :
           /\ tasks'[t] = [tasks[t] EXCEPT !.lease = l]
           /\ \/ tasks[t].lease = Null
              \/ tasks[t].lease \in Int /\ l <= tasks[t].lease
              \/ tasks[t].deadline \in Int => l <= tasks[t].deadline
    BY <1>5 DEF RowLease
  <2>2. /\ tasks'[t].status = tasks[t].status
        /\ tasks'[t].assigned_worker = tasks[t].assigned_worker
        /\ tasks'[t].started = tasks[t].started
        /\ tasks'[t].deadline = tasks[t].deadline
        /\ tasks'[t].lease = l
    BY <2>1 DEF Row
  <2>3. Live(t) /\ tasks[t].lease \in Int /\ tasks[t].deadline \in Int
    BY <1>5 DEF RowLease, LeaseDisciplined, Instant
  <2>4. tasks[t].status = "RUNNING" => l <= tasks[t].deadline
    BY <2>1, <2>3, NullAssumption DEF LeaseDisciplined
  <2> QED
    BY <2>2, <2>3, <2>4, NullAssumption DEF LeaseDisciplined, Live
<1>6. ASSUME NEW w \in Workers, RowFailed(t, w)
      PROVE  LeaseDisciplined(t)'
  <2>1. tasks'[t].status = "FAILED" /\ tasks'[t].lease = Null /\ tasks'[t].deadline = Null
    BY <1>6 DEF RowFailed, Finished, Row
  <2> QED
    BY <2>1 DEF LeaseDisciplined, Live
<1>7. ASSUME NEW w \in Workers, NEW k \in Tokens, RowComplete(t, w, k)
      PROVE  LeaseDisciplined(t)'
  <2>1. tasks'[t].status = "COMPLETED" /\ tasks'[t].lease = Null /\ tasks'[t].deadline = Null
    BY <1>7 DEF RowComplete, Finished, Row
  <2> QED
    BY <2>1 DEF LeaseDisciplined, Live
<1>8. ASSUME NEW b \in Nat, RowReclaim(t, b)
      PROVE  LeaseDisciplined(t)'
  BY <1>8 DEF RowReclaim, ReclaimedRow, NewRow, LeaseDisciplined, Live
<1>9. CASE RowCancel(t)
  <2>1. /\ tasks'[t].status = "CANCELLED"
        /\ tasks'[t].assigned_worker = tasks[t].assigned_worker
        /\ tasks'[t].started = tasks[t].started
        /\ tasks'[t].lease = tasks[t].lease
        /\ tasks'[t].deadline = tasks[t].deadline
    BY <1>9 DEF RowCancel, Row
  <2> QED
    BY <1>9, <2>1 DEF RowCancel, LeaseDisciplined, Live
<1>10. CASE RowTick(t)
  <2>1. /\ tasks'[t].status = tasks[t].status
        /\ tasks'[t].assigned_worker = tasks[t].assigned_worker
        /\ tasks'[t].started = tasks[t].started
        /\ tasks'[t].lease = Elapse(tasks[t].lease, -1)
        /\ tasks'[t].deadline = Elapse(tasks[t].deadline, -1)
    BY <1>10 DEF RowTick, Row
  <2>2. /\ tasks'[t].lease = Null <=> tasks[t].lease = Null
        /\ tasks'[t].deadline = Null <=> tasks[t].deadline = Null
    BY <2>1, ElapseType
  <2>3. tasks[t].status = "RUNNING" => tasks'[t].lease <= tasks'[t].deadline
    <3> SUFFICES ASSUME tasks[t].status = "RUNNING"
                 PROVE  tasks'[t].lease <= tasks'[t].deadline
      OBVIOUS
    <3>1. tasks[t].lease \in Int /\ tasks[t].deadline \in Int /\ tasks[t].lease <= tasks[t].deadline
      BY DEF LeaseDisciplined, Live, Instant
    <3> QED
      BY <2>1, <3>1, ElapseMonotone
  <2> QED
    BY <2>1, <2>2, <2>3 DEF LeaseDisciplined, Live
<1>11. ASSUME NEW w \in Workers, NEW a \in Nat, RowFence(t, w, a)
       PROVE  tasks'[t] = tasks[t]
  BY <1>11 DEF RowFence
<1>12. RowPurge(t) => tasks'[t] = tasks[t]
  BY DEF RowPurge
<1> QED
  BY <1>1, <1>2, <1>3, <1>4, <1>5, <1>6, <1>7, <1>8, <1>9, <1>10, <1>11, <1>12 DEF RowMove


\* A move that leaves the retry pair and the attempt number alone keeps the
\* pair coherent, unless it finishes the task.
LEMMA RetryFrame ==
    ASSUME NEW t \in Tasks, RetryCoherent(t),
           tasks'[t].not_before = Null <=> tasks[t].not_before = Null,
           tasks'[t].excluded_worker = tasks[t].excluded_worker,
           tasks'[t].attempt_count = tasks[t].attempt_count,
           held[t] \subseteq held'[t],
           \/ tasks'[t].status = tasks[t].status
           \/ tasks'[t].status \notin {"ABSENT", "COMPLETED", "FAILED"}
    PROVE  RetryCoherent(t)'
BY DEF RetryCoherent

\* Every row move keeps the retry pair coherent: only a reclaim writes it, and
\* it excludes the holder of the attempt it ends.
LEMMA RowRetry ==
    ASSUME TypeOK, NEW t \in Tasks, HolderInv(t), LeaseDisciplined(t), RetryCoherent(t),
           RowMove(t)
    PROVE  RetryCoherent(t)'
<1>0. /\ tasks[t] \in Row
      /\ tasks[t].not_before \in Instant
      /\ tasks[t].attempt_count \in Nat
  BY DEF TypeOK, Row
<1> USE <1>0 DEF KeepRow, KeepHistory, KeepResult
<1>1. CASE tasks'[t] = tasks[t] /\ held'[t] = held[t]
  BY <1>1, RetryFrame
<1>2. CASE RowEnqueue(t)
  BY <1>2 DEF RowEnqueue, NewRow, RetryCoherent
<1>3. ASSUME NEW w \in Workers, RowDequeue(t, w)
      PROVE  RetryCoherent(t)'
  <2>1. /\ tasks'[t].not_before = tasks[t].not_before
        /\ tasks'[t].excluded_worker = tasks[t].excluded_worker
        /\ tasks'[t].attempt_count = tasks[t].attempt_count
        /\ tasks'[t].status = "ASSIGNED"
        /\ held[t] \subseteq held'[t]
    BY <1>3 DEF RowDequeue, ClaimedRow, Row
  <2> QED
    BY <2>1, RetryFrame
<1>4. CASE RowRunning(t) \/ RowLease(t) \/ RowCancel(t)
  <2>1. /\ tasks'[t].not_before = tasks[t].not_before
        /\ tasks'[t].excluded_worker = tasks[t].excluded_worker
        /\ tasks'[t].attempt_count = tasks[t].attempt_count
        /\ tasks'[t].status \in {tasks[t].status, "RUNNING", "CANCELLED"}
        /\ held'[t] = held[t]
    BY <1>4 DEF RowRunning, RowLease, RowCancel, Row
  <2> QED
    BY <2>1, RetryFrame
<1>5. ASSUME NEW w \in Workers, RowFailed(t, w)
      PROVE  RetryCoherent(t)'
  <2>1. tasks'[t].not_before = Null /\ tasks'[t].excluded_worker = Null
    BY <1>5 DEF RowFailed, Finished, Row
  <2> QED
    BY <2>1 DEF RetryCoherent
<1>6. ASSUME NEW w \in Workers, NEW k \in Tokens, RowComplete(t, w, k)
      PROVE  RetryCoherent(t)'
  <2>1. tasks'[t].not_before = Null /\ tasks'[t].excluded_worker = Null
    BY <1>6 DEF RowComplete, Finished, Row
  <2> QED
    BY <2>1 DEF RetryCoherent
<1>7. ASSUME NEW b \in Nat, RowReclaim(t, b)
      PROVE  RetryCoherent(t)'
  <2>1. CASE Exhausted(t)
    BY <1>7, <2>1 DEF RowReclaim, ReclaimedRow, NewRow, RetryCoherent
  <2>2. CASE ~Exhausted(t)
    <3>1. /\ tasks'[t].status = "QUEUED"
          /\ tasks'[t].not_before = b
          /\ tasks'[t].excluded_worker = tasks[t].assigned_worker
          /\ tasks'[t].attempt_count - 1 = tasks[t].attempt_count
      BY <1>7, <2>2 DEF RowReclaim, ReclaimedRow, NewRow
    <3>2. tasks[t].assigned_worker # Null /\ b # Null
      BY <1>7, NullAssumption DEF RowReclaim, LeaseDisciplined
    <3>3. <<tasks[t].assigned_worker, tasks[t].attempt_count>> \in held'[t]
      BY <1>7 DEF RowReclaim, HolderInv, Live
    <3> QED
      BY <3>1, <3>2, <3>3 DEF RetryCoherent
  <2> QED
    BY <2>1, <2>2
<1>8. CASE RowTick(t)
  <2>1. /\ tasks'[t].not_before = Elapse(tasks[t].not_before, -ExclusionWindow)
        /\ tasks'[t].excluded_worker = tasks[t].excluded_worker
        /\ tasks'[t].attempt_count = tasks[t].attempt_count
        /\ tasks'[t].status = tasks[t].status
        /\ held'[t] = held[t]
    BY <1>8 DEF RowTick, Row
  <2>2. tasks'[t].not_before = Null <=> tasks[t].not_before = Null
    BY <2>1, ElapseType, TimeoutAssumption
  <2> QED
    BY <2>1, <2>2, RetryFrame
<1>9. ASSUME NEW w \in Workers, NEW a \in Nat, RowFence(t, w, a)
      PROVE  tasks'[t] = tasks[t] /\ held'[t] = held[t]
  BY <1>9 DEF RowFence
<1>10. RowPurge(t) => tasks'[t] = tasks[t] /\ held'[t] = held[t]
  BY DEF RowPurge
<1> QED
  BY <1>1, <1>2, <1>3, <1>4, <1>5, <1>6, <1>7, <1>8, <1>9, <1>10 DEF RowMove

\* The attempt number of a task that may still run is below the ceiling.
BudgetInv(t) ==
    /\ tasks[t].attempt_count <= AttemptCeiling
    /\ tasks[t].status # "FAILED" => tasks[t].attempt_count < AttemptCeiling

\* What validate_policy guarantees of the stored attempt caps.
CapsInv ==
    \A y \in TaskTypes :
        policies[y]["max_attempts"] # Null => policies[y]["max_attempts"] <= AttemptCeiling

\* The stored caps stay within validate_policy's bound.
LEMMA CapsKept ==
    ASSUME TypeOK, CapsInv, [Next]_vars
    PROVE  CapsInv'
<1>0. policies \in [TaskTypes -> [POLICY_FIELDS -> (Nat \ {0}) \cup {Null}]]
  BY DEF TypeOK
<1>1. CASE UNCHANGED policies
  BY <1>1 DEF CapsInv
<1>2. ASSUME NEW y \in TaskTypes, NEW p \in PolicyUpdates, SetPolicy(y, p)
      PROVE  CapsInv'
  <2>1. "max_attempts" \in DOMAIN p => p["max_attempts"] <= AttemptCeiling
    BY PolicyAssumption
  <2> QED
    BY <1>0, <1>2, <2>1 DEF SetPolicy, CapsInv, POLICY_FIELDS
<1>3. ASSUME NEW y \in TaskTypes, ClearPolicy(y)
      PROVE  CapsInv'
  BY <1>0, <1>3 DEF ClearPolicy, CapsInv, POLICY_FIELDS
<1>4. CASE \E u \in Tasks, w \in Workers : WorkerStep(u, w)
  <2>1. PICK u \in Tasks, w \in Workers : WorkerStep(u, w)
    BY <1>4
  <2>2. ASSUME NEW a, NEW k, CompleteTask(u, w, a, k) \/ FenceResult(u, w, a, k)
        PROVE  UNCHANGED policies
    BY <2>2 DEF CompleteTask, FenceResult
  <2>3. CASE MarkRunning(u, w) \/ MarkFailed(u, w) \/ RenewLease(u, w)
    BY <1>1, <2>3 DEF MarkRunning, MarkFailed, RenewLease
  <2> QED
    BY <1>1, <2>1, <2>2, <2>3 DEF WorkerStep
<1>5. CASE CoordinatorStep
  BY <1>1, <1>2, <1>3, <1>5
     DEF CoordinatorStep, Enqueue, Dequeue, RenewWorkerLeases, ShortenWorkerLeases,
         Reclaim, CancelQueued, PurgeResults
<1>6. CASE Tick \/ UNCHANGED vars
  BY <1>1, <1>6 DEF Tick, vars
<1> QED
  BY <1>4, <1>5, <1>6 DEF Next

\* Every row move keeps the attempt budget: only a reclaim advances the number,
\* and it requeues the task only below the cap in force.
LEMMA RowBudget ==
    ASSUME TypeOK, CapsInv, NEW t \in Tasks, HolderInv(t), HistoryInv(t), BudgetInv(t),
           RowMove(t)
    PROVE  BudgetInv(t)'
<1>0. /\ tasks[t] \in Row
      /\ tasks[t].attempt_count \in Nat
      /\ AttemptCeiling \in Nat \ {0}
  BY AttemptsAssumption DEF TypeOK, Row
<1>1. CASE /\ tasks'[t].attempt_count = tasks[t].attempt_count
           /\ tasks'[t].status = "FAILED" <=> tasks[t].status = "FAILED"
  BY <1>1 DEF BudgetInv
<1>2. CASE RowEnqueue(t)
  BY <1>0, <1>2 DEF RowEnqueue, NewRow, BudgetInv
<1>3. ASSUME NEW w \in Workers, RowFailed(t, w)
      PROVE  BudgetInv(t)'
  <2>1. /\ tasks'[t].attempt_count = tasks[t].attempt_count
        /\ tasks'[t].status = "FAILED"
    BY <1>0, <1>3 DEF RowFailed, Finished, Row
  <2> QED
    BY <2>1 DEF BudgetInv
<1>4. ASSUME NEW b \in Nat, RowReclaim(t, b)
      PROVE  BudgetInv(t)'
  <2>1. /\ tasks'[t].attempt_count = tasks[t].attempt_count + 1
        /\ tasks'[t].status # "FAILED" => ~Exhausted(t)
    BY <1>4 DEF RowReclaim, ReclaimedRow, NewRow
  <2>2. tasks[t].attempt_count < AttemptCeiling
    BY <1>4 DEF RowReclaim, Live, BudgetInv
  <2>3. max_attempts(t) \in Nat /\ max_attempts(t) <= AttemptCeiling
    <3>1. TypeOf[t] \in TaskTypes
      BY TypesAssumption
    <3>2. max_attempts(t) \in Nat
      BY PolicyValues
    <3> QED
      BY <3>1, <3>2, AttemptsAssumption DEF max_attempts, policy_value, CapsInv
  <2> QED
    BY <1>0, <2>1, <2>2, <2>3 DEF BudgetInv, Exhausted
<1>5. ASSUME NEW w \in Workers, NEW a \in Nat, RowFence(t, w, a)
      PROVE  tasks'[t] = tasks[t]
  BY <1>5 DEF RowFence, KeepRow
<1> QED
  BY <1>1, <1>2, <1>3, <1>4, <1>5, HistoryMoves


\* The inductive invariant of the queue.
IInv ==
    /\ TypeOK
    /\ CapsInv
    /\ \A t \in Tasks : /\ HolderInv(t)
                        /\ HistoryInv(t)
                        /\ FenceInv(t)
                        /\ LeaseDisciplined(t)
                        /\ RetryCoherent(t)
                        /\ BudgetInv(t)

\* IInv holds initially and every step keeps it: the row lemmas, put together.
THEOREM Inductive == Spec => []IInv
<1>1. Init => IInv
  <2> SUFFICES ASSUME Init PROVE IInv
    OBVIOUS
  <2>1. TypeOK
    BY NewRowType DEF Init, TypeOK, TASK_STATES
  <2>2. CapsInv
    BY DEF Init, CapsInv, POLICY_FIELDS
  <2> SUFFICES ASSUME NEW t \in Tasks
               PROVE  /\ HolderInv(t) /\ HistoryInv(t) /\ FenceInv(t)
                      /\ LeaseDisciplined(t) /\ RetryCoherent(t) /\ BudgetInv(t)
    BY <2>1, <2>2 DEF IInv
  <2>3. /\ tasks[t] = NewRow("ABSENT")
        /\ attempts[t] = {} /\ held[t] = {} /\ results[t] = Null
    BY DEF Init
  <2>4. HolderInv(t) /\ FenceInv(t) /\ LeaseDisciplined(t) /\ RetryCoherent(t)
    BY <2>3 DEF NewRow, HolderInv, FenceInv, LeaseDisciplined, RetryCoherent, Live
  <2>5. HistoryInv(t) /\ BudgetInv(t)
    BY <2>3, AttemptsAssumption DEF NewRow, HistoryInv, EndingRows, BudgetInv
  <2> QED
    BY <2>4, <2>5
<1>2. IInv /\ [Next]_vars => IInv'
  <2> SUFFICES ASSUME IInv, [Next]_vars PROVE IInv'
    OBVIOUS
  <2>1. TypeOK /\ CapsInv
    BY DEF IInv
  <2>2. \A t \in Tasks : RowMove(t)
    BY <2>1, StepIsRowMove
  <2>3. TypeOK'
    BY <2>1, <2>2, RowMoveType, StepKeepsTables DEF TypeOK
  <2>4. CapsInv'
    BY <2>1, CapsKept
  <2>5. ASSUME NEW t \in Tasks
        PROVE  /\ HolderInv(t)' /\ HistoryInv(t)' /\ FenceInv(t)'
               /\ LeaseDisciplined(t)' /\ RetryCoherent(t)' /\ BudgetInv(t)'
    <3>1. /\ HolderInv(t) /\ HistoryInv(t) /\ FenceInv(t)
          /\ LeaseDisciplined(t) /\ RetryCoherent(t) /\ BudgetInv(t)
      BY DEF IInv
    <3> QED
      BY <2>1, <2>2, <3>1, RowHolder, RowHistory, RowFences, RowLeases, RowRetry, RowBudget
  <2> QED
    BY <2>3, <2>4, <2>5 DEF IInv
<1> QED
  BY <1>1, <1>2, PTL DEF Spec

-----------------------------------------------------------------------------
(* What the invariant gives *)

\* The attempt number is a fencing token: no two executions of a task, on
\* whichever workers and replicas, are ever handed the same number.
THEOREM AttemptNamesOneHolderHolds == Spec => []AttemptNamesOneHolder
<1>1. IInv => AttemptNamesOneHolder
  BY DEF IInv, HolderInv, AttemptNamesOneHolder
<1> QED
  BY <1>1, Inductive, PTL

\* complete_task stores the result of the last execution handed out, or none.
THEOREM WinnerIsLatestHolderHolds == Spec => []WinnerIsLatestHolder
<1>1. IInv => WinnerIsLatestHolder
  <2> SUFFICES ASSUME IInv, NEW t \in Tasks, results[t] # Null
               PROVE  /\ tasks[t].status = "COMPLETED"
                      /\ <<results[t].worker, results[t].attempt>> \in held[t]
                      /\ \A h \in held[t] : h[2] <= results[t].attempt
    BY DEF WinnerIsLatestHolder
  <2> QED
    BY DEF IInv, HolderInv
<1> QED
  BY <1>1, Inductive, PTL

\* complete_task never answers a worker that held the task, and names the
\* attempt it was given, with NOT_OWNER or NOT_FOUND.
THEOREM HonestHolderIsNoImpostorHolds == Spec => []HonestHolderIsNoImpostor
<1>1. IInv => HonestHolderIsNoImpostor
  <2> SUFFICES ASSUME IInv, NEW t \in Tasks, NEW h \in held[t], NEW k \in Tokens
               PROVE  complete_outcome(t, h[1], h[2], k)
                         \in {"transitioned", "duplicate", "superseded", "fenced"}
    BY DEF HonestHolderIsNoImpostor
  <2>1. /\ tasks[t].status \in TASK_STATES \cup {"ABSENT"}
        /\ tasks[t].attempt_count \in Nat
        /\ h[1] \in Workers /\ h[2] \in Nat
    BY DEF IInv, TypeOK, Row
  <2>2. HolderInv(t)
    BY DEF IInv
  <2>3. tasks[t].status # "ABSENT" /\ tasks[t].status # "REASSIGNED"
    BY <2>2 DEF HolderInv
  <2>4. CASE Terminal(t)
    BY <2>3, <2>4 DEF complete_outcome, terminal_result_outcome
  <2>5. CASE ~Terminal(t) /\ h[2] = tasks[t].attempt_count
    <3>1. Live(t)
      BY <2>1, <2>2, <2>3, <2>5 DEF HolderInv, Live, Terminal, TERMINAL_STATES, TASK_STATES
    <3>2. h = <<tasks[t].assigned_worker, tasks[t].attempt_count>>
      BY <2>2, <2>5, <3>1 DEF HolderInv, Live
    <3> QED
      BY <2>3, <2>5, <3>1, <3>2 DEF complete_outcome, IsCurrentAttempt
  <2>6. CASE ~Terminal(t) /\ h[2] # tasks[t].attempt_count
    <3>1. h[2] < tasks[t].attempt_count
      BY <2>1, <2>2, <2>6 DEF HolderInv
    <3>2. ever_held(t, h[1])
      BY <2>2, <3>1 DEF HolderInv, ever_held
    <3> QED
      BY <2>3, <2>6, <3>2 DEF complete_outcome, IsCurrentAttempt
  <2> QED
    BY <2>4, <2>5, <2>6
<1> QED
  BY <1>1, Inductive, PTL

\* No execution disappears: for every number below the row's, task_attempts has
\* exactly one row saying how that attempt ended and whose it was.
THEOREM LostAttemptsRecordedHolds == Spec => []LostAttemptsRecorded
<1>1. IInv => LostAttemptsRecorded
  <2>1. 0..AttemptCeiling \subseteq Nat
    BY AttemptsAssumption
  <2> QED
    BY <2>1 DEF IInv, HistoryInv, LostAttemptsRecorded
<1> QED
  BY <1>1, Inductive, PTL

\* A task is FAILED exactly when task_attempts explains its failure.
THEOREM FailureIsExplainedHolds == Spec => []FailureIsExplained
<1>1. IInv => FailureIsExplained
  <2> SUFFICES ASSUME IInv, NEW t \in Tasks
               PROVE  tasks[t].status = "FAILED" <=>
                         \E r \in attempts[t] : r.outcome = "FAILED"
    BY DEF FailureIsExplained
  <2>1. HistoryInv(t)
    BY DEF IInv
  <2> QED
    BY <2>1 DEF HistoryInv, EndingRows
<1> QED
  BY <1>1, Inductive, PTL

\* What late submissions can make the coordinator write is bounded by the
\* attempts the task really had.
THEOREM FenceRowsBoundedHolds == Spec => []FenceRowsBounded
<1>1. IInv => FenceRowsBounded
  BY DEF IInv, FenceInv, FenceRowsBounded
<1> QED
  BY <1>1, Inductive, PTL

\* The lease, the deadline and the owner of every row agree with its status.
THEOREM LeaseDisciplineHolds == Spec => []LeaseDiscipline
<1>1. IInv => LeaseDiscipline
  BY DEF IInv, LeaseDiscipline
<1> QED
  BY <1>1, Inductive, PTL

\* The backoff and the exclusion of every row are a pair, and name the worker
\* that lost the attempt before.
THEOREM RetryStateCoherentHolds == Spec => []RetryStateCoherent
<1>1. IInv => RetryStateCoherent
  BY DEF IInv, RetryStateCoherent
<1> QED
  BY <1>1, Inductive, PTL

\* No sequence of policy changes and reclaims runs a task more often than
\* MAX_MAX_ATTEMPTS.
THEOREM AttemptBudgetHolds == Spec => []AttemptBudget
<1>1. IInv => AttemptBudget
  BY DEF IInv, BudgetInv, AttemptBudget
<1> QED
  BY <1>1, Inductive, PTL

\* No step changes a finished task: its row, its attempt history and its
\* stored result are final, but for the retention sweep.
THEOREM TerminalIsFinalHolds == Spec => TerminalIsFinal
<1> DEFINE Final(t) ==
        /\ tasks'[t] = [tasks[t] EXCEPT !.not_before = tasks'[t].not_before]
        /\ tasks'[t].not_before \in {tasks[t].not_before,
                                     Elapse(tasks[t].not_before, -ExclusionWindow)}
        /\ attempts'[t] = attempts[t]
        /\ held'[t] = held[t]
        /\ results'[t] # Null =>
              /\ results[t] # Null
              /\ results'[t].token = results[t].token
              /\ results'[t].attempt = results[t].attempt
<1>1. ASSUME IInv, [Next]_vars, NEW t \in Tasks, Terminal(t)
      PROVE  Final(t)
  <2>1. /\ tasks[t] \in Row
        /\ results[t] \in Result \cup {Null}
        /\ RowMove(t)
    BY <1>1, StepIsRowMove DEF IInv, TypeOK
  <2>2. ~Live(t) /\ tasks[t].status \notin {"ABSENT", "QUEUED", "ASSIGNED", "RUNNING"}
    BY <1>1 DEF Terminal, TERMINAL_STATES, Live
  <2>3. tasks[t].lease = Null /\ tasks[t].deadline = Null
    BY <1>1, <2>2 DEF IInv, LeaseDisciplined
  <2>4. CASE KeepRow(t) /\ KeepHistory(t) /\ (KeepResult(t) \/ results'[t] = Null)
    BY <2>1, <2>4 DEF KeepRow, KeepHistory, KeepResult, Row
  <2>5. CASE RowTick(t)
    <3>1. tasks'[t] = [tasks[t] EXCEPT !.not_before =
                          Elapse(tasks[t].not_before, -ExclusionWindow)]
      BY <2>1, <2>3, <2>5 DEF RowTick, Elapse, Row
    <3>2. results'[t] # Null => /\ results[t] # Null
                                /\ results'[t].token = results[t].token
                                /\ results'[t].attempt = results[t].attempt
      BY <2>1, <2>5 DEF RowTick, Result
    <3> QED
      BY <2>1, <2>5, <3>1, <3>2 DEF RowTick, KeepHistory, Row
  <2>6. \/ KeepRow(t) /\ KeepHistory(t) /\ (KeepResult(t) \/ results'[t] = Null)
        \/ RowTick(t)
    BY <1>1, <2>1, <2>2
       DEF RowMove, RowEnqueue, RowDequeue, RowRunning, RowLease, RowFailed, RowComplete,
           RowFence, RowReclaim, RowCancel, RowPurge, Terminal, TERMINAL_STATES
  <2> QED
    BY <2>4, <2>5, <2>6
<1>2. IInv /\ [Next]_vars => [\A t \in Tasks : Terminal(t) => Final(t)]_vars
  BY <1>1
<1> QED
  BY <1>2, Inductive, PTL DEF Spec, TerminalIsFinal

\* The raw SQL of the claim, the reclaimer, the completion and the cancellation
\* writes no status the state machine of task_states would refuse.
THEOREM StatusMovesAreLegalHolds == Spec => StatusMovesAreLegal
<1> DEFINE Legal(t) ==
        LET old == tasks[t].status
            new == tasks'[t].status
        IN  new # old =>
               \/ old = "ABSENT" /\ new = "QUEUED"
               \/ old # "ABSENT" /\ new \in Allowed[old]
               \/ old = "ASSIGNED" /\ new = "COMPLETED"
<1>1. ASSUME IInv, [Next]_vars, NEW t \in Tasks
      PROVE  Legal(t)
  <2>0. /\ tasks[t] \in Row
        /\ RowMove(t)
    BY <1>1, StepIsRowMove DEF IInv, TypeOK
  <2>1. \/ tasks'[t].status = tasks[t].status
        \/ tasks[t].status = "ABSENT" /\ tasks'[t].status = "QUEUED"
        \/ tasks[t].status = "QUEUED" /\ tasks'[t].status \in {"ASSIGNED", "CANCELLED"}
        \/ tasks[t].status = "ASSIGNED" /\ tasks'[t].status = "RUNNING"
        \/ Live(t) /\ tasks'[t].status \in {"FAILED", "COMPLETED", "QUEUED"}
    <3>1. RowEnqueue(t) => tasks[t].status = "ABSENT" /\ tasks'[t].status = "QUEUED"
      BY DEF RowEnqueue, NewRow
    <3>2. RowRunning(t) => tasks[t].status = "ASSIGNED" /\ tasks'[t].status = "RUNNING"
      BY <2>0 DEF RowRunning, Row
    <3>3. ASSUME NEW w \in Workers, RowDequeue(t, w)
          PROVE  tasks[t].status = "QUEUED" /\ tasks'[t].status = "ASSIGNED"
      BY <2>0, <3>3 DEF RowDequeue, ClaimedRow, Row
    <3>4. ASSUME NEW w \in Workers, RowFailed(t, w)
          PROVE  Live(t) /\ tasks'[t].status = "FAILED"
      BY <2>0, <3>4 DEF RowFailed, Finished, Row
    <3>5. ASSUME NEW w \in Workers, NEW k \in Tokens, RowComplete(t, w, k)
          PROVE  Live(t) /\ tasks'[t].status = "COMPLETED"
      BY <2>0, <3>5 DEF RowComplete, Finished, Row
    <3>6. ASSUME NEW w \in Workers, NEW a \in Nat, RowFence(t, w, a)
          PROVE  tasks'[t].status = tasks[t].status
      BY <3>6 DEF RowFence, KeepRow
    <3>7. ASSUME NEW b \in Nat, RowReclaim(t, b)
          PROVE  Live(t) /\ tasks'[t].status \in {"FAILED", "QUEUED"}
      BY <3>7 DEF RowReclaim, ReclaimedRow, NewRow
    <3>8. RowCancel(t) => tasks[t].status = "QUEUED" /\ tasks'[t].status = "CANCELLED"
      BY <2>0 DEF RowCancel, Row
    <3>9. RowLease(t) => tasks'[t].status = tasks[t].status
      BY <2>0 DEF RowLease, Row
    <3>10. RowPurge(t) \/ RowTick(t) => tasks'[t].status = tasks[t].status
      BY <2>0 DEF RowPurge, KeepRow, RowTick, Row
    <3> QED
      BY <2>0, <3>1, <3>2, <3>3, <3>4, <3>5, <3>6, <3>7, <3>8, <3>9, <3>10 DEF RowMove, KeepRow
  <2>2. /\ Allowed["QUEUED"] = {"ASSIGNED", "CANCELLED"}
        /\ "RUNNING" \in Allowed["ASSIGNED"]
        /\ {"FAILED", "QUEUED"} \subseteq Allowed["ASSIGNED"]
        /\ {"FAILED", "COMPLETED", "QUEUED"} \subseteq Allowed["RUNNING"]
    BY DEF Allowed
  <2> QED
    BY <2>1, <2>2 DEF Live
<1>2. IInv /\ [Next]_vars => [\A t \in Tasks : Legal(t)]_vars
  BY <1>1
<1> QED
  BY <1>2, Inductive, PTL DEF Spec, StatusMovesAreLegal

-----------------------------------------------------------------------------
(* The refinement *)

\* Seen through AbstractRow, a well-typed row is a state of TaskLifecycle.
LEMMA AbstractRowType ==
    ASSUME NEW row \in Row
    PROVE  AbstractRow(row) \in Lifecycle!State
BY DEF AbstractRow, Row, Lifecycle!State, TASK_STATES

\* Seen through AbstractRow, a row move is a step of TaskLifecycle or nothing.
LEMMA RowMoveIsStep ==
    ASSUME IInv, NEW t \in Tasks, RowMove(t)
    PROVE  LET old == AbstractRow(tasks[t])
               new == AbstractRow(tasks'[t])
           IN  Lifecycle!Step(old, new) \/ new = old
<1> DEFINE old == AbstractRow(tasks[t])
           new == AbstractRow(tasks'[t])
<1> SUFFICES Lifecycle!Step(old, new) \/ new = old
  OBVIOUS
<1>0. tasks[t] \in Row
  BY DEF IInv, TypeOK
<1>1. CASE KeepRow(t)
  BY <1>1 DEF KeepRow
<1>2. CASE RowEnqueue(t)
  <2>0. tasks[t].attempt_count = 0
    <3>1. held[t] = {}
      BY <1>2 DEF IInv, HolderInv, RowEnqueue
    <3>2. ~(0 < tasks[t].attempt_count)
      BY <3>1 DEF IInv, HistoryInv
    <3> QED
      BY <1>0, <3>2 DEF Row
  <2>1. /\ old = [phase |-> "unborn", holder |-> Null, number |-> 0]
        /\ new = [phase |-> "waiting", holder |-> Null, number |-> 0]
    BY <1>2, <2>0 DEF RowEnqueue, AbstractRow, NewRow
  <2> QED
    BY <2>1 DEF Lifecycle!Step, Lifecycle!Submit
<1>3. ASSUME NEW w \in Workers, RowDequeue(t, w)
      PROVE  Lifecycle!Take(old, new)
  <2>1. old = [phase |-> "waiting", holder |-> Null, number |-> tasks[t].attempt_count]
    BY <1>3 DEF RowDequeue, AbstractRow
  <2>2. new = [phase |-> "held", holder |-> w, number |-> tasks[t].attempt_count]
    BY <1>0, <1>3 DEF RowDequeue, AbstractRow, ClaimedRow, Row
  <2> QED
    BY <1>3, <2>1, <2>2 DEF Lifecycle!Take
<1>4. CASE RowRunning(t)
  BY <1>0, <1>4 DEF RowRunning, AbstractRow, Row
<1>5. CASE RowLease(t)
  BY <1>0, <1>5 DEF RowLease, AbstractRow, Row
<1>6. Live(t) => old = [phase |-> "held", holder |-> tasks[t].assigned_worker,
                        number |-> tasks[t].attempt_count]
  BY DEF Live, AbstractRow
<1>7. ASSUME NEW w \in Workers, RowFailed(t, w)
      PROVE  Lifecycle!GiveUp(old, new)
  <2>1. new = [phase |-> "lost", holder |-> Null, number |-> tasks[t].attempt_count]
    BY <1>0, <1>7 DEF RowFailed, AbstractRow, Finished, Row
  <2> QED
    BY <1>6, <1>7, <2>1 DEF RowFailed, Lifecycle!GiveUp
<1>8. ASSUME NEW w \in Workers, NEW k \in Tokens, RowComplete(t, w, k)
      PROVE  Lifecycle!Win(old, new)
  <2>1. new = [phase |-> "won", holder |-> tasks[t].assigned_worker,
               number |-> tasks[t].attempt_count]
    BY <1>0, <1>8 DEF RowComplete, AbstractRow, Finished, Row
  <2> QED
    BY <1>6, <1>8, <2>1 DEF RowComplete, Lifecycle!Win
<1>9. ASSUME NEW w \in Workers, NEW a \in Nat, RowFence(t, w, a)
      PROVE  new = old
  BY <1>9 DEF RowFence, KeepRow
<1>10. ASSUME NEW b \in Nat, RowReclaim(t, b)
       PROVE  Lifecycle!Expire(old, new)
  <2>1. \E p \in {"waiting", "lost"} :
           new = [phase |-> p, holder |-> Null, number |-> tasks[t].attempt_count + 1]
    BY <1>10 DEF RowReclaim, ReclaimedRow, AbstractRow, NewRow
  <2> QED
    BY <1>6, <1>10, <2>1 DEF RowReclaim, Lifecycle!Expire
<1>11. CASE RowCancel(t)
  <2>1. /\ old = [phase |-> "waiting", holder |-> Null, number |-> tasks[t].attempt_count]
        /\ new = [phase |-> "lost", holder |-> Null, number |-> tasks[t].attempt_count]
    BY <1>0, <1>11 DEF RowCancel, AbstractRow, Row
  <2> QED
    BY <2>1 DEF Lifecycle!Step, Lifecycle!GiveUp
<1>12. CASE RowPurge(t)
  BY <1>12 DEF RowPurge, KeepRow
<1>13. CASE RowTick(t)
  BY <1>0, <1>13 DEF RowTick, AbstractRow, Row
<1> QED
  BY <1>1, <1>2, <1>3, <1>4, <1>5, <1>7, <1>8, <1>9, <1>10, <1>11, <1>12, <1>13
     DEF RowMove, Lifecycle!Step

\* The queue is an implementation of TaskLifecycle, for any number of tasks and
\* workers: whatever the timers, policies, fences and batch statements do, a
\* task is held by one worker at a time, under a number never handed out before.
THEOREM ImplementsLifecycleHolds == Spec => ImplementsLifecycle
<1>1. Init => Lifecycle!Init
  <2> SUFFICES ASSUME Init
               PROVE  AbstractTask = [t \in Tasks |-> Lifecycle!Unborn]
    BY DEF Lifecycle!Init
  <2>1. ASSUME NEW t \in Tasks
        PROVE  AbstractRow(tasks[t]) = Lifecycle!Unborn
    BY DEF Init, AbstractRow, NewRow, Lifecycle!Unborn
  <2> QED
    BY <2>1 DEF AbstractTask
<1>2. IInv /\ IInv' /\ [Next]_vars => [Lifecycle!Next]_AbstractTask
  <2> SUFFICES ASSUME IInv, IInv', [Next]_vars
               PROVE  Lifecycle!Next
    OBVIOUS
  <2>1. AbstractTask' \in [Tasks -> Lifecycle!State]
    <3>1. ASSUME NEW t \in Tasks
          PROVE  AbstractRow(tasks'[t]) \in Lifecycle!State
      BY AbstractRowType DEF IInv, TypeOK
    <3> QED
      BY <3>1 DEF AbstractTask
  <2>2. ASSUME NEW t \in Tasks
        PROVE  Lifecycle!Step(AbstractTask[t], AbstractTask'[t])
                  \/ AbstractTask'[t] = AbstractTask[t]
    <3>1. RowMove(t)
      BY StepIsRowMove DEF IInv
    <3>2. LET old == AbstractRow(tasks[t])
              new == AbstractRow(tasks'[t])
          IN  Lifecycle!Step(old, new) \/ new = old
      BY <3>1, RowMoveIsStep
    <3> QED
      BY <3>2 DEF AbstractTask
  <2> QED
    BY <2>1, <2>2 DEF Lifecycle!Next
<1> QED
  BY <1>1, <1>2, Inductive, PTL DEF Spec, ImplementsLifecycle, Lifecycle!Spec

=============================================================================
