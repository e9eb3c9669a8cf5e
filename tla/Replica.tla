------------------------------ MODULE Replica -------------------------------
(***************************************************************************)
(* The coordinator processes around the queue: on every replica one        *)
(* assignment engine serves all the sockets the replica holds, woken by a  *)
(* doorbell that other replicas ring through Redis and, failing that, by a *)
(* slow poll; a reclaim loop rings it when it has requeued work; and a     *)
(* signal drains the process before uvicorn closes its sockets.            *)
(* What a task or a session is in detail is left to TaskQueue and          *)
(* Delivery.                                                               *)
(***************************************************************************)
EXTENDS Naturals, FiniteSets, FiniteSetsExt

CONSTANTS
    Replicas, Workers, Tasks,
    Sessions,           \* LocalSession objects, each used once
    WorkerOf,           \* the worker behind each session
    Supported,          \* the tasks whose type each session's hello declared
    MaxConcurrent,      \* slots each session's worker declares in hello
    DequeueMaxBatch,    \* task_dequeue_max_batch()
    MaxAttempts,        \* task_max_attempts()
    DrainWindow,        \* SHUTDOWN_DRAIN_SECONDS, 0 for none
    Events,             \* what may happen: "signal", "restart", "reclaim", "hangup"
    MaxFaults,          \* bound on crashes, failing database or Redis calls, refusals
                        \* and hang-ups together
    None

ASSUME ReplicaConstants ==
    /\ IsFiniteSet(Tasks)
    /\ WorkerOf \in [Sessions -> Workers]
    /\ Supported \in [Sessions -> SUBSET Tasks]
    /\ DequeueMaxBatch \in Nat \ {0}
    /\ MaxAttempts \in Nat \ {0} /\ DrainWindow \in Nat /\ MaxFaults \in Nat
    /\ Events \subseteq {"signal", "restart", "reclaim", "hangup"}
    /\ None \notin Replicas \cup Workers \cup Sessions

ASSUME SlotsAssumption == MaxConcurrent \in [Sessions -> Nat \ {0}]

VARIABLES
    (* Postgres *)
    row,        \* the status of each task
    owner,      \* assigned_worker_id
    held,       \* tasks whose not_before lies in the future
    excluded,   \* excluded_worker_id while its window lasts
    attempt,    \* attempt_count
    lock,       \* the replica whose open transaction has locked the row
    (* the sessions of all replicas *)
    stage, at,  \* "new", "open" or "closed"; the replica that holds the socket
    credited, pending, saturated,
    executing,  \* what the worker acknowledged and has not ended
    (* each coordinator process *)
    proc,       \* "up", "draining", "exiting" or "down"
    draining,   \* _draining
    bell,       \* _work_available
    engine,     \* where assignment_loop is
    todo, cur, batch, got,  \* the locals of assign_once
    listener,   \* notification_listener
    announce,   \* enqueued and committed by a request that has not published yet
    requeued,   \* reclaimed and committed by a pass that has not rung yet
    wakes,      \* _retry_wakes: the reclaimed rows each sleeping wake-up is for
    faults,
    (* history *)
    lost,       \* a ring this replica needed did not reach it since its last pass
    late        \* claims made for each session after its replica began to drain

rowVars == <<row, owner, held, excluded, attempt, lock>>
sessionVars == <<stage, at, credited, pending, saturated, executing>>
passVars == <<engine, todo, cur, batch, got>>
tailVars == <<announce, requeued, wakes>>
lifeVars == <<proc, draining>>
vars == <<rowVars, sessionVars, passVars, listener, tailVars, lifeVars,
          bell, faults, lost, late>>

TypeOK ==
    /\ row \in [Tasks -> {"absent", "queued", "assigned", "done", "failed"}]
    /\ owner \in [Tasks -> Workers \cup {None}]
    /\ held \subseteq Tasks
    /\ excluded \in [Tasks -> Workers \cup {None}]
    /\ attempt \in [Tasks -> 0..MaxAttempts]
    /\ lock \in [Tasks -> Replicas \cup {None}]
    /\ stage \in [Sessions -> {"new", "open", "closed"}]
    /\ at \in [Sessions -> Replicas \cup {None}]
    /\ credited \in [Sessions -> SUBSET Tasks]
    /\ pending \in [Sessions -> SUBSET Tasks]
    /\ saturated \in [Sessions -> BOOLEAN]
    /\ executing \in [Sessions -> SUBSET Tasks]
    /\ proc \in [Replicas -> {"up", "draining", "exiting", "down"}]
    /\ draining \in [Replicas -> BOOLEAN]
    /\ bell \in [Replicas -> BOOLEAN]
    /\ engine \in [Replicas -> {"waiting", "counting", "passing", "backoff", "stopped"}]
    /\ todo \in [Replicas -> SUBSET Sessions]
    /\ cur \in [Replicas -> Sessions \cup {None}]
    /\ batch \in [Replicas -> SUBSET Tasks]
    /\ got \in [Replicas -> BOOLEAN]
    /\ listener \in [Replicas -> {"subscribed", "off"}]
    /\ announce \in [Replicas -> SUBSET Tasks]
    /\ requeued \in [Replicas -> SUBSET Tasks]
    /\ wakes \in [Replicas -> SUBSET (SUBSET Tasks)]
    /\ faults \in 0..MaxFaults
    /\ lost \in [Replicas -> BOOLEAN]
    /\ late \in [Sessions -> Nat]

\* Every replica is up and idle, nobody is connected, nothing has been enqueued.
Init ==
    /\ row = [t \in Tasks |-> "absent"]
    /\ owner = [t \in Tasks |-> None]
    /\ held = {}
    /\ excluded = [t \in Tasks |-> None]
    /\ attempt = [t \in Tasks |-> 0]
    /\ lock = [t \in Tasks |-> None]
    /\ stage = [s \in Sessions |-> "new"]
    /\ at = [s \in Sessions |-> None]
    /\ credited = [s \in Sessions |-> {}]
    /\ pending = [s \in Sessions |-> {}]
    /\ saturated = [s \in Sessions |-> FALSE]
    /\ executing = [s \in Sessions |-> {}]
    /\ proc = [r \in Replicas |-> "up"]
    /\ draining = [r \in Replicas |-> FALSE]
    /\ bell = [r \in Replicas |-> FALSE]
    /\ engine = [r \in Replicas |-> "waiting"]
    /\ todo = [r \in Replicas |-> {}]
    /\ cur = [r \in Replicas |-> None]
    /\ batch = [r \in Replicas |-> {}]
    /\ got = [r \in Replicas |-> FALSE]
    /\ listener = [r \in Replicas |-> "off"]
    /\ announce = [r \in Replicas |-> {}]
    /\ requeued = [r \in Replicas |-> {}]
    /\ wakes = [r \in Replicas |-> {}]
    /\ faults = 0
    /\ lost = [r \in Replicas |-> FALSE]
    /\ late = [s \in Sessions |-> 0]

-----------------------------------------------------------------------------
(* What the replica reads *)

\* _local_sessions
Local(r) == {s \in Sessions : stage[s] = "open" /\ at[s] = r}

\* LocalSession.free_credits
FreeCredits(s) ==
    IF saturated[s] \/ Cardinality(credited[s]) >= MaxConcurrent[s]
    THEN 0
    ELSE MaxConcurrent[s] - Cardinality(credited[s])

Candidates(r) == {s \in Local(r) : FreeCredits(s) > 0 /\ Supported[s] # {}}

\* _ELIGIBLE with the type filter
Eligible(s, t) ==
    /\ row[t] = "queued" /\ t \in Supported[s]
    /\ t \notin held
    /\ excluded[t] # WorkerOf[s]

Alive(r) == proc[r] # "down"

\* GET /ready; its dependency checks are taken to succeed
Ready(r) == Alive(r) /\ ~draining[r]

-----------------------------------------------------------------------------
(* The doorbell *)

\* PUBLISH reaches the replicas subscribed at that moment, whose listeners ring. A
\* failing publish is logged and swallowed. `here` has rung its own bell first.
notify_work_available(here) ==
    \/ /\ bell' = [r \in Replicas |-> bell[r] \/ r \in here \/ listener[r] = "subscribed"]
       /\ lost' = [r \in Replicas |-> lost[r] \/ ~bell'[r]]
       /\ UNCHANGED faults
    \/ /\ faults < MaxFaults /\ faults' = faults + 1
       /\ bell' = [r \in Replicas |-> bell[r] \/ r \in here]
       /\ lost' = [r \in Replicas |-> lost[r] \/ ~bell'[r]]

Subscribe(r) ==
    /\ Alive(r) /\ listener[r] = "off"
    /\ listener' = [listener EXCEPT ![r] = "subscribed"]
    /\ UNCHANGED <<rowVars, sessionVars, passVars, tailVars, lifeVars, bell, faults, lost,
                   late>>

\* The subscription drops; a message Redis had sent on it is as good as one sent after.
ListenerDrops(r) ==
    /\ listener[r] = "subscribed" /\ faults < MaxFaults
    /\ faults' = faults + 1
    /\ listener' = [listener EXCEPT ![r] = "off"]
    /\ UNCHANGED <<rowVars, sessionVars, passVars, tailVars, lifeVars, bell, lost, late>>

\* POST /tasks, up to its commit; the publication follows in the same request.
Enqueue(r, t) ==
    /\ proc[r] \in {"up", "draining"} /\ row[t] = "absent"
    /\ row' = [row EXCEPT ![t] = "queued"]
    /\ announce' = [announce EXCEPT ![r] = @ \cup {t}]
    /\ UNCHANGED <<owner, held, excluded, attempt, lock, sessionVars, passVars, listener,
                   requeued, wakes, lifeVars, bell, faults, lost, late>>

Announce(r, t) ==
    /\ t \in announce[r]
    /\ announce' = [announce EXCEPT ![r] = @ \ {t}]
    /\ notify_work_available({})
    /\ UNCHANGED <<rowVars, sessionVars, passVars, listener, requeued, wakes, lifeVars, late>>

-----------------------------------------------------------------------------
(* assignment_loop and assign_once *)

\* A drain flag that only the wake-up tests, not the passes that follow it.
BeginPassUnguarded(r) ==
    /\ IF Candidates(r) = {}
       THEN /\ engine' = [engine EXCEPT ![r] = "waiting"]
            /\ UNCHANGED todo
       ELSE /\ engine' = [engine EXCEPT ![r] = "counting"]
            /\ todo' = [todo EXCEPT ![r] = Candidates(r)]
    /\ lost' = [lost EXCEPT ![r] = @ /\ draining[r]]
    /\ got' = [got EXCEPT ![r] = FALSE]

\* assign_once up to its first await.
BeginPass(r) ==
    /\ IF draining[r] \/ Candidates(r) = {}
       THEN /\ engine' = [engine EXCEPT ![r] = "waiting"]
            /\ UNCHANGED todo
       ELSE /\ engine' = [engine EXCEPT ![r] = "counting"]
            /\ todo' = [todo EXCEPT ![r] = Candidates(r)]
    /\ lost' = [lost EXCEPT ![r] = @ /\ draining[r]]
    /\ got' = [got EXCEPT ![r] = FALSE]

\* A loop without the safety-net poll.
WakeUpByBell(r) ==
    /\ engine[r] = "waiting" /\ bell[r]
    /\ bell' = [bell EXCEPT ![r] = FALSE]
    /\ BeginPass(r)
    /\ UNCHANGED <<rowVars, sessionVars, cur, batch, listener, tailVars, lifeVars, faults,
                   late>>

\* The loop wakes by the doorbell or by its poll, clears the doorbell and looks.
WakeUp(r) ==
    /\ engine[r] = "waiting"
    /\ bell' = [bell EXCEPT ![r] = FALSE]
    /\ BeginPass(r)
    /\ UNCHANGED <<rowVars, sessionVars, cur, batch, listener, tailVars, lifeVars, faults,
                   late>>

\* queue_depth, once per pass
CountQueue(r) ==
    /\ engine[r] = "counting"
    /\ IF \A t \in Tasks : row[t] # "queued"
       THEN /\ engine' = [engine EXCEPT ![r] = "waiting"]
            /\ todo' = [todo EXCEPT ![r] = {}]
       ELSE /\ engine' = [engine EXCEPT ![r] = "passing"]
            /\ UNCHANGED todo
    /\ UNCHANGED <<rowVars, sessionVars, cur, batch, got, listener, tailVars, lifeVars,
                   bell, faults, lost, late>>

\* The credits are read again at the session's turn; the claim locks its rows and skips
\* those another replica has locked.
Dequeue(r, s) ==
    LET limit == Min({FreeCredits(s), DequeueMaxBatch})
        free == {t \in Tasks : Eligible(s, t) /\ lock[t] = None}
    IN /\ engine[r] = "passing" /\ cur[r] = None /\ s \in todo[r]
       /\ limit > 0
       /\ todo' = [todo EXCEPT ![r] = @ \ {s}]
       /\ \E B \in kSubset(Min({limit, Cardinality(free)}), free) :
             /\ lock' = [t \in Tasks |-> IF t \in B THEN r ELSE lock[t]]
             /\ batch' = [batch EXCEPT ![r] = B]
             /\ cur' = [cur EXCEPT ![r] = IF B = {} THEN None ELSE s]
       /\ UNCHANGED <<row, owner, held, excluded, attempt, sessionVars, engine, got,
                      listener, tailVars, lifeVars, bell, faults, lost, late>>

\* The locks of a transaction that is rolled back.
Unlocked(r) == [t \in Tasks |-> IF lock[t] = r THEN None ELSE lock[t]]

\* A pass that raises is logged; the loop sleeps and waits for the next ring. Rows it
\* had locked may have been skipped by others.
Abandoned(r) ==
    /\ engine' = [engine EXCEPT ![r] = "backoff"]
    /\ todo' = [todo EXCEPT ![r] = {}]
    /\ cur' = [cur EXCEPT ![r] = None]
    /\ batch' = [batch EXCEPT ![r] = {}]
    /\ got' = [got EXCEPT ![r] = FALSE]
    /\ lock' = Unlocked(r)
    /\ lost' = [q \in Replicas |-> lost[q] \/ q = r \/ lock # Unlocked(r)]
    /\ UNCHANGED <<row, owner, held, excluded, attempt, sessionVars, listener, tailVars,
                   lifeVars, bell, late>>

\* By a candidate's turn its credits may be gone: dequeue refuses a limit of zero.
LimitRaises(r) ==
    /\ engine[r] = "passing" /\ cur[r] = None
    /\ \E s \in todo[r] : FreeCredits(s) = 0
    /\ Abandoned(r)
    /\ UNCHANGED faults

\* The database fails while the pass waits for it.
DatabaseRaises(r) ==
    /\ faults < MaxFaults /\ faults' = faults + 1
    /\ \/ engine[r] = "counting"
       \/ engine[r] = "passing" /\ cur[r] = None /\ todo[r] # {}
       \/ engine[r] = "passing" /\ \E t \in batch[r] : lock[t] = r
    /\ Abandoned(r)

Retry(r) ==
    /\ engine[r] = "backoff"
    /\ engine' = [engine EXCEPT ![r] = "waiting"]
    /\ UNCHANGED <<rowVars, sessionVars, todo, cur, batch, got, listener, tailVars,
                   lifeVars, bell, faults, lost, late>>

CommitClaim(r) ==
    /\ engine[r] = "passing" /\ \E t \in batch[r] : lock[t] = r
    /\ row' = [t \in Tasks |-> IF t \in batch[r] THEN "assigned" ELSE row[t]]
    /\ owner' = [t \in Tasks |-> IF t \in batch[r] THEN WorkerOf[cur[r]] ELSE owner[t]]
    /\ lock' = Unlocked(r)
    /\ late' = [late EXCEPT ![cur[r]] = IF draining[r] THEN @ + 1 ELSE @]
    /\ UNCHANGED <<held, excluded, attempt, sessionVars, passVars, listener, tailVars,
                   lifeVars, bell, faults, lost>>

\* _deliver: a session that has ended meanwhile gets nothing, and the rows stay claimed.
Deliver(r, t) ==
    LET s == cur[r]
        sent == stage[s] = "open"
    IN /\ engine[r] = "passing" /\ t \in batch[r] /\ lock[t] # r
       /\ batch' = [batch EXCEPT ![r] = @ \ {t}]
       /\ cur' = [cur EXCEPT ![r] = IF batch[r] = {t} THEN None ELSE @]
       /\ got' = [got EXCEPT ![r] = @ \/ sent]
       /\ pending' = [pending EXCEPT ![s] = IF sent THEN @ \cup {t} ELSE @]
       /\ credited' = [credited EXCEPT ![s] = IF sent THEN @ \cup {t} ELSE @]
       /\ UNCHANGED <<rowVars, stage, at, saturated, executing, engine, todo, listener,
                      tailVars, lifeVars, bell, faults, lost, late>>

\* A loop that clears the doorbell after the pass.
EndPassClearing(r) ==
    /\ engine[r] = "passing" /\ todo[r] = {} /\ cur[r] = None
    /\ bell' = [bell EXCEPT ![r] = FALSE]
    /\ IF got[r]
       THEN BeginPass(r)
       ELSE /\ engine' = [engine EXCEPT ![r] = "waiting"]
            /\ UNCHANGED <<todo, got, lost>>
    /\ UNCHANGED <<rowVars, sessionVars, cur, batch, listener, tailVars, lifeVars, faults,
                   late>>

\* A pass that delivered something is followed by another one, otherwise the loop waits.
EndPass(r) ==
    /\ engine[r] = "passing" /\ todo[r] = {} /\ cur[r] = None
    /\ IF got[r]
       THEN BeginPass(r)
       ELSE /\ engine' = [engine EXCEPT ![r] = "waiting"]
            /\ UNCHANGED <<todo, got, lost>>
    /\ UNCHANGED <<rowVars, sessionVars, cur, batch, listener, tailVars, lifeVars, bell,
                   faults, late>>

-----------------------------------------------------------------------------
(* Sessions *)

\* register_session, on a replica that still accepts connections.
Connect(s, r) ==
    /\ stage[s] = "new" /\ proc[r] \in {"up", "draining"}
    /\ \A o \in Sessions : WorkerOf[o] = WorkerOf[s] => stage[o] # "open"
    /\ stage' = [stage EXCEPT ![s] = "open"]
    /\ at' = [at EXCEPT ![s] = r]
    /\ bell' = [bell EXCEPT ![r] = TRUE]
    /\ UNCHANGED <<rowVars, credited, pending, saturated, executing, passVars, listener,
                   tailVars, lifeVars, faults, lost, late>>

\* unregister_session. Only a pass under way still refers to the session object.
Closed(S) ==
    LET kept == {s \in Sessions : \E r \in Replicas : s \in todo[r] \cup {cur[r]}}
    IN /\ stage' = [s \in Sessions |-> IF s \in S THEN "closed" ELSE stage[s]]
       /\ at' = [s \in Sessions |-> IF s \in S THEN None ELSE at[s]]
       /\ executing' = [s \in Sessions |-> IF s \in S THEN {} ELSE executing[s]]
       /\ pending' = [s \in Sessions |-> IF s \in S THEN {} ELSE pending[s]]
       /\ credited' = [s \in Sessions |-> IF s \in S \ kept THEN {} ELSE credited[s]]
       /\ saturated' = [s \in Sessions |-> saturated[s] /\ s \notin S \ kept]

\* ws_connect ends with its socket, which closes by itself or because uvicorn shuts down.
SessionEnds(s) ==
    /\ stage[s] = "open"
    /\ Closed({s})
    /\ UNCHANGED <<rowVars, passVars, listener, tailVars, lifeVars, bell, lost, late>>

HangUp(s) ==
    /\ "hangup" \in Events
    /\ faults < MaxFaults /\ faults' = faults + 1
    /\ SessionEnds(s)

CloseSocket(r) ==
    /\ proc[r] = "exiting"
    /\ \E s \in Local(r) : SessionEnds(s)
    /\ UNCHANGED faults

\* task_ack, accepted
AcceptTask(s, t) ==
    /\ stage[s] = "open" /\ t \in pending[s]
    /\ pending' = [pending EXCEPT ![s] = @ \ {t}]
    /\ executing' = [executing EXCEPT ![s] = @ \cup {t}]
    /\ UNCHANGED <<rowVars, stage, at, credited, saturated, passVars, listener, tailVars,
                   lifeVars, bell, faults, lost, late>>

\* task_ack, refused at capacity: the session is closed to work and nobody is woken.
\* A refused type, whose credit comes back at once, is HandleTaskAck of Delivery.
RefuseTask(s, t) ==
    /\ stage[s] = "open" /\ t \in pending[s]
    /\ faults < MaxFaults /\ faults' = faults + 1
    /\ pending' = [pending EXCEPT ![s] = @ \ {t}]
    /\ saturated' = [saturated EXCEPT ![s] = TRUE]
    /\ UNCHANGED <<rowVars, stage, at, credited, executing, passVars, listener, tailVars,
                   lifeVars, bell, lost, late>>

\* task_result or task_failed: the row ends if it is still this worker's, the credit
\* comes back either way, and the engine is woken.
TaskEnds(s, t) ==
    /\ stage[s] = "open" /\ t \in executing[s]
    /\ executing' = [executing EXCEPT ![s] = @ \ {t}]
    /\ row' = [row EXCEPT ![t] =
                 IF @ = "assigned" /\ owner[t] = WorkerOf[s] THEN "done" ELSE @]
    /\ excluded' = [excluded EXCEPT ![t] = IF row'[t] = "done" THEN None ELSE @]
    /\ credited' = [credited EXCEPT ![s] = @ \ {t}]
    /\ saturated' = [saturated EXCEPT ![s] = FALSE]
    /\ bell' = [bell EXCEPT ![at[s]] = TRUE]
    /\ UNCHANGED <<owner, held, attempt, lock, stage, at, pending, passVars,
                   listener, tailVars, lifeVars, faults, lost, late>>

\* capacity for an execution declared in hello: it reopens a saturated session.
CapacityFreed(s) ==
    /\ stage[s] = "open" /\ saturated[s]
    /\ saturated' = [saturated EXCEPT ![s] = FALSE]
    /\ bell' = [bell EXCEPT ![at[s]] = TRUE]
    /\ UNCHANGED <<rowVars, stage, at, credited, pending, executing, passVars, listener,
                   tailVars, lifeVars, faults, lost, late>>

-----------------------------------------------------------------------------
(* The reclaim loop and its wake-ups *)

\* A cap that lets one attempt too many through.
ExhaustedLate(t) == attempt[t] + 1 > MaxAttempts

Exhausted(t) == attempt[t] + 1 >= MaxAttempts

\* A pass of reclaim_once up to its commit. A lease may lapse at any time.
Reclaim(r, S) ==
    LET again == {t \in S : ~Exhausted(t)}
    IN /\ Alive(r) /\ "reclaim" \in Events
       /\ requeued[r] = {} /\ S # {} /\ \A t \in S : row[t] = "assigned"
       /\ row' = [t \in Tasks |-> IF t \in again THEN "queued"
                                  ELSE IF t \in S THEN "failed" ELSE row[t]]
       /\ owner' = [t \in Tasks |-> IF t \in S THEN None ELSE owner[t]]
       /\ excluded' = [t \in Tasks |-> IF t \in again THEN owner[t]
                                       ELSE IF t \in S THEN None ELSE excluded[t]]
       /\ held' = (held \ S) \cup again
       /\ attempt' = [t \in Tasks |-> IF t \in S THEN attempt[t] + 1 ELSE attempt[t]]
       /\ requeued' = [requeued EXCEPT ![r] = S]
       /\ UNCHANGED <<lock, sessionVars, passVars, listener, announce, wakes, lifeVars,
                      bell, faults, lost, late>>

\* One wake-up per pass, for the earliest row it requeued; none if that one is eligible
\* already, since the doorbell just rung is enough for it.
RetryWake(S) ==
    LET R == {t \in S : row[t] # "failed"}
    IN IF R # {} /\ R \subseteq held THEN {R} ELSE {}

RingReclaimed(r) ==
    /\ requeued[r] # {}
    /\ notify_work_available({r})
    /\ wakes' = [wakes EXCEPT ![r] = @ \cup RetryWake(requeued[r])]
    /\ requeued' = [requeued EXCEPT ![r] = {}]
    /\ UNCHANGED <<rowVars, sessionVars, passVars, listener, announce, lifeVars, late>>

FireWake(r, S) ==
    /\ S \in wakes[r] /\ ~(S \subseteq held)
    /\ notify_work_available({r})
    /\ wakes' = [wakes EXCEPT ![r] = @ \ {S}]
    /\ UNCHANGED <<rowVars, sessionVars, passVars, listener, announce, requeued, lifeVars,
                   late>>

\* Somebody still has to ring for this task.
RingIsDue(t) ==
    \E r \in Replicas : t \in announce[r] \cup requeued[r] \cup UNION wakes[r]

\* now() passes not_before. Nobody rings for a row that was not the first of its pass.
BackoffElapses(t) ==
    /\ t \in held
    /\ held' = held \ {t}
    /\ lost' = [r \in Replicas |-> lost[r] \/ ~RingIsDue(t)]
    /\ UNCHANGED <<row, owner, excluded, attempt, lock, sessionVars, passVars, listener,
                   tailVars, lifeVars, bell, faults, late>>

\* The exclusion window, which starts at not_before, ends. Nobody rings.
ExclusionElapses(t) ==
    /\ excluded[t] # None /\ t \notin held
    /\ excluded' = [excluded EXCEPT ![t] = None]
    /\ lost' = [r \in Replicas |-> TRUE]
    /\ UNCHANGED <<row, owner, held, attempt, lock, sessionVars, passVars, listener,
                   tailVars, lifeVars, bell, faults, late>>

-----------------------------------------------------------------------------
(* The life of the process *)

\* handle_exit: the first signal starts the drain, a second one or a window of zero
\* exits at once.
Signal(r) ==
    /\ "signal" \in Events /\ proc[r] \in {"up", "draining"}
    /\ IF proc[r] = "draining" \/ DrainWindow = 0
       THEN /\ proc' = [proc EXCEPT ![r] = "exiting"]
            /\ UNCHANGED draining
       ELSE /\ proc' = [proc EXCEPT ![r] = "draining"]
            /\ draining' = [draining EXCEPT ![r] = TRUE]
    /\ UNCHANGED <<rowVars, sessionVars, passVars, listener, tailVars, bell, faults, lost,
                   late>>

\* drain_local_sessions ends on the last acknowledgement,
DrainEnds(r) ==
    /\ proc[r] = "draining" /\ \A s \in Local(r) : pending[s] = {}
    /\ proc' = [proc EXCEPT ![r] = "exiting"]
    /\ UNCHANGED <<rowVars, sessionVars, passVars, listener, tailVars, draining, bell,
                   faults, lost, late>>

\* A drain without its ceiling.
DrainWaits(r) == FALSE /\ UNCHANGED vars

\* or on the clock.
DrainTimesOut(r) ==
    /\ proc[r] = "draining" /\ \E s \in Local(r) : pending[s] # {}
    /\ proc' = [proc EXCEPT ![r] = "exiting"]
    /\ UNCHANGED <<rowVars, sessionVars, passVars, listener, tailVars, draining, bell,
                   faults, lost, late>>

\* Everything the process held in memory is gone; its open transaction is rolled back.
ProcessGone(r) ==
    /\ proc' = [proc EXCEPT ![r] = "down"]
    /\ draining' = [draining EXCEPT ![r] = FALSE]
    /\ bell' = [bell EXCEPT ![r] = FALSE]
    /\ engine' = [engine EXCEPT ![r] = "stopped"]
    /\ todo' = [todo EXCEPT ![r] = {}]
    /\ cur' = [cur EXCEPT ![r] = None]
    /\ batch' = [batch EXCEPT ![r] = {}]
    /\ got' = [got EXCEPT ![r] = FALSE]
    /\ lock' = Unlocked(r)
    /\ listener' = [listener EXCEPT ![r] = "off"]
    /\ announce' = [announce EXCEPT ![r] = {}]
    /\ requeued' = [requeued EXCEPT ![r] = {}]
    /\ wakes' = [wakes EXCEPT ![r] = {}]
    /\ lost' = [q \in Replicas |-> lost[q] \/ lock # Unlocked(r)
                                    \/ announce[r] \cup requeued[r] \cup UNION wakes[r] # {}]
    /\ UNCHANGED <<row, owner, held, excluded, attempt, late>>

\* uvicorn waits for the connections and the requests, then the lifespan cancels the
\* background tasks wherever they are.
LifespanEnds(r) ==
    /\ proc[r] = "exiting" /\ Local(r) = {} /\ announce[r] = {}
    /\ ProcessGone(r)
    /\ UNCHANGED <<sessionVars, faults>>

Crash(r) ==
    /\ Alive(r) /\ faults < MaxFaults
    /\ faults' = faults + 1
    /\ ProcessGone(r)
    /\ Closed(Local(r))

\* The supervisor starts the process again: lifespan creates the loops.
Start(r) ==
    /\ "restart" \in Events /\ proc[r] = "down"
    /\ proc' = [proc EXCEPT ![r] = "up"]
    /\ engine' = [engine EXCEPT ![r] = "waiting"]
    /\ UNCHANGED <<rowVars, sessionVars, todo, cur, batch, got, listener, tailVars,
                   draining, bell, faults, lost, late>>

Engine(r) ==
    \/ WakeUp(r) \/ CountQueue(r) \/ CommitClaim(r) \/ EndPass(r) \/ Retry(r)
    \/ LimitRaises(r)
    \/ \E s \in Sessions : Dequeue(r, s)
    \/ \E t \in Tasks : Deliver(r, t)

Doorbell(r) ==
    \/ Subscribe(r) \/ RingReclaimed(r)
    \/ \E t \in Tasks : Announce(r, t)
    \/ \E S \in wakes[r] : FireWake(r, S)

Shutdown(r) == DrainEnds(r) \/ DrainTimesOut(r) \/ CloseSocket(r) \/ LifespanEnds(r)

Clock == \E t \in Tasks : BackoffElapses(t) \/ ExclusionElapses(t)

Next ==
    \/ \E r \in Replicas :
          \/ Engine(r) \/ Doorbell(r) \/ Shutdown(r) \/ Signal(r) \/ Crash(r) \/ Start(r)
          \/ ListenerDrops(r) \/ DatabaseRaises(r)
          \/ \E t \in Tasks : Enqueue(r, t)
          \/ \E S \in SUBSET Tasks : Reclaim(r, S)
          \/ \E s \in Sessions : Connect(s, r)
    \/ \E s \in Sessions :
          \/ HangUp(s) \/ CapacityFreed(s)
          \/ \E t \in Tasks : AcceptTask(s, t) \/ RefuseTask(s, t) \/ TaskEnds(s, t)
    \/ Clock

Spec == Init /\ [][Next]_vars

\* The event loop of a live process runs what can run, the poll of assignment_loop
\* included; sockets of an exiting process close; time passes.
Fairness ==
    /\ \A r \in Replicas : WF_vars(Engine(r)) /\ WF_vars(Doorbell(r)) /\ WF_vars(Shutdown(r))
    /\ WF_vars(Clock)

FairSpec == Spec /\ Fairness

-----------------------------------------------------------------------------
(* Properties *)

\* A free credit on a ready replica, beside a task its session may be given.
Unserved(s, t) ==
    /\ stage[s] = "open" /\ Ready(at[s]) /\ FreeCredits(s) > 0
    /\ Eligible(s, t) /\ lock[t] = None

\* The doorbell loses nothing by itself (clear before the pass, publish after the commit,
\* ring on every credit that comes back): an engine that waits beside work it could hand
\* out has a ring on its way, unless Redis lost one, a process or a pass died, or the task
\* became eligible by time alone.
NoLostWakeUp ==
    \A s \in Sessions, t \in Tasks :
        LET r == at[s]
        IN Unserved(s, t) /\ engine[r] = "waiting" =>
              bell[r] \/ RingIsDue(t) \/ lost[r]

\* What a drain may still strand: the flag is read once per pass, so a replica that has
\* begun to drain claims at most one more batch for each session, and no second pass.
LateClaimsBounded == \A s \in Sessions : late[s] <= 1

\* The safety-net poll makes up for every lost ring: no task stays for ever beside a free
\* credit that may have it.
QueuedWorkIsClaimed == \A s \in Sessions, t \in Tasks : []<>~Unserved(s, t)

\* A signalled replica exits (its shutdown ends, and that only with the process): the
\* drain is bounded by its window, and neither a pass, a request nor a socket holds the
\* process up.
ShutdownEnds ==
    \A r \in Replicas : []<>(proc[r] \notin {"draining", "exiting"})

=============================================================================
