--------------------------- MODULE ReplicaProofs ----------------------------
(***************************************************************************)
(* Proofs about Replica, for any number of replicas, workers, sessions,    *)
(* tasks, slots, attempts and faults.                                      *)
(***************************************************************************)
EXTENDS Replica, FiniteSetTheorems, TLAPS

-----------------------------------------------------------------------------
(***************************************************************************)
(* The inductive invariant.                                                *)
(***************************************************************************)

\* A row that is not over has an attempt left.
AttemptsLeft ==
    \A t \in Tasks : row[t] \in {"absent", "queued", "assigned"} => attempt[t] < MaxAttempts

\* A claim not committed yet: the locked rows are the batch, and still queued.
LockedIsBatch ==
    \A r \in Replicas :
        /\ \A t \in Tasks : lock[t] = r => t \in batch[r] /\ row[t] = "queued"
        /\ (\A t \in batch[r] : lock[t] = r) \/ (\A t \in batch[r] : lock[t] # r)

\* assign_once has a current session exactly while it has a batch, and both only
\* while a pass runs.
PassShape ==
    \A r \in Replicas :
        /\ cur[r] = None <=> batch[r] = {}
        /\ engine[r] # "passing" => cur[r] = None
        /\ engine[r] \notin {"counting", "passing"} => todo[r] = {}
        /\ engine[r] # "stopped" <=> Alive(r)

\* The sessions a pass still refers to.
InPass(r) == {s \in Sessions : s \in todo[r] \/ cur[r] = s}

\* They are the replica's own, if they are still open, and a session's turn comes
\* once in a pass.
PassSessions ==
    /\ \A r \in Replicas : \A s \in InPass(r) :
          stage[s] # "new" /\ (stage[s] = "open" => at[s] = r)
    /\ \A r, q \in Replicas : \A s \in InPass(r) : s \in InPass(q) => q = r
    /\ \A r \in Replicas : cur[r] \notin todo[r]

\* A socket belongs to a live process.
OpenIsAlive == \A s \in Sessions : stage[s] = "open" => at[s] \in Replicas /\ Alive(at[s])

\* A session that got a claim after its replica began to drain gets no other: its
\* replica drains as long as it is open, and no pass will claim for it.
LateIsLast ==
    \A s \in Sessions : late[s] # 0 =>
        /\ late[s] = 1 /\ stage[s] # "new"
        /\ stage[s] = "open" => draining[at[s]]
        /\ \A r \in Replicas : /\ s \notin todo[r]
                               /\ cur[r] = s => \A t \in batch[r] : lock[t] # r

\* The pass under way will look at s again: its turn is still to come, its batch is
\* being handed out, or a delivery has been made and another pass follows.
WillLook(s) ==
    LET r == at[s]
    IN \/ engine[r] = "counting" /\ s \in todo[r]
       \/ engine[r] = "passing" /\ (s \in todo[r] \/ cur[r] = s \/ got[r])

\* Work beside a free credit is on its way to be seen.
WakeInv ==
    \A s \in Sessions, t \in Tasks :
        Unserved(s, t) => bell[at[s]] \/ RingIsDue(t) \/ lost[at[s]] \/ WillLook(s)

PassInv == LockedIsBatch /\ PassShape /\ PassSessions /\ OpenIsAlive
IInv == TypeOK /\ AttemptsLeft /\ PassInv /\ LateIsLast /\ WakeInv

-----------------------------------------------------------------------------
(***************************************************************************)
(* Types and attempts.                                                     *)
(***************************************************************************)

\* The initial state.
LEMMA InitInv == Init => IInv
<1> SUFFICES ASSUME Init PROVE IInv
  OBVIOUS
<1> USE ReplicaConstants DEF Init
<1>1. TypeOK
  BY DEF TypeOK
<1>2. AttemptsLeft /\ LateIsLast
  BY DEF AttemptsLeft, LateIsLast
<1>3. PassInv
  BY DEF PassInv, LockedIsBatch, PassShape, PassSessions, OpenIsAlive, InPass, Alive
<1>4. WakeInv
  BY DEF WakeInv, Unserved
<1> QED
  BY <1>1, <1>2, <1>3, <1>4 DEF IInv

\* Ringing.
LEMMA RingTyped ==
    ASSUME TypeOK, NEW here \in SUBSET Replicas, notify_work_available(here)
    PROVE  /\ bell' \in [Replicas -> BOOLEAN] /\ lost' \in [Replicas -> BOOLEAN]
           /\ faults' \in 0..MaxFaults
           /\ \A r \in Replicas : bell'[r] \/ lost'[r]
<1> USE ReplicaConstants DEF TypeOK, notify_work_available
<1>1. bell' \in [Replicas -> BOOLEAN]
  <2>1. \/ bell' = [r \in Replicas |-> bell[r] \/ r \in here \/ listener[r] = "subscribed"]
        \/ bell' = [r \in Replicas |-> bell[r] \/ r \in here]
    BY Zenon
  <2> QED BY ONLY <2>1
<1>2. lost' \in [Replicas -> BOOLEAN]
  <2>1. lost' = [r \in Replicas |-> lost[r] \/ ~bell'[r]]
    BY Zenon
  <2> QED BY ONLY <2>1
<1>3. faults' \in 0..MaxFaults
  OBVIOUS
<1>4. \A r \in Replicas : bell'[r] \/ lost'[r]
  OBVIOUS
<1> QED
  BY <1>1, <1>2, <1>3, <1>4

\* Closing sessions.
LEMMA ClosedTyped ==
    ASSUME TypeOK, NEW S \in SUBSET Sessions, Closed(S)
    PROVE  /\ stage' \in [Sessions -> {"new", "open", "closed"}]
           /\ at' \in [Sessions -> Replicas \cup {None}]
           /\ credited' \in [Sessions -> SUBSET Tasks]
           /\ pending' \in [Sessions -> SUBSET Tasks]
           /\ saturated' \in [Sessions -> BOOLEAN]
           /\ executing' \in [Sessions -> SUBSET Tasks]
<1> QED
  BY DEF TypeOK, Closed

\* A pass that begins.
LEMMA BeginPassTyped ==
    ASSUME TypeOK, NEW r \in Replicas, BeginPass(r)
    PROVE  /\ engine' \in [Replicas -> {"waiting", "counting", "passing", "backoff", "stopped"}]
           /\ todo' \in [Replicas -> SUBSET Sessions]
           /\ got' \in [Replicas -> BOOLEAN]
           /\ lost' \in [Replicas -> BOOLEAN]
<1> USE DEF TypeOK, BeginPass
<1>1. engine' \in [Replicas -> {"waiting", "counting", "passing", "backoff", "stopped"}]
  OBVIOUS
<1>2. todo' \in [Replicas -> SUBSET Sessions]
  <2>1. todo' = todo \/ todo' = [todo EXCEPT ![r] = Candidates(r)]
    BY DEF BeginPass
  <2>2. Candidates(r) \in SUBSET Sessions /\ todo \in [Replicas -> SUBSET Sessions]
    BY DEF Candidates, Local
  <2> QED BY ONLY <2>1, <2>2
<1>3. got' \in [Replicas -> BOOLEAN]
  OBVIOUS
<1>4. lost' \in [Replicas -> BOOLEAN]
  OBVIOUS
<1> QED
  BY <1>1, <1>2, <1>3, <1>4

\* The doorbell, the requests and the listeners.
LEMMA DoorbellTyped ==
    ASSUME TypeOK, NEW r \in Replicas,
           \/ Doorbell(r) \/ ListenerDrops(r)
           \/ \E t \in Tasks : Enqueue(r, t)
    PROVE  TypeOK'
<1> USE ReplicaConstants DEF rowVars, sessionVars, passVars, tailVars, lifeVars
<1>1. CASE Subscribe(r) \/ ListenerDrops(r)
  BY <1>1 DEF TypeOK, Subscribe, ListenerDrops
<1>2. ASSUME NEW t \in Tasks, Enqueue(r, t) PROVE TypeOK'
  BY <1>2 DEF TypeOK, Enqueue
<1>3. ASSUME NEW t \in Tasks, Announce(r, t) PROVE TypeOK'
  <2>1. announce' \in [Replicas -> SUBSET Tasks]
    BY <1>3 DEF TypeOK, Announce
  <2>2. /\ bell' \in [Replicas -> BOOLEAN] /\ lost' \in [Replicas -> BOOLEAN]
        /\ faults' \in 0..MaxFaults
    BY <1>3, RingTyped DEF Announce
  <2> QED BY <1>3, <2>1, <2>2 DEF TypeOK, Announce
<1>4. CASE RingReclaimed(r)
  <2>1. RetryWake(requeued[r]) \subseteq SUBSET Tasks
    BY DEF TypeOK, RetryWake
  <2>2. wakes' \in [Replicas -> SUBSET (SUBSET Tasks)] /\ requeued' \in [Replicas -> SUBSET Tasks]
    BY <1>4, <2>1 DEF TypeOK, RingReclaimed
  <2>3. /\ bell' \in [Replicas -> BOOLEAN] /\ lost' \in [Replicas -> BOOLEAN]
        /\ faults' \in 0..MaxFaults
    BY <1>4, RingTyped DEF RingReclaimed
  <2> QED BY <1>4, <2>2, <2>3 DEF TypeOK, RingReclaimed
<1>5. ASSUME NEW S \in wakes[r], FireWake(r, S) PROVE TypeOK'
  <2>1. wakes' \in [Replicas -> SUBSET (SUBSET Tasks)]
    BY <1>5 DEF TypeOK, FireWake
  <2>2. /\ bell' \in [Replicas -> BOOLEAN] /\ lost' \in [Replicas -> BOOLEAN]
        /\ faults' \in 0..MaxFaults
    BY <1>5, RingTyped DEF FireWake
  <2> QED BY <1>5, <2>1, <2>2 DEF TypeOK, FireWake
<1> QED
  BY <1>1, <1>2, <1>3, <1>4, <1>5 DEF Doorbell

\* What a rollback leaves of the locks.
LEMMA UnlockedTyped ==
    ASSUME TypeOK, NEW r \in Replicas
    PROVE  /\ Unlocked(r) \in [Tasks -> Replicas \cup {None}]
           /\ \A t \in Tasks : /\ Unlocked(r)[t] # r
                               /\ lock[t] # r => Unlocked(r)[t] = lock[t]
                               /\ lock[t] = r => Unlocked(r)[t] = None
<1> QED
  BY ReplicaConstants DEF TypeOK, Unlocked

\* A pass that is abandoned.
LEMMA AbandonedTyped ==
    ASSUME TypeOK, NEW r \in Replicas, Abandoned(r), faults' \in 0..MaxFaults
    PROVE  TypeOK'
<1> USE DEF sessionVars, tailVars, lifeVars
<1>1. lock' \in [Tasks -> Replicas \cup {None}]
  BY UnlockedTyped DEF Abandoned
<1>2. lost' \in [Replicas -> BOOLEAN]
  <2>1. lost' = [q \in Replicas |-> lost[q] \/ q = r \/ lock # Unlocked(r)]
    BY DEF Abandoned
  <2> QED BY ONLY <2>1
<1>3. got' \in [Replicas -> BOOLEAN]
  BY DEF Abandoned, TypeOK
<1>4. /\ engine' \in [Replicas -> {"waiting", "counting", "passing", "backoff", "stopped"}]
      /\ todo' \in [Replicas -> SUBSET Sessions]
      /\ cur' \in [Replicas -> Sessions \cup {None}]
      /\ batch' \in [Replicas -> SUBSET Tasks]
  BY DEF Abandoned, TypeOK
<1> QED
  BY <1>1, <1>2, <1>3, <1>4 DEF Abandoned, TypeOK

\* A task added to one set of a table, or not.
LEMMA Added ==
    ASSUME NEW f \in [Sessions -> SUBSET Tasks], NEW s \in Sessions, NEW t \in Tasks, NEW yes
    PROVE  /\ [f EXCEPT ![s] = IF yes THEN @ \cup {t} ELSE @] \in [Sessions -> SUBSET Tasks]
           /\ \A x \in Sessions : x # s =>
                 [f EXCEPT ![s] = IF yes THEN @ \cup {t} ELSE @][x] = f[x]
<1>1. f[s] \cup {t} \in SUBSET Tasks /\ f[s] \in SUBSET Tasks
  OBVIOUS
<1>2. (IF yes THEN f[s] \cup {t} ELSE f[s]) \in SUBSET Tasks
  BY <1>1
<1> QED
  BY <1>2

\* The assignment loop.
LEMMA EngineTyped ==
    ASSUME TypeOK, PassShape, NEW r \in Replicas, Engine(r) \/ DatabaseRaises(r)
    PROVE  TypeOK'
<1> USE ReplicaConstants DEF rowVars, sessionVars, passVars, tailVars, lifeVars
<1>1. CASE WakeUp(r)
  <2>1. bell' \in [Replicas -> BOOLEAN]
    BY <1>1 DEF TypeOK, WakeUp
  <2> QED BY <1>1, <2>1, BeginPassTyped DEF TypeOK, WakeUp
<1>2. CASE CountQueue(r)
  <2>1. engine' \in [Replicas -> {"waiting", "counting", "passing", "backoff", "stopped"}]
    <3>1. \/ engine' = [engine EXCEPT ![r] = "waiting"]
          \/ engine' = [engine EXCEPT ![r] = "passing"]
      BY <1>2 DEF CountQueue
    <3> QED BY <3>1 DEF TypeOK
  <2>2. todo' \in [Replicas -> SUBSET Sessions]
    BY <1>2 DEF TypeOK, CountQueue
  <2> QED BY <1>2, <2>1, <2>2 DEF TypeOK, CountQueue
<1>3. CASE CommitClaim(r)
  <2>1. cur[r] \in Sessions
    BY <1>3 DEF CommitClaim, PassShape, TypeOK
  <2>2. owner' \in [Tasks -> Workers \cup {None}]
    <3>1. WorkerOf[cur[r]] \in Workers
      BY <2>1
    <3> QED BY <1>3, <3>1 DEF CommitClaim, TypeOK
  <2>3. late' \in [Sessions -> Nat]
    BY <1>3, <2>1 DEF CommitClaim, TypeOK
  <2>4. lock' \in [Tasks -> Replicas \cup {None}]
    BY <1>3, UnlockedTyped DEF CommitClaim
  <2>5. row' \in [Tasks -> {"absent", "queued", "assigned", "done", "failed"}]
    BY <1>3 DEF CommitClaim, TypeOK
  <2> QED BY <1>3, <2>2, <2>3, <2>4, <2>5 DEF TypeOK, CommitClaim
<1>4. CASE EndPass(r)
  <2>1. /\ engine' \in [Replicas -> {"waiting", "counting", "passing", "backoff", "stopped"}]
        /\ todo' \in [Replicas -> SUBSET Sessions]
        /\ got' \in [Replicas -> BOOLEAN]
        /\ lost' \in [Replicas -> BOOLEAN]
    <3>1. CASE got[r]
      BY <1>4, <3>1, BeginPassTyped DEF EndPass
    <3>2. CASE ~got[r]
      <4>1. engine' = [engine EXCEPT ![r] = "waiting"] /\ UNCHANGED <<todo, got, lost>>
        BY <1>4, <3>2 DEF EndPass
      <4> QED BY <4>1 DEF TypeOK
    <3> QED BY <3>1, <3>2
  <2> QED BY <1>4, <2>1 DEF TypeOK, EndPass
<1>5. CASE Retry(r)
  BY <1>5 DEF TypeOK, Retry
<1>6. CASE LimitRaises(r)
  BY <1>6, AbandonedTyped DEF TypeOK, LimitRaises
<1>7. CASE DatabaseRaises(r)
  <2>1. faults' \in 0..MaxFaults
    BY <1>7 DEF TypeOK, DatabaseRaises
  <2> QED BY <1>7, <2>1, AbandonedTyped DEF DatabaseRaises
<1>8. ASSUME NEW s \in Sessions, Dequeue(r, s) PROVE TypeOK'
  <2>1. PICK B \in SUBSET Tasks :
           /\ lock' = [t \in Tasks |-> IF t \in B THEN r ELSE lock[t]]
           /\ batch' = [batch EXCEPT ![r] = B]
           /\ cur' = [cur EXCEPT ![r] = IF B = {} THEN None ELSE s]
    BY <1>8 DEF Dequeue, kSubset
  <2> QED BY <1>8, <2>1 DEF TypeOK, Dequeue
<1>9. ASSUME NEW t \in Tasks, Deliver(r, t) PROVE TypeOK'
  <2>1. got' \in [Replicas -> BOOLEAN]
    <3>1. got' = [got EXCEPT ![r] = @ \/ stage[cur[r]] = "open"]
      BY <1>9 DEF Deliver
    <3> QED BY <3>1 DEF TypeOK
  <2>0. cur[r] \in Sessions
    BY <1>9 DEF Deliver, PassShape, TypeOK
  <2>2. pending' \in [Sessions -> SUBSET Tasks]
    BY <1>9, <2>0, Added DEF Deliver, TypeOK
  <2>3. credited' \in [Sessions -> SUBSET Tasks]
    BY <1>9, <2>0, Added DEF Deliver, TypeOK
  <2> QED BY <1>9, <2>1, <2>2, <2>3 DEF TypeOK, Deliver
<1> QED
  BY <1>1, <1>2, <1>3, <1>4, <1>5, <1>6, <1>7, <1>8, <1>9 DEF Engine


\* The end of a session, by itself or with its process.
LEMMA SessionEndsTyped ==
    ASSUME TypeOK, NEW s \in Sessions, SessionEnds(s), faults' \in 0..MaxFaults
    PROVE  TypeOK'
  BY ClosedTyped DEF TypeOK, SessionEnds, rowVars, passVars, tailVars, lifeVars

\* The sessions.
LEMMA SessionTyped ==
    ASSUME TypeOK, NEW s \in Sessions,
           \/ \E r \in Replicas : Connect(s, r)
           \/ HangUp(s) \/ CapacityFreed(s)
           \/ \E t \in Tasks : AcceptTask(s, t) \/ RefuseTask(s, t) \/ TaskEnds(s, t)
    PROVE  TypeOK'
<1> USE DEF rowVars, sessionVars, passVars, tailVars, lifeVars
<1>1. ASSUME NEW r \in Replicas, Connect(s, r) PROVE TypeOK'
  <2>1. bell' \in [Replicas -> BOOLEAN]
    BY <1>1 DEF TypeOK, Connect
  <2> QED BY <1>1, <2>1 DEF TypeOK, Connect
<1>2. CASE HangUp(s)
  <2>1. SessionEnds(s) /\ faults' \in 0..MaxFaults
    BY <1>2, ReplicaConstants DEF HangUp, TypeOK
  <2> QED BY <2>1, SessionEndsTyped
<1>3. CASE CapacityFreed(s)
  <2>1. bell' \in [Replicas -> BOOLEAN]
    BY <1>3 DEF TypeOK, CapacityFreed
  <2>2. saturated' \in [Sessions -> BOOLEAN]
    BY <1>3 DEF TypeOK, CapacityFreed
  <2> QED BY <1>3, <2>1, <2>2 DEF TypeOK, CapacityFreed
<1>4. ASSUME NEW t \in Tasks, AcceptTask(s, t) PROVE TypeOK'
  BY <1>4 DEF TypeOK, AcceptTask
<1>5. ASSUME NEW t \in Tasks, RefuseTask(s, t) PROVE TypeOK'
  <2>1. saturated' \in [Sessions -> BOOLEAN]
    BY <1>5 DEF TypeOK, RefuseTask
  <2>2. faults' \in 0..MaxFaults
    BY <1>5, ReplicaConstants DEF TypeOK, RefuseTask
  <2> QED BY <1>5, <2>1, <2>2 DEF TypeOK, RefuseTask
<1>6. ASSUME NEW t \in Tasks, TaskEnds(s, t) PROVE TypeOK'
  <2>1. bell' \in [Replicas -> BOOLEAN]
    BY <1>6 DEF TypeOK, TaskEnds
  <2>2. saturated' \in [Sessions -> BOOLEAN]
    BY <1>6 DEF TypeOK, TaskEnds
  <2>3. row' \in [Tasks -> {"absent", "queued", "assigned", "done", "failed"}]
    BY <1>6 DEF TypeOK, TaskEnds
  <2>4. excluded' \in [Tasks -> Workers \cup {None}]
    BY <1>6 DEF TypeOK, TaskEnds
  <2>5. executing' \in [Sessions -> SUBSET Tasks] /\ credited' \in [Sessions -> SUBSET Tasks]
    BY <1>6 DEF TypeOK, TaskEnds
  <2> QED BY <1>6, <2>1, <2>2, <2>3, <2>4, <2>5 DEF TypeOK, TaskEnds
<1> QED
  BY <1>1, <1>2, <1>3, <1>4, <1>5, <1>6

\* A process that is gone, its sessions aside.
LEMMA ProcessGoneTyped ==
    ASSUME TypeOK, NEW r \in Replicas, ProcessGone(r), faults' \in 0..MaxFaults,
           \/ UNCHANGED sessionVars
           \/ \E S \in SUBSET Sessions : Closed(S)
    PROVE  TypeOK'
<1>1. lock' \in [Tasks -> Replicas \cup {None}]
  BY UnlockedTyped DEF ProcessGone
<1>2. lost' \in [Replicas -> BOOLEAN]
  <2>1. lost' = [q \in Replicas |-> lost[q] \/ lock # Unlocked(r)
                                    \/ announce[r] \cup requeued[r] \cup UNION wakes[r] # {}]
    BY DEF ProcessGone
  <2> QED BY ONLY <2>1
<1>3. got' \in [Replicas -> BOOLEAN]
  BY DEF ProcessGone, TypeOK
<1>4. bell' \in [Replicas -> BOOLEAN]
  BY DEF ProcessGone, TypeOK
<1>5. draining' \in [Replicas -> BOOLEAN]
  BY DEF ProcessGone, TypeOK
<1>6. /\ proc' \in [Replicas -> {"up", "draining", "exiting", "down"}]
      /\ engine' \in [Replicas -> {"waiting", "counting", "passing", "backoff", "stopped"}]
      /\ listener' \in [Replicas -> {"subscribed", "off"}]
  BY DEF ProcessGone, TypeOK
<1>7. /\ todo' \in [Replicas -> SUBSET Sessions]
      /\ cur' \in [Replicas -> Sessions \cup {None}]
      /\ batch' \in [Replicas -> SUBSET Tasks]
      /\ announce' \in [Replicas -> SUBSET Tasks]
      /\ requeued' \in [Replicas -> SUBSET Tasks]
      /\ wakes' \in [Replicas -> SUBSET (SUBSET Tasks)]
  BY DEF ProcessGone, TypeOK
<1>8. /\ stage' \in [Sessions -> {"new", "open", "closed"}]
      /\ at' \in [Sessions -> Replicas \cup {None}]
      /\ credited' \in [Sessions -> SUBSET Tasks]
      /\ pending' \in [Sessions -> SUBSET Tasks]
      /\ saturated' \in [Sessions -> BOOLEAN]
      /\ executing' \in [Sessions -> SUBSET Tasks]
  <2>1. CASE UNCHANGED sessionVars
    BY <2>1 DEF TypeOK, sessionVars
  <2>2. CASE \E S \in SUBSET Sessions : Closed(S)
    BY <2>2, ClosedTyped
  <2> QED BY <2>1, <2>2
<1> QED
  BY <1>1, <1>2, <1>3, <1>4, <1>5, <1>6, <1>7, <1>8 DEF ProcessGone, TypeOK

\* The life of the process and the clock.
LEMMA LifeTyped ==
    ASSUME TypeOK,
           \/ \E r \in Replicas : Shutdown(r) \/ Signal(r) \/ Crash(r) \/ Start(r)
           \/ Clock
    PROVE  TypeOK'
<1> USE ReplicaConstants DEF rowVars, sessionVars, passVars, tailVars, lifeVars
<1>1. ASSUME NEW r \in Replicas, Signal(r) PROVE TypeOK'
  <2>1. proc' \in [Replicas -> {"up", "draining", "exiting", "down"}]
    <3>1. \/ proc' = [proc EXCEPT ![r] = "exiting"]
          \/ proc' = [proc EXCEPT ![r] = "draining"]
      BY <1>1 DEF Signal
    <3>2. proc \in [Replicas -> {"up", "draining", "exiting", "down"}]
      BY DEF TypeOK
    <3> QED BY ONLY <3>1, <3>2
  <2>2. draining' \in [Replicas -> BOOLEAN]
    <3>1. UNCHANGED draining \/ draining' = [draining EXCEPT ![r] = TRUE]
      BY <1>1 DEF Signal
    <3> QED BY <3>1 DEF TypeOK
  <2> QED BY <1>1, <2>1, <2>2 DEF TypeOK, Signal
<1>2. ASSUME NEW r \in Replicas, DrainEnds(r) \/ DrainTimesOut(r) PROVE TypeOK'
  <2>1. proc' = [proc EXCEPT ![r] = "exiting"]
    BY <1>2 DEF DrainEnds, DrainTimesOut
  <2>2. proc \in [Replicas -> {"up", "draining", "exiting", "down"}]
    BY DEF TypeOK
  <2>3. proc' \in [Replicas -> {"up", "draining", "exiting", "down"}]
    BY ONLY <2>1, <2>2
  <2> QED BY <1>2, <2>3 DEF TypeOK, DrainEnds, DrainTimesOut
<1>3. ASSUME NEW r \in Replicas, LifespanEnds(r) PROVE TypeOK'
  <2>1. UNCHANGED sessionVars /\ faults' \in 0..MaxFaults /\ ProcessGone(r)
    BY <1>3 DEF LifespanEnds, TypeOK
  <2> QED BY <2>1, ProcessGoneTyped
<1>4. ASSUME NEW r \in Replicas, Crash(r) PROVE TypeOK'
  <2>1. faults' \in 0..MaxFaults
    BY <1>4 DEF Crash, TypeOK
  <2>2. Local(r) \in SUBSET Sessions /\ Closed(Local(r)) /\ ProcessGone(r)
    BY <1>4 DEF Crash, Local
  <2> QED BY <2>1, <2>2, ProcessGoneTyped
<1>5. ASSUME NEW r \in Replicas, Start(r) PROVE TypeOK'
  BY <1>5 DEF TypeOK, Start
<1>6. ASSUME NEW t \in Tasks, BackoffElapses(t) PROVE TypeOK'
  <2>1. lost' = [r \in Replicas |-> lost[r] \/ ~RingIsDue(t)]
    BY <1>6 DEF BackoffElapses
  <2>2. lost' \in [Replicas -> BOOLEAN]
    BY ONLY <2>1
  <2> QED BY <1>6, <2>2 DEF TypeOK, BackoffElapses
<1>7. ASSUME NEW t \in Tasks, ExclusionElapses(t) PROVE TypeOK'
  <2>1. lost' \in [Replicas -> BOOLEAN]
    BY <1>7 DEF ExclusionElapses
  <2> QED BY <1>7, <2>1 DEF TypeOK, ExclusionElapses
<1>8. ASSUME NEW r \in Replicas, CloseSocket(r) PROVE TypeOK'
  <2>1. PICK s \in Sessions : SessionEnds(s)
    BY <1>8 DEF CloseSocket, Local
  <2>2. faults' \in 0..MaxFaults
    BY <1>8 DEF CloseSocket, TypeOK
  <2> QED BY <2>1, <2>2, SessionEndsTyped
<1> QED
  BY <1>1, <1>2, <1>3, <1>4, <1>5, <1>6, <1>7, <1>8 DEF Shutdown, Clock

\* The reclaim loop.
LEMMA ReclaimTyped ==
    ASSUME TypeOK, AttemptsLeft, NEW r \in Replicas, NEW S \in SUBSET Tasks, Reclaim(r, S)
    PROVE  TypeOK' /\ AttemptsLeft'
<1> USE ReplicaConstants DEF sessionVars, passVars, lifeVars
<1> DEFINE again == {t \in S : ~Exhausted(t)}
<1>1. \A t \in S : attempt[t] \in Nat /\ attempt[t] < MaxAttempts
  BY DEF TypeOK, AttemptsLeft, Reclaim
<1>2. attempt' \in [Tasks -> 0..MaxAttempts]
  BY <1>1 DEF TypeOK, Reclaim
<1>3. /\ row' = [t \in Tasks |-> IF t \in again THEN "queued"
                                 ELSE IF t \in S THEN "failed" ELSE row[t]]
      /\ held' = (held \ S) \cup again
      /\ owner' = [t \in Tasks |-> IF t \in S THEN None ELSE owner[t]]
      /\ excluded' = [t \in Tasks |-> IF t \in again THEN owner[t]
                                      ELSE IF t \in S THEN None ELSE excluded[t]]
      /\ requeued' = [requeued EXCEPT ![r] = S]
  BY DEF Reclaim
<1>4. row' \in [Tasks -> {"absent", "queued", "assigned", "done", "failed"}]
  BY <1>3 DEF TypeOK
<1>5. held' \subseteq Tasks /\ requeued' \in [Replicas -> SUBSET Tasks]
  BY <1>3 DEF TypeOK
<1>6. owner' \in [Tasks -> Workers \cup {None}] /\ excluded' \in [Tasks -> Workers \cup {None}]
  BY <1>3 DEF TypeOK
<1>7. TypeOK'
  BY <1>2, <1>4, <1>5, <1>6 DEF TypeOK, Reclaim
<1>8. AttemptsLeft'
  <2> SUFFICES ASSUME NEW t \in Tasks, row'[t] \in {"absent", "queued", "assigned"}
               PROVE  attempt'[t] < MaxAttempts
    BY DEF AttemptsLeft
  <2>1. CASE t \in S
    BY <1>1, <1>3, <2>1 DEF Reclaim, Exhausted
  <2>2. CASE t \notin S
    BY <1>3, <2>2 DEF Reclaim, AttemptsLeft
  <2> QED BY <2>1, <2>2
<1> QED
  BY <1>7, <1>8

\* Types and attempts are kept by every step.
LEMMA StepTyped ==
    ASSUME TypeOK, AttemptsLeft, LockedIsBatch, PassShape, [Next]_vars
    PROVE  TypeOK' /\ AttemptsLeft'
<1>1. TypeOK'
  <2>1. CASE UNCHANGED vars
    BY <2>1 DEF TypeOK, vars, rowVars, sessionVars, passVars, tailVars, lifeVars
  <2> QED
    BY <2>1, DoorbellTyped, EngineTyped, SessionTyped, LifeTyped, ReclaimTyped DEF Next
<1>2. AttemptsLeft'
  <2> USE DEF TypeOK, rowVars, sessionVars, passVars, tailVars, lifeVars
  <2>1. ASSUME attempt' = attempt,
               \A t \in Tasks : row'[t] \in {"absent", "queued", "assigned"}
                  => row[t] \in {"absent", "queued", "assigned"}
        PROVE  AttemptsLeft'
    BY <2>1 DEF AttemptsLeft
  <2>2. CASE UNCHANGED <<row, attempt>>
    BY <2>1, <2>2
  <2>3. ASSUME NEW r \in Replicas, NEW t \in Tasks, Enqueue(r, t) PROVE AttemptsLeft'
    BY <2>1, <2>3 DEF Enqueue
  <2>4. ASSUME NEW r \in Replicas, CommitClaim(r) PROVE AttemptsLeft'
    <3>1. \A t \in batch[r] : row[t] = "queued"
      BY <2>4 DEF CommitClaim, LockedIsBatch
    <3> QED BY <2>1, <2>4, <3>1 DEF CommitClaim
  <2>5. ASSUME NEW s \in Sessions, NEW t \in Tasks, TaskEnds(s, t) PROVE AttemptsLeft'
    BY <2>1, <2>5 DEF TaskEnds
  <2>6. ASSUME NEW r \in Replicas, NEW S \in SUBSET Tasks, Reclaim(r, S) PROVE AttemptsLeft'
    BY <2>6, ReclaimTyped
  <2>7. ASSUME NEW r \in Replicas,
               \/ Engine(r) /\ ~CommitClaim(r)
               \/ Doorbell(r) \/ Shutdown(r) \/ Signal(r) \/ Crash(r)
               \/ Start(r) \/ ListenerDrops(r) \/ DatabaseRaises(r)
               \/ \E s \in Sessions : Connect(s, r)
        PROVE  UNCHANGED <<row, attempt>>
    BY <2>7
    DEF Engine, WakeUp, CountQueue, EndPass, Retry, LimitRaises, Abandoned, Dequeue,
        Deliver, Doorbell, Subscribe, RingReclaimed, Announce, FireWake, Shutdown,
        DrainEnds, DrainTimesOut, CloseSocket, SessionEnds, LifespanEnds, ProcessGone, Signal,
        Crash, Start, ListenerDrops, DatabaseRaises, Connect
  <2>8. ASSUME \/ \E s \in Sessions :
                    \/ HangUp(s) \/ CapacityFreed(s)
                    \/ \E t \in Tasks : AcceptTask(s, t) \/ RefuseTask(s, t)
               \/ Clock \/ UNCHANGED vars
        PROVE  UNCHANGED <<row, attempt>>
    BY <2>8 DEF HangUp, SessionEnds, CapacityFreed, AcceptTask, RefuseTask, Clock, BackoffElapses,
       ExclusionElapses, vars
  <2> QED
    BY <2>2, <2>3, <2>4, <2>5, <2>6, <2>7, <2>8 DEF Next
<1> QED
  BY <1>1, <1>2


-----------------------------------------------------------------------------
(***************************************************************************)
(* The pass.                                                               *)
(***************************************************************************)

\* What a claim locks: rows that were eligible and unlocked, and all of them unless
\* the limit is reached.
LEMMA DequeueEffect ==
    ASSUME TypeOK, NEW r \in Replicas, NEW s \in Sessions, Dequeue(r, s)
    PROVE  \E B \in SUBSET Tasks :
              /\ \A t \in B : Eligible(s, t) /\ lock[t] = None
              /\ \A t \in Tasks : Eligible(s, t) /\ lock[t] = None /\ t \notin B => B # {}
              /\ lock' = [t \in Tasks |-> IF t \in B THEN r ELSE lock[t]]
              /\ batch' = [batch EXCEPT ![r] = B]
              /\ cur' = [cur EXCEPT ![r] = IF B = {} THEN None ELSE s]
              /\ todo' = [todo EXCEPT ![r] = @ \ {s}]
<1> DEFINE limit == Min({FreeCredits(s), DequeueMaxBatch})
           free == {t \in Tasks : Eligible(s, t) /\ lock[t] = None}
           k == Min({limit, Cardinality(free)})
<1>1. PICK B \in kSubset(k, free) :
         /\ lock' = [t \in Tasks |-> IF t \in B THEN r ELSE lock[t]]
         /\ batch' = [batch EXCEPT ![r] = B]
         /\ cur' = [cur EXCEPT ![r] = IF B = {} THEN None ELSE s]
  BY DEF Dequeue
<1>2. limit > 0 /\ todo' = [todo EXCEPT ![r] = @ \ {s}]
  BY DEF Dequeue
<1>3. B \in SUBSET free /\ Cardinality(B) = k
  BY <1>1 DEF kSubset
<1>4. IsFiniteSet(free) /\ Cardinality(free) \in Nat
  BY ReplicaConstants, FS_Subset, FS_CardinalityType
<1>5. ASSUME NEW a \in Nat, NEW b \in Nat PROVE Min({a, b}) \in {a, b}
  <2>1. \E x \in {a, b} : \A y \in {a, b} : x =< y
    OBVIOUS
  <2> QED BY <2>1 DEF Min
<1>6. limit \in Nat
  <2>1. IsFiniteSet(credited[s])
    BY ReplicaConstants, FS_Subset DEF TypeOK
  <2>2. Cardinality(credited[s]) \in Nat
    BY <2>1, FS_CardinalityType
  <2>3. FreeCredits(s) \in Nat /\ DequeueMaxBatch \in Nat
    BY <2>2, ReplicaConstants, SlotsAssumption DEF FreeCredits
  <2> QED BY <1>5, <2>3
<1> HIDE DEF limit, free
<1>7. k \in {limit, Cardinality(free)}
  BY <1>4, <1>5, <1>6
<1>8. ASSUME B = {} PROVE free = {}
  <2>1. Cardinality(B) = 0
    BY <1>8, FS_EmptySet
  <2>2. Cardinality(free) = 0
    BY <1>2, <1>3, <1>4, <1>6, <1>7, <2>1
  <2> QED BY <1>4, <2>2, FS_EmptySet
<1> QED
  BY <1>1, <1>2, <1>3, <1>8 DEF free

\* Steps that leave the passes and the locks alone.
Elsewhere ==
    \/ \E r \in Replicas :
          \/ Doorbell(r) \/ Signal(r) \/ ListenerDrops(r)
          \/ DrainEnds(r) \/ DrainTimesOut(r)
          \/ \E t \in Tasks : Enqueue(r, t)
          \/ \E S \in SUBSET Tasks : Reclaim(r, S)
          \/ \E s \in Sessions : Connect(s, r)
    \/ \E s \in Sessions :
          \/ SessionEnds(s) \/ CapacityFreed(s)
          \/ \E t \in Tasks : AcceptTask(s, t) \/ RefuseTask(s, t) \/ TaskEnds(s, t)
    \/ Clock
    \/ UNCHANGED vars

\* They do.
LEMMA ElsewhereEffect ==
    ASSUME Elsewhere
    PROVE  /\ UNCHANGED <<lock, engine, todo, cur, batch, got>>
           /\ \A t \in Tasks : TypeOK /\ row[t] = "queued" => row'[t] = "queued"
<1> USE DEF rowVars, passVars, tailVars, lifeVars, sessionVars
<1>1. UNCHANGED <<lock, engine, todo, cur, batch, got>>
  BY DEF Elsewhere, Doorbell, Subscribe, RingReclaimed, Announce, FireWake, Signal,
     ListenerDrops, DrainEnds, DrainTimesOut, Enqueue, Reclaim, Connect, SessionEnds,
     CapacityFreed, AcceptTask, RefuseTask, TaskEnds, Clock, BackoffElapses,
     ExclusionElapses, vars
<1>2. ASSUME NEW t \in Tasks, TypeOK, row[t] = "queued" PROVE row'[t] = "queued"
  <2>1. ASSUME NEW r \in Replicas, NEW u \in Tasks, Enqueue(r, u) PROVE row'[t] = "queued"
    BY <1>2, <2>1 DEF Enqueue, TypeOK
  <2>2. ASSUME NEW r \in Replicas, NEW S \in SUBSET Tasks, Reclaim(r, S)
        PROVE  row'[t] = "queued"
    BY <1>2, <2>2 DEF Reclaim
  <2>3. ASSUME NEW s \in Sessions, NEW u \in Tasks, TaskEnds(s, u) PROVE row'[t] = "queued"
    BY <1>2, <2>3 DEF TaskEnds, TypeOK
  <2>4. CASE UNCHANGED row
    BY <1>2, <2>4
  <2> QED
    BY <2>1, <2>2, <2>3, <2>4
    DEF Elsewhere, Doorbell, Subscribe, RingReclaimed, Announce, FireWake, Signal,
        ListenerDrops, DrainEnds, DrainTimesOut, Connect, SessionEnds, CapacityFreed,
        AcceptTask, RefuseTask, Clock, BackoffElapses, ExclusionElapses, vars
<1> QED
  BY <1>1, <1>2

\* Everything else is a step of a pass, or the end or the start of a process.
LEMMA StepCases ==
    ASSUME [Next]_vars
    PROVE  \/ Elsewhere
           \/ \E r \in Replicas :
                 \/ Engine(r) \/ DatabaseRaises(r) \/ LifespanEnds(r) \/ Crash(r) \/ Start(r)
<1> QED
  BY DEF Next, Elsewhere, Shutdown, HangUp, CloseSocket, Local

\* A claim not committed keeps its rows.
LEMMA StepKeepsLocks ==
    ASSUME TypeOK, PassInv, [Next]_vars
    PROVE  LockedIsBatch'
<1> USE ReplicaConstants DEF PassInv, LockedIsBatch
<1>0. \A q \in Replicas : q # None
  OBVIOUS
<1>1. CASE Elsewhere
  BY <1>1, ElsewhereEffect
<1>2. ASSUME NEW r \in Replicas, UNCHANGED <<lock, row, batch>> PROVE LockedIsBatch'
  BY <1>2
<1>3. ASSUME NEW r \in Replicas, lock' = Unlocked(r), batch' = [batch EXCEPT ![r] = {}],
             UNCHANGED row
      PROVE  LockedIsBatch'
  <2>1. \A t \in Tasks : /\ lock'[t] # r
                         /\ lock[t] # r => lock'[t] = lock[t]
                         /\ lock[t] = r => lock'[t] = None
    BY <1>3, UnlockedTyped
  <2>2. \A q \in Replicas : batch'[q] = IF q = r THEN {} ELSE batch[q]
    BY <1>3 DEF TypeOK
  <2>3. \A q \in Replicas : batch[q] \subseteq Tasks
    BY DEF TypeOK
  <2> QED BY <1>0, <1>3, <2>1, <2>2, <2>3
<1>4. ASSUME NEW r \in Replicas, NEW s \in Sessions, Dequeue(r, s) PROVE LockedIsBatch'
  <2>1. PICK B \in SUBSET Tasks :
              /\ \A t \in B : Eligible(s, t) /\ lock[t] = None
              /\ \A t \in Tasks : Eligible(s, t) /\ lock[t] = None /\ t \notin B => B # {}
              /\ lock' = [t \in Tasks |-> IF t \in B THEN r ELSE lock[t]]
              /\ batch' = [batch EXCEPT ![r] = B]
              /\ cur' = [cur EXCEPT ![r] = IF B = {} THEN None ELSE s]
              /\ todo' = [todo EXCEPT ![r] = @ \ {s}]
    BY <1>4, DequeueEffect
  <2>2. batch[r] = {} /\ row' = row
    BY <1>4 DEF Dequeue, PassShape
  <2>3. \A q \in Replicas : batch'[q] = IF q = r THEN B ELSE batch[q]
    BY <2>1 DEF TypeOK
  <2>4. \A t \in Tasks : lock'[t] = IF t \in B THEN r ELSE lock[t]
    BY <2>1
  <2>5. \A q \in Replicas : batch[q] \subseteq Tasks
    BY DEF TypeOK
  <2>6. ASSUME NEW q \in Replicas, NEW t \in Tasks, lock'[t] = q
        PROVE  t \in batch'[q] /\ row'[t] = "queued"
    BY <1>0, <2>1, <2>2, <2>3, <2>4, <2>6 DEF Eligible
  <2>7. ASSUME NEW q \in Replicas
        PROVE  (\A t \in batch'[q] : lock'[t] = q) \/ (\A t \in batch'[q] : lock'[t] # q)
    <3>1. CASE q = r
      BY <2>3, <2>4, <3>1
    <3>2. CASE q # r
      BY <1>0, <2>1, <2>3, <2>4, <2>5, <3>2
    <3> QED BY <3>1, <3>2
  <2> QED BY <2>6, <2>7
<1>5. ASSUME NEW r \in Replicas, CommitClaim(r) PROVE LockedIsBatch'
  <2>1. \A t \in Tasks : /\ lock'[t] # r
                         /\ lock[t] # r => lock'[t] = lock[t]
                         /\ lock[t] = r => lock'[t] = None
    BY <1>5, UnlockedTyped DEF CommitClaim
  <2>2. batch' = batch /\ \A t \in Tasks : t \notin batch[r] => row'[t] = row[t]
    BY <1>5 DEF CommitClaim, passVars
  <2>3. \A t \in batch[r] : lock[t] = r
    BY <1>5 DEF CommitClaim
  <2>4. \A q \in Replicas : batch[q] \subseteq Tasks
    BY DEF TypeOK
  <2> QED BY <1>0, <2>1, <2>2, <2>3, <2>4
<1>6. ASSUME NEW r \in Replicas, NEW t \in Tasks, Deliver(r, t) PROVE LockedIsBatch'
  <2>1. UNCHANGED <<lock, row>> /\ batch' = [batch EXCEPT ![r] = @ \ {t}] /\ lock[t] # r
    BY <1>6 DEF Deliver, rowVars
  <2>2. \A q \in Replicas : batch'[q] = IF q = r THEN batch[q] \ {t} ELSE batch[q]
    <3>1. batch \in [Replicas -> SUBSET Tasks]
      BY DEF TypeOK
    <3> QED BY <2>1, <3>1
  <2> QED BY <2>1, <2>2
<1>7. ASSUME NEW r \in Replicas, WakeUp(r) \/ CountQueue(r) \/ EndPass(r) \/ Retry(r) \/ Start(r)
      PROVE  LockedIsBatch'
  <2>1. UNCHANGED <<lock, row, batch>>
    BY <1>7 DEF WakeUp, CountQueue, EndPass, Retry, Start, rowVars
  <2> QED BY <1>2, <1>7, <2>1
<1>8. ASSUME NEW r \in Replicas, \/ LimitRaises(r) \/ DatabaseRaises(r)
                                 \/ LifespanEnds(r) \/ Crash(r)
      PROVE  LockedIsBatch'
  <2>1. lock' = Unlocked(r) /\ batch' = [batch EXCEPT ![r] = {}] /\ UNCHANGED row
    BY <1>8 DEF LimitRaises, DatabaseRaises, Abandoned, LifespanEnds, Crash, ProcessGone
  <2> QED BY <1>3, <2>1
<1> QED
  BY <1>1, <1>4, <1>5, <1>6, <1>7, <1>8, StepCases DEF Engine


\* No process comes or goes in such a step, and none stops draining.
LEMMA ElsewhereLife ==
    ASSUME TypeOK, Elsewhere
    PROVE  \A q \in Replicas : /\ Alive(q)' <=> Alive(q)
                               /\ draining[q] => draining'[q]
<1> USE DEF rowVars, passVars, tailVars, lifeVars, sessionVars
<1>1. CASE UNCHANGED <<proc, draining>>
  BY <1>1 DEF Alive
<1>2. ASSUME NEW r \in Replicas, Signal(r) \/ DrainEnds(r) \/ DrainTimesOut(r)
      PROVE  \A q \in Replicas : /\ Alive(q)' <=> Alive(q)
                                 /\ draining[q] => draining'[q]
  <2>1. /\ proc \in [Replicas -> {"up", "draining", "exiting", "down"}]
        /\ draining \in [Replicas -> BOOLEAN]
    BY DEF TypeOK
  <2>2. /\ proc[r] # "down"
        /\ \/ proc' = [proc EXCEPT ![r] = "exiting"]
           \/ proc' = [proc EXCEPT ![r] = "draining"]
        /\ UNCHANGED draining \/ draining' = [draining EXCEPT ![r] = TRUE]
    BY <1>2 DEF Signal, DrainEnds, DrainTimesOut
  <2>3. \A q \in Replicas : Alive(q)' <=> Alive(q)
    BY <2>1, <2>2 DEF Alive
  <2>4. \A q \in Replicas : draining[q] => draining'[q]
    BY <2>1, <2>2
  <2> QED BY <2>3, <2>4
<1> QED
  BY <1>1, <1>2
  DEF Elsewhere, Doorbell, Subscribe, RingReclaimed, Announce, FireWake, ListenerDrops,
      Enqueue, Reclaim, Connect, SessionEnds, CapacityFreed, AcceptTask, RefuseTask,
      TaskEnds, Clock, BackoffElapses, ExclusionElapses, vars

\* One step of the assignment loop of r, seen from its locals: the sessions whose turn
\* is still to come, the session and the batch it is at, and where the loop is.
PassMove(r) ==
    \/ /\ engine[r] \in {"waiting", "passing"} /\ cur[r] = None /\ todo[r] = {}
       /\ UNCHANGED <<cur, batch>>
       /\ \/ /\ engine' = [engine EXCEPT ![r] = "waiting"] /\ todo' = todo
          \/ /\ engine' = [engine EXCEPT ![r] = "counting"]
             /\ ~draining[r] /\ todo' = [todo EXCEPT ![r] = Candidates(r)]
    \/ /\ engine[r] = "counting" /\ UNCHANGED <<cur, batch>>
       /\ \/ /\ engine' = [engine EXCEPT ![r] = "waiting"]
             /\ todo' = [todo EXCEPT ![r] = {}]
          \/ /\ engine' = [engine EXCEPT ![r] = "passing"] /\ todo' = todo
    \/ /\ engine[r] = "backoff" /\ engine' = [engine EXCEPT ![r] = "waiting"]
       /\ UNCHANGED <<todo, cur, batch>>
    \/ /\ engine[r] # "stopped" /\ engine' = [engine EXCEPT ![r] = "backoff"]
       /\ todo' = [todo EXCEPT ![r] = {}]
       /\ cur' = [cur EXCEPT ![r] = None] /\ batch' = [batch EXCEPT ![r] = {}]
    \/ /\ engine[r] = "passing" /\ engine' = engine /\ UNCHANGED <<todo, cur, batch>>
    \/ /\ engine[r] = "passing" /\ engine' = engine
       /\ cur[r] = None
       /\ \E s \in todo[r], B \in SUBSET Tasks :
             /\ todo' = [todo EXCEPT ![r] = @ \ {s}]
             /\ batch' = [batch EXCEPT ![r] = B]
             /\ cur' = [cur EXCEPT ![r] = IF B = {} THEN None ELSE s]
    \/ /\ engine[r] = "passing" /\ engine' = engine /\ todo' = todo
       /\ \E t \in batch[r] :
             /\ batch' = [batch EXCEPT ![r] = @ \ {t}]
             /\ cur' = [cur EXCEPT ![r] = IF batch[r] = {t} THEN None ELSE @]

\* Every step of the loop is one of these.
LEMMA EngineIsPassMove ==
    ASSUME TypeOK, PassShape, NEW r \in Replicas, Engine(r) \/ DatabaseRaises(r)
    PROVE  PassMove(r) /\ UNCHANGED <<stage, at, proc, draining>>
<1> USE DEF rowVars, passVars, tailVars, lifeVars, sessionVars
<1>0. UNCHANGED <<stage, at, proc, draining>>
  BY DEF Engine, WakeUp, CountQueue, CommitClaim, EndPass, Retry, LimitRaises,
     DatabaseRaises, Abandoned, Dequeue, Deliver
<1>1. CASE WakeUp(r)
  <2>1. cur[r] = None /\ todo[r] = {} /\ engine[r] = "waiting" /\ UNCHANGED <<cur, batch>>
    BY <1>1 DEF WakeUp, PassShape
  <2>2. \/ engine' = [engine EXCEPT ![r] = "waiting"] /\ todo' = todo
        \/ /\ engine' = [engine EXCEPT ![r] = "counting"]
           /\ ~draining[r] /\ todo' = [todo EXCEPT ![r] = Candidates(r)]
    BY <1>1 DEF WakeUp, BeginPass
  <2> QED BY <1>0, <2>1, <2>2, Zenon DEF PassMove
<1>2. CASE CountQueue(r)
  <2>1. /\ engine[r] = "counting" /\ UNCHANGED <<cur, batch>>
        /\ \/ /\ engine' = [engine EXCEPT ![r] = "waiting"]
              /\ todo' = [todo EXCEPT ![r] = {}]
           \/ /\ engine' = [engine EXCEPT ![r] = "passing"] /\ todo' = todo
    BY <1>2 DEF CountQueue
  <2> QED BY <1>0, <2>1, Zenon DEF PassMove
<1>3. CASE CommitClaim(r)
  <2>1. engine[r] = "passing" /\ engine' = engine /\ UNCHANGED <<todo, cur, batch>>
    BY <1>3 DEF CommitClaim
  <2> QED BY <1>0, <2>1, Zenon DEF PassMove
<1>4. CASE EndPass(r)
  <2>1. cur[r] = None /\ todo[r] = {} /\ engine[r] = "passing" /\ UNCHANGED <<cur, batch>>
    BY <1>4 DEF EndPass
  <2>2. \/ engine' = [engine EXCEPT ![r] = "waiting"] /\ todo' = todo
        \/ /\ engine' = [engine EXCEPT ![r] = "counting"]
           /\ ~draining[r] /\ todo' = [todo EXCEPT ![r] = Candidates(r)]
    BY <1>4 DEF EndPass, BeginPass
  <2> QED BY <1>0, <2>1, <2>2, Zenon DEF PassMove
<1>5. CASE Retry(r)
  <2>1. /\ engine[r] = "backoff" /\ engine' = [engine EXCEPT ![r] = "waiting"]
        /\ UNCHANGED <<todo, cur, batch>>
    BY <1>5 DEF Retry
  <2> QED BY <1>0, <2>1, Zenon DEF PassMove
<1>6. CASE LimitRaises(r) \/ DatabaseRaises(r)
  <2>1. /\ engine[r] # "stopped" /\ engine' = [engine EXCEPT ![r] = "backoff"]
        /\ todo' = [todo EXCEPT ![r] = {}]
        /\ cur' = [cur EXCEPT ![r] = None] /\ batch' = [batch EXCEPT ![r] = {}]
    BY <1>6 DEF LimitRaises, DatabaseRaises, Abandoned
  <2> QED BY <1>0, <2>1, Zenon DEF PassMove
<1>7. ASSUME NEW s \in Sessions, Dequeue(r, s) PROVE PassMove(r)
  <2>1. engine[r] = "passing" /\ engine' = engine /\ cur[r] = None /\ s \in todo[r]
    BY <1>7 DEF Dequeue
  <2>2. \E B \in SUBSET Tasks :
             /\ todo' = [todo EXCEPT ![r] = @ \ {s}]
             /\ batch' = [batch EXCEPT ![r] = B]
             /\ cur' = [cur EXCEPT ![r] = IF B = {} THEN None ELSE s]
    BY <1>7, DequeueEffect
  <2> QED BY <2>1, <2>2, Zenon DEF PassMove
<1>8. ASSUME NEW t \in Tasks, Deliver(r, t) PROVE PassMove(r)
  <2>1. /\ engine[r] = "passing" /\ engine' = engine /\ todo' = todo /\ t \in batch[r]
        /\ batch' = [batch EXCEPT ![r] = @ \ {t}]
        /\ cur' = [cur EXCEPT ![r] = IF batch[r] = {t} THEN None ELSE @]
    BY <1>8 DEF Deliver
  <2> QED BY <2>1, Zenon DEF PassMove
<1> QED
  BY <1>0, <1>1, <1>2, <1>3, <1>4, <1>5, <1>6, <1>7, <1>8 DEF Engine

\* What the pass of r looks like after such a step; those of the others are untouched.
LEMMA PassMoveEffect ==
    ASSUME TypeOK, PassShape, PassSessions, NEW r \in Replicas, PassMove(r)
    PROVE  /\ \A q \in Replicas : q # r => /\ engine'[q] = engine[q] /\ todo'[q] = todo[q]
                                           /\ cur'[q] = cur[q] /\ batch'[q] = batch[q]
           /\ cur'[r] = None <=> batch'[r] = {}
           /\ engine'[r] # "passing" => cur'[r] = None
           /\ engine'[r] \notin {"counting", "passing"} => todo'[r] = {}
           /\ engine'[r] # "stopped" /\ engine[r] # "stopped"
           /\ cur'[r] \notin todo'[r]
           /\ \/ todo'[r] = Candidates(r) /\ cur'[r] = None /\ ~draining[r]
              \/ /\ todo'[r] \subseteq todo[r]
                 /\ cur'[r] \in todo[r] \cup {cur[r], None}
<1> USE ReplicaConstants DEF PassShape, PassSessions
<1>0. /\ engine \in [Replicas -> {"waiting", "counting", "passing", "backoff", "stopped"}]
      /\ todo \in [Replicas -> SUBSET Sessions]
      /\ cur \in [Replicas -> Sessions \cup {None}]
      /\ batch \in [Replicas -> SUBSET Tasks]
      /\ Candidates(r) \subseteq Sessions
  BY DEF TypeOK, Candidates, Local
<1>1. CASE /\ engine[r] \in {"waiting", "passing"} /\ cur[r] = None /\ todo[r] = {}
           /\ UNCHANGED <<cur, batch>>
           /\ \/ /\ engine' = [engine EXCEPT ![r] = "waiting"] /\ todo' = todo
              \/ /\ engine' = [engine EXCEPT ![r] = "counting"]
                 /\ ~draining[r] /\ todo' = [todo EXCEPT ![r] = Candidates(r)]
  BY <1>0, <1>1
<1>2. CASE /\ engine[r] = "counting" /\ UNCHANGED <<cur, batch>>
           /\ \/ /\ engine' = [engine EXCEPT ![r] = "waiting"]
                 /\ todo' = [todo EXCEPT ![r] = {}]
              \/ /\ engine' = [engine EXCEPT ![r] = "passing"] /\ todo' = todo
  BY <1>0, <1>2
<1>3. CASE /\ engine[r] = "backoff" /\ engine' = [engine EXCEPT ![r] = "waiting"]
           /\ UNCHANGED <<todo, cur, batch>>
  BY <1>0, <1>3
<1>4. CASE /\ engine[r] # "stopped" /\ engine' = [engine EXCEPT ![r] = "backoff"]
           /\ todo' = [todo EXCEPT ![r] = {}]
           /\ cur' = [cur EXCEPT ![r] = None] /\ batch' = [batch EXCEPT ![r] = {}]
  BY <1>0, <1>4
<1>5. CASE engine[r] = "passing" /\ engine' = engine /\ UNCHANGED <<todo, cur, batch>>
  BY <1>0, <1>5
<1>6. ASSUME engine[r] = "passing", engine' = engine, cur[r] = None,
             NEW s \in todo[r], NEW B \in SUBSET Tasks,
             todo' = [todo EXCEPT ![r] = @ \ {s}],
             batch' = [batch EXCEPT ![r] = B],
             cur' = [cur EXCEPT ![r] = IF B = {} THEN None ELSE s]
      PROVE  /\ \A q \in Replicas : q # r => /\ engine'[q] = engine[q] /\ todo'[q] = todo[q]
                                             /\ cur'[q] = cur[q] /\ batch'[q] = batch[q]
             /\ cur'[r] = None <=> batch'[r] = {}
             /\ engine'[r] = "passing"
             /\ cur'[r] \notin todo'[r]
             /\ todo'[r] \subseteq todo[r]
             /\ cur'[r] \in todo[r] \cup {cur[r], None}
  BY <1>0, <1>6
<1>7. ASSUME engine[r] = "passing", engine' = engine, todo' = todo, NEW t \in batch[r],
             batch' = [batch EXCEPT ![r] = @ \ {t}],
             cur' = [cur EXCEPT ![r] = IF batch[r] = {t} THEN None ELSE @]
      PROVE  /\ \A q \in Replicas : q # r => /\ engine'[q] = engine[q] /\ todo'[q] = todo[q]
                                             /\ cur'[q] = cur[q] /\ batch'[q] = batch[q]
             /\ cur'[r] = None <=> batch'[r] = {}
             /\ engine'[r] = "passing"
             /\ cur'[r] \notin todo'[r]
             /\ todo'[r] \subseteq todo[r]
             /\ cur'[r] \in todo[r] \cup {cur[r], None}
  BY <1>0, <1>7
<1> QED
  BY <1>1, <1>2, <1>3, <1>4, <1>5, <1>6, <1>7 DEF PassMove


\* A process that is gone has forgotten its pass; the others have not.
LEMMA GoneEffect ==
    ASSUME TypeOK, NEW r \in Replicas, ProcessGone(r)
    PROVE  /\ \A q \in Replicas : q # r =>
                 /\ engine'[q] = engine[q] /\ todo'[q] = todo[q] /\ cur'[q] = cur[q]
                 /\ batch'[q] = batch[q] /\ proc'[q] = proc[q] /\ got'[q] = got[q]
                 /\ draining'[q] = draining[q] /\ bell'[q] = bell[q]
           /\ engine'[r] = "stopped" /\ todo'[r] = {} /\ cur'[r] = None
           /\ batch'[r] = {} /\ proc'[r] = "down"
<1>1. /\ \A q \in Replicas : q # r => engine'[q] = engine[q] /\ proc'[q] = proc[q]
      /\ engine'[r] = "stopped" /\ proc'[r] = "down"
  BY DEF TypeOK, ProcessGone
<1>2. /\ \A q \in Replicas : q # r => /\ todo'[q] = todo[q] /\ cur'[q] = cur[q]
                                      /\ batch'[q] = batch[q]
      /\ todo'[r] = {} /\ cur'[r] = None /\ batch'[r] = {}
  BY DEF TypeOK, ProcessGone
<1>3. \A q \in Replicas : q # r => /\ got'[q] = got[q] /\ draining'[q] = draining[q]
                                   /\ bell'[q] = bell[q]
  BY DEF TypeOK, ProcessGone
<1> QED
  BY <1>1, <1>2, <1>3

\* What becomes of the sessions when a process ends: none of its own is left open.
LEMMA EndEffect ==
    ASSUME TypeOK, NEW r \in Replicas, LifespanEnds(r) \/ Crash(r)
    PROVE  /\ ProcessGone(r)
           /\ \A s \in Sessions : stage'[s] = stage[s] \/ stage'[s] = "closed"
           /\ \A s \in Sessions : stage'[s] = "open" =>
                 /\ stage[s] = "open" /\ at[s] # r /\ at'[s] = at[s]
                 /\ credited'[s] = credited[s] /\ saturated'[s] = saturated[s]
<1>1. CASE LifespanEnds(r)
  BY <1>1 DEF LifespanEnds, Local, sessionVars
<1>2. CASE Crash(r)
  <2>1. ProcessGone(r) /\ Closed(Local(r))
    BY <1>2 DEF Crash
  <2>2. \A s \in Sessions :
           /\ s \in Local(r) => stage'[s] = "closed"
           /\ s \notin Local(r) => /\ stage'[s] = stage[s] /\ at'[s] = at[s]
                                   /\ credited'[s] = credited[s]
    BY <2>1 DEF Closed
  <2>3. \A s \in Sessions : s \notin Local(r) => saturated'[s] = saturated[s]
    BY <2>1 DEF Closed, TypeOK
  <2> QED BY <2>1, <2>2, <2>3 DEF Local
<1> QED
  BY <1>1, <1>2

\* The locals of the pass stay in step.
LEMMA StepKeepsShape ==
    ASSUME TypeOK, PassInv, [Next]_vars
    PROVE  PassShape'
<1> USE DEF PassInv
<1>1. CASE Elsewhere
  BY <1>1, ElsewhereEffect, ElsewhereLife DEF PassShape
<1>2. ASSUME NEW r \in Replicas, Engine(r) \/ DatabaseRaises(r) PROVE PassShape'
  <2>1. PassMove(r) /\ UNCHANGED proc
    BY <1>2, EngineIsPassMove
  <2>2. \A q \in Replicas : Alive(q)' <=> Alive(q)
    BY <2>1 DEF Alive
  <2> QED BY <2>1, <2>2, PassMoveEffect DEF PassShape
<1>3. ASSUME NEW r \in Replicas, LifespanEnds(r) \/ Crash(r) PROVE PassShape'
  BY <1>3, EndEffect, GoneEffect DEF PassShape, Alive
<1>4. ASSUME NEW r \in Replicas, Start(r) PROVE PassShape'
  <2>1. /\ UNCHANGED <<todo, cur, batch>> /\ proc[r] = "down"
        /\ engine'[r] = "waiting" /\ proc'[r] = "up"
        /\ \A q \in Replicas : q # r => engine'[q] = engine[q] /\ proc'[q] = proc[q]
    BY <1>4 DEF Start, TypeOK
  <2>2. engine[r] = "stopped"
    BY <2>1 DEF PassShape, Alive
  <2> QED BY <2>1, <2>2 DEF PassShape, Alive
<1> QED
  BY <1>1, <1>2, <1>3, <1>4, StepCases

\* What may happen to a session in a step that leaves the passes alone.
LEMMA ElsewhereSessions ==
    ASSUME TypeOK, Elsewhere
    PROVE  \A s \in Sessions :
              \/ UNCHANGED <<stage[s], at[s]>>
              \/ stage'[s] = "closed"
              \/ /\ stage[s] = "new" /\ stage'[s] = "open" /\ at'[s] \in Replicas
                 /\ Alive(at'[s])
<1> USE DEF rowVars, passVars, tailVars, lifeVars, sessionVars
<1>1. CASE UNCHANGED <<stage, at>>
  BY <1>1
<1>2. ASSUME NEW o \in Sessions, SessionEnds(o)
      PROVE  \A s \in Sessions : UNCHANGED <<stage[s], at[s]>> \/ stage'[s] = "closed"
  BY <1>2 DEF SessionEnds, Closed
<1>3. ASSUME NEW o \in Sessions, NEW r \in Replicas, Connect(o, r)
      PROVE  \A s \in Sessions :
                \/ UNCHANGED <<stage[s], at[s]>>
                \/ stage[s] = "new" /\ stage'[s] = "open" /\ at'[s] = r /\ Alive(r)
  <2>1. Alive(r)
    BY <1>3 DEF Connect, Alive
  <2>2. /\ stage' = [stage EXCEPT ![o] = "open"] /\ at' = [at EXCEPT ![o] = r]
        /\ stage[o] = "new"
    BY <1>3 DEF Connect
  <2>3. /\ stage \in [Sessions -> {"new", "open", "closed"}]
        /\ at \in [Sessions -> Replicas \cup {None}]
    BY DEF TypeOK
  <2>4. /\ \A s \in Sessions : s # o => stage'[s] = stage[s] /\ at'[s] = at[s]
        /\ stage'[o] = "open" /\ at'[o] = r
    BY ONLY <2>2, <2>3, o \in Sessions
  <2> QED BY ONLY <2>1, <2>2, <2>4
<1>4. \/ UNCHANGED <<stage, at>>
      \/ \E o \in Sessions : SessionEnds(o)
      \/ \E o \in Sessions, r \in Replicas : Connect(o, r)
  <2>1. ASSUME NEW r \in Replicas,
               \/ Doorbell(r) \/ Signal(r) \/ ListenerDrops(r)
               \/ DrainEnds(r) \/ DrainTimesOut(r)
               \/ \E t \in Tasks : Enqueue(r, t)
               \/ \E S \in SUBSET Tasks : Reclaim(r, S)
        PROVE  UNCHANGED <<stage, at>>
    BY <2>1 DEF Doorbell, Subscribe, RingReclaimed, Announce, FireWake, Signal,
       ListenerDrops, DrainEnds, DrainTimesOut, Enqueue, Reclaim
  <2>2. ASSUME NEW s \in Sessions,
               \/ CapacityFreed(s)
               \/ \E t \in Tasks : AcceptTask(s, t) \/ RefuseTask(s, t) \/ TaskEnds(s, t)
        PROVE  UNCHANGED <<stage, at>>
    BY <2>2 DEF CapacityFreed, AcceptTask, RefuseTask, TaskEnds
  <2>3. ASSUME Clock \/ UNCHANGED vars PROVE UNCHANGED <<stage, at>>
    BY <2>3 DEF Clock, BackoffElapses, ExclusionElapses, vars
  <2> QED BY <2>1, <2>2, <2>3, Zenon DEF Elsewhere
<1>5. ASSUME NEW o \in Sessions, NEW r \in Replicas, Connect(o, r), NEW s \in Sessions
      PROVE  \/ UNCHANGED <<stage[s], at[s]>>
             \/ /\ stage[s] = "new" /\ stage'[s] = "open" /\ at'[s] \in Replicas
                /\ Alive(at'[s])
  BY <1>3, <1>5, Zenon
<1> QED
  BY <1>1, <1>2, <1>4, <1>5

\* Sockets end before their process does.
LEMMA StepKeepsOpen ==
    ASSUME TypeOK, PassInv, [Next]_vars
    PROVE  OpenIsAlive'
<1> USE DEF PassInv
<1>1. CASE Elsewhere
  <2>1. \A q \in Replicas : Alive(q)' <=> Alive(q)
    BY <1>1, ElsewhereLife
  <2>2. ASSUME NEW s \in Sessions, stage'[s] = "open"
        PROVE  at'[s] \in Replicas /\ Alive(at'[s])
    BY <1>1, <2>2, ElsewhereSessions DEF OpenIsAlive
  <2>3. \A q \in Replicas : Alive(q) => proc'[q] # "down"
    BY <2>1 DEF Alive
  <2> QED BY <2>2, <2>3 DEF OpenIsAlive, Alive
<1>2. ASSUME NEW r \in Replicas, Engine(r) \/ DatabaseRaises(r) PROVE OpenIsAlive'
  BY <1>2, EngineIsPassMove DEF OpenIsAlive, Alive
<1>3. ASSUME NEW r \in Replicas, LifespanEnds(r) \/ Crash(r) PROVE OpenIsAlive'
  BY <1>3, EndEffect, GoneEffect DEF OpenIsAlive, Alive
<1>4. ASSUME NEW r \in Replicas, Start(r) PROVE OpenIsAlive'
  <2>1. /\ UNCHANGED <<stage, at>> /\ proc'[r] = "up"
        /\ \A q \in Replicas : q # r => proc'[q] = proc[q]
    BY <1>4 DEF Start, TypeOK, sessionVars
  <2> QED BY <2>1 DEF OpenIsAlive, Alive
<1> QED
  BY <1>1, <1>2, <1>3, <1>4, StepCases

\* A pass refers to the replica's own sessions, each once.
LEMMA StepKeepsPassSessions ==
    ASSUME TypeOK, PassInv, [Next]_vars
    PROVE  PassSessions'
<1> USE ReplicaConstants DEF PassInv
<1>0. /\ todo \in [Replicas -> SUBSET Sessions]
      /\ cur \in [Replicas -> Sessions \cup {None}]
  BY DEF TypeOK
<1>1. CASE Elsewhere
  <2>1. UNCHANGED <<todo, cur>>
    BY <1>1, ElsewhereEffect
  <2>2. \A r \in Replicas : InPass(r)' = InPass(r)
    BY <2>1 DEF InPass
  <2>3. ASSUME NEW r \in Replicas, NEW s \in InPass(r)
        PROVE  stage'[s] # "new" /\ (stage'[s] = "open" => at'[s] = r)
    BY <1>1, ElsewhereSessions DEF PassSessions, InPass
  <2> QED BY <2>1, <2>2, <2>3 DEF PassSessions
<1>2. ASSUME NEW r \in Replicas, Engine(r) \/ DatabaseRaises(r) PROVE PassSessions'
  <2>1. PassMove(r) /\ UNCHANGED <<stage, at>>
    BY <1>2, EngineIsPassMove
  <2>2. \A q \in Replicas : q # r => InPass(q)' = InPass(q)
    BY <2>1, PassMoveEffect DEF InPass
  <2>3. InPass(r)' \subseteq Candidates(r) \/ InPass(r)' \subseteq InPass(r)
    BY <1>0, <2>1, PassMoveEffect DEF InPass
  <2>4. ASSUME NEW s \in Candidates(r)
        PROVE  stage[s] = "open" /\ at[s] = r /\ \A q \in Replicas : s \in InPass(q) => q = r
    BY DEF Candidates, Local, PassSessions
  <2>5. ASSUME NEW s \in InPass(r)'
        PROVE  /\ stage[s] # "new" /\ (stage[s] = "open" => at[s] = r)
               /\ \A q \in Replicas : s \in InPass(q) => q = r
    BY <2>3, <2>4 DEF PassSessions
  <2>6. \A q \in Replicas : cur'[q] \notin todo'[q]
    BY <2>1, PassMoveEffect DEF PassSessions
  <2>7. ASSUME NEW p \in Replicas, NEW s \in InPass(p)'
        PROVE  /\ stage'[s] # "new" /\ (stage'[s] = "open" => at'[s] = p)
               /\ \A q \in Replicas : s \in InPass(q)' => q = p
    <3>1. CASE p = r
      BY <2>1, <2>2, <2>5, <3>1
    <3>2. CASE p # r
      BY <2>1, <2>2, <2>5, <3>2 DEF PassSessions
    <3> QED BY <3>1, <3>2
  <2> QED BY <2>6, <2>7 DEF PassSessions
<1>3. ASSUME NEW r \in Replicas, LifespanEnds(r) \/ Crash(r) PROVE PassSessions'
  <2>1. /\ ProcessGone(r)
        /\ \A s \in Sessions : stage'[s] = stage[s] \/ stage'[s] = "closed"
        /\ \A s \in Sessions : stage'[s] = "open" => stage[s] = "open" /\ at'[s] = at[s]
    BY <1>3, EndEffect
  <2>2. /\ \A q \in Replicas : q # r => todo'[q] = todo[q] /\ cur'[q] = cur[q]
        /\ todo'[r] = {} /\ cur'[r] = None
    BY <2>1, GoneEffect
  <2>3. \A q \in Replicas : InPass(q)' \subseteq InPass(q)
    BY <2>2 DEF InPass
  <2>4. \A q \in Replicas : cur'[q] \notin todo'[q]
    BY <2>2 DEF PassSessions
  <2>5. ASSUME NEW p \in Replicas, NEW s \in InPass(p)'
        PROVE  /\ stage'[s] # "new" /\ (stage'[s] = "open" => at'[s] = p)
               /\ \A q \in Replicas : s \in InPass(q)' => q = p
    <3>1. s \in Sessions /\ s \in InPass(p)
      BY <2>3 DEF InPass
    <3> QED BY <2>1, <2>3, <3>1 DEF PassSessions
  <2> QED BY <2>4, <2>5 DEF PassSessions
<1>4. ASSUME NEW r \in Replicas, Start(r) PROVE PassSessions'
  BY <1>4 DEF Start, sessionVars, PassSessions, InPass
<1> QED
  BY <1>1, <1>2, <1>3, <1>4, StepCases

\* The invariants of the pass.
LEMMA StepKeepsPass ==
    ASSUME TypeOK, PassInv, [Next]_vars
    PROVE  PassInv'
<1> QED
  BY StepKeepsLocks, StepKeepsShape, StepKeepsPassSessions, StepKeepsOpen DEF PassInv


-----------------------------------------------------------------------------
(***************************************************************************)
(* Claims after the drain has begun.                                       *)
(***************************************************************************)

\* A replica whose turn goes on locks nothing more for it.
LEMMA TurnLocksOnce ==
    ASSUME TypeOK, PassShape, NEW r \in Replicas, Engine(r) \/ DatabaseRaises(r),
           NEW q \in Replicas, cur'[q] # None, cur'[q] = cur[q]
    PROVE  batch'[q] \subseteq batch[q] /\ \A t \in Tasks : lock'[t] = q => lock[t] = q
<1> USE ReplicaConstants DEF rowVars, passVars
<1>1. CASE WakeUp(r) \/ CountQueue(r) \/ EndPass(r) \/ Retry(r)
  BY <1>1 DEF WakeUp, CountQueue, EndPass, Retry
<1>2. CASE CommitClaim(r)
  <2>1. lock' = Unlocked(r) /\ batch' = batch
    BY <1>2 DEF CommitClaim
  <2>2. q # None
    OBVIOUS
  <2> QED BY <2>1, <2>2, UnlockedTyped
<1>3. CASE LimitRaises(r) \/ DatabaseRaises(r)
  <2>1. Abandoned(r)
    BY <1>3 DEF LimitRaises, DatabaseRaises
  <2>2. lock' = Unlocked(r) /\ batch' = [batch EXCEPT ![r] = {}]
    BY <2>1 DEF Abandoned
  <2>3. q # None
    OBVIOUS
  <2>4. \A t \in Tasks : lock'[t] = q => lock[t] = q
    BY <2>2, <2>3, UnlockedTyped
  <2>5. batch'[q] \subseteq batch[q]
    BY <2>2 DEF TypeOK
  <2> QED BY <2>4, <2>5
<1>4. ASSUME NEW s \in Sessions, Dequeue(r, s)
      PROVE  batch'[q] \subseteq batch[q] /\ \A t \in Tasks : lock'[t] = q => lock[t] = q
  <2>1. PICK B \in SUBSET Tasks :
              /\ \A t \in B : Eligible(s, t) /\ lock[t] = None
              /\ \A t \in Tasks : Eligible(s, t) /\ lock[t] = None /\ t \notin B => B # {}
              /\ lock' = [t \in Tasks |-> IF t \in B THEN r ELSE lock[t]]
              /\ batch' = [batch EXCEPT ![r] = B]
              /\ cur' = [cur EXCEPT ![r] = IF B = {} THEN None ELSE s]
              /\ todo' = [todo EXCEPT ![r] = @ \ {s}]
    BY <1>4, DequeueEffect
  <2>2. cur[r] = None
    BY <1>4 DEF Dequeue
  <2>3. q # r
    BY <2>2
  <2>4. batch'[q] = batch[q]
    BY <2>1, <2>3 DEF TypeOK
  <2> QED BY <2>1, <2>3, <2>4
<1>5. ASSUME NEW t \in Tasks, Deliver(r, t)
      PROVE  batch'[q] \subseteq batch[q] /\ \A u \in Tasks : lock'[u] = q => lock[u] = q
  <2>1. batch' = [batch EXCEPT ![r] = @ \ {t}] /\ lock' = lock
    BY <1>5 DEF Deliver
  <2>2. batch \in [Replicas -> SUBSET Tasks]
    BY DEF TypeOK
  <2> QED BY <2>1, <2>2
<1> QED
  BY <1>1, <1>2, <1>3, <1>4, <1>5 DEF Engine

\* Only a commit counts a claim.
LEMMA LateUnchanged ==
    ASSUME [Next]_vars
    PROVE  UNCHANGED late \/ \E r \in Replicas : CommitClaim(r)
<1>1. ASSUME NEW r \in Replicas,
             \/ WakeUp(r) \/ CountQueue(r) \/ EndPass(r) \/ Retry(r) \/ LimitRaises(r)
             \/ DatabaseRaises(r) \/ LifespanEnds(r) \/ Crash(r) \/ Start(r)
             \/ \E s \in Sessions : Dequeue(r, s)
             \/ \E t \in Tasks : Deliver(r, t)
      PROVE  UNCHANGED late
  BY <1>1 DEF WakeUp, CountQueue, EndPass, Retry, LimitRaises, DatabaseRaises, Abandoned,
     LifespanEnds, Crash, ProcessGone, Start, Dequeue, Deliver
<1>2. ASSUME NEW r \in Replicas,
             \/ Doorbell(r) \/ Signal(r) \/ ListenerDrops(r)
             \/ DrainEnds(r) \/ DrainTimesOut(r)
             \/ \E t \in Tasks : Enqueue(r, t)
             \/ \E S \in SUBSET Tasks : Reclaim(r, S)
             \/ \E s \in Sessions : Connect(s, r)
      PROVE  UNCHANGED late
  BY <1>2 DEF Doorbell, Subscribe, RingReclaimed, Announce, FireWake, Signal,
     ListenerDrops, DrainEnds, DrainTimesOut, Enqueue, Reclaim, Connect
<1>3. ASSUME NEW s \in Sessions,
             \/ SessionEnds(s) \/ CapacityFreed(s)
             \/ \E t \in Tasks : AcceptTask(s, t) \/ RefuseTask(s, t) \/ TaskEnds(s, t)
      PROVE  UNCHANGED late
  BY <1>3 DEF SessionEnds, CapacityFreed, AcceptTask, RefuseTask, TaskEnds
<1>4. ASSUME Clock \/ UNCHANGED vars PROVE UNCHANGED late
  BY <1>4 DEF Clock, BackoffElapses, ExclusionElapses, vars
<1> QED
  BY <1>1, <1>2, <1>3, <1>4, StepCases, Zenon DEF Engine, Elsewhere


\* A session claimed for after the drain began is not claimed for again.
LEMMA StepKeepsLate ==
    ASSUME TypeOK, PassInv, LateIsLast, [Next]_vars
    PROVE  LateIsLast'
<1> USE ReplicaConstants DEF PassInv
<1>0. /\ todo \in [Replicas -> SUBSET Sessions]
      /\ cur \in [Replicas -> Sessions \cup {None}]
      /\ batch \in [Replicas -> SUBSET Tasks]
  BY DEF TypeOK
<1>1. ASSUME NEW r \in Replicas, CommitClaim(r) PROVE LateIsLast'
  <2>1. /\ UNCHANGED <<stage, at, draining, todo, cur, batch>> /\ lock' = Unlocked(r)
        /\ late' = [late EXCEPT ![cur[r]] = IF draining[r] THEN @ + 1 ELSE @]
    BY <1>1 DEF CommitClaim, sessionVars, passVars, lifeVars
  <2>2. cur[r] \in Sessions /\ late[cur[r]] = 0
    BY <1>0, <1>1 DEF CommitClaim, PassShape, LateIsLast
  <2>3. \A t \in Tasks : lock'[t] # r /\ \A q \in Replicas : lock'[t] = q => lock[t] = q
    BY <2>1, UnlockedTyped
  <2>4. \A s \in Sessions : s # cur[r] => late'[s] = late[s]
    BY <2>1, <2>2 DEF TypeOK
  <2>5. late'[cur[r]] # 0 => late'[cur[r]] = 1 /\ draining[r]
    BY <2>1, <2>2 DEF TypeOK
  <2>6. /\ stage[cur[r]] # "new" /\ (stage[cur[r]] = "open" => at[cur[r]] = r)
        /\ \A q \in Replicas : cur[r] \notin todo[q]
        /\ \A q \in Replicas : cur[q] = cur[r] => q = r
    BY <2>2 DEF PassSessions, InPass
  <2>7. ASSUME NEW s \in Sessions, late'[s] # 0
        PROVE  /\ late'[s] = 1 /\ stage'[s] # "new"
               /\ stage'[s] = "open" => draining'[at'[s]]
               /\ \A q \in Replicas : /\ s \notin todo'[q]
                                      /\ cur'[q] = s => \A t \in batch'[q] : lock'[t] # q
    <3>1. CASE s = cur[r]
      BY <1>0, <2>1, <2>3, <2>5, <2>6, <2>7, <3>1
    <3>2. CASE s # cur[r]
      <4>1. late[s] # 0 /\ late'[s] = late[s]
        BY <2>4, <2>7, <3>2
      <4> QED BY <1>0, <2>1, <2>3, <4>1 DEF LateIsLast
    <3> QED BY <3>1, <3>2
  <2> QED BY <2>7 DEF LateIsLast
<1>2. ASSUME UNCHANGED late,
             ASSUME NEW s \in Sessions, late[s] # 0
             PROVE  /\ stage'[s] # "new"
                    /\ stage'[s] = "open" => draining'[at'[s]]
                    /\ \A q \in Replicas :
                          /\ s \notin todo'[q]
                          /\ cur'[q] = s => \A t \in batch'[q] : lock'[t] # q
      PROVE  LateIsLast'
  BY <1>2 DEF LateIsLast
<1>3. ASSUME Elsewhere, UNCHANGED late PROVE LateIsLast'
  <2>1. UNCHANGED <<lock, todo, cur, batch>>
    BY <1>3, ElsewhereEffect
  <2>2. ASSUME NEW s \in Sessions, late[s] # 0
        PROVE  stage'[s] # "new" /\ (stage'[s] = "open" => draining'[at'[s]])
    <3>1. stage[s] # "new" /\ (stage[s] = "open" => draining[at[s]] /\ at[s] \in Replicas)
      BY <2>2 DEF LateIsLast, OpenIsAlive
    <3>2. UNCHANGED <<stage[s], at[s]>> \/ stage'[s] = "closed"
      BY <1>3, <3>1, ElsewhereSessions
    <3>3. \A q \in Replicas : draining[q] => draining'[q]
      BY <1>3, ElsewhereLife
    <3> QED BY <3>1, <3>2, <3>3
  <2> QED BY <1>2, <1>3, <2>1, <2>2 DEF LateIsLast
<1>4. ASSUME NEW r \in Replicas, Engine(r) \/ DatabaseRaises(r), UNCHANGED late
      PROVE  LateIsLast'
  <2>1. PassMove(r) /\ UNCHANGED <<stage, at, draining>>
    BY <1>4, EngineIsPassMove
  <2>2. /\ \A q \in Replicas : q # r => todo'[q] = todo[q] /\ cur'[q] = cur[q]
        /\ \/ todo'[r] = Candidates(r) /\ cur'[r] = None /\ ~draining[r]
           \/ todo'[r] \subseteq todo[r] /\ cur'[r] \in todo[r] \cup {cur[r], None}
    BY <2>1, PassMoveEffect
  <2>3. ASSUME NEW s \in Sessions, late[s] # 0
        PROVE  /\ stage'[s] # "new"
               /\ stage'[s] = "open" => draining'[at'[s]]
               /\ \A q \in Replicas : /\ s \notin todo'[q]
                                      /\ cur'[q] = s => \A t \in batch'[q] : lock'[t] # q
    <3>1. stage'[s] # "new" /\ (stage'[s] = "open" => draining'[at'[s]])
      BY <2>1, <2>3 DEF LateIsLast
    <3>2. \A q \in Replicas : s \notin todo[q]
      BY <2>3 DEF LateIsLast
    <3>3. ~draining[r] => s \notin Candidates(r)
      BY <2>3 DEF LateIsLast, Candidates, Local
    <3>4. ASSUME NEW q \in Replicas PROVE s \notin todo'[q] /\ (cur'[q] = s => cur[q] = s)
      BY <2>2, <3>2, <3>3
    <3>5. ASSUME NEW q \in Replicas, cur'[q] = s PROVE \A t \in batch'[q] : lock'[t] # q
      <4>1. cur'[q] # None /\ cur'[q] = cur[q]
        BY <3>4, <3>5
      <4>2. batch'[q] \subseteq batch[q] /\ \A t \in Tasks : lock'[t] = q => lock[t] = q
        BY <1>4, <4>1, TurnLocksOnce
      <4>3. \A t \in batch[q] : lock[t] # q
        BY <2>3, <3>5, <4>1 DEF LateIsLast
      <4> QED BY <1>0, <4>2, <4>3
    <3> QED BY <3>1, <3>4, <3>5
  <2> QED BY <1>2, <1>4, <2>3
<1>5. ASSUME NEW r \in Replicas, LifespanEnds(r) \/ Crash(r), UNCHANGED late
      PROVE  LateIsLast'
  <2>1. /\ ProcessGone(r)
        /\ \A s \in Sessions : stage'[s] = stage[s] \/ stage'[s] = "closed"
        /\ \A s \in Sessions : stage'[s] = "open" =>
              stage[s] = "open" /\ at[s] # r /\ at'[s] = at[s]
    BY <1>5, EndEffect
  <2>2. /\ \A q \in Replicas : q # r => /\ todo'[q] = todo[q] /\ cur'[q] = cur[q]
                                        /\ batch'[q] = batch[q] /\ draining'[q] = draining[q]
        /\ todo'[r] = {} /\ cur'[r] = None
    BY <2>1, GoneEffect
  <2>3. \A t \in Tasks : \A q \in Replicas : lock'[t] = q => lock[t] = q
    BY <2>1, UnlockedTyped DEF ProcessGone
  <2>4. ASSUME NEW s \in Sessions, late[s] # 0
        PROVE  /\ stage'[s] # "new"
               /\ stage'[s] = "open" => draining'[at'[s]]
               /\ \A q \in Replicas : /\ s \notin todo'[q]
                                      /\ cur'[q] = s => \A t \in batch'[q] : lock'[t] # q
    <3>1. stage'[s] # "new"
      BY <2>1, <2>4 DEF LateIsLast
    <3>2. stage'[s] = "open" => draining'[at'[s]]
      BY <2>1, <2>2, <2>4 DEF LateIsLast, OpenIsAlive
    <3>3. \A q \in Replicas : /\ s \notin todo'[q]
                              /\ cur'[q] = s => \A t \in batch'[q] : lock'[t] # q
      BY <1>0, <2>2, <2>3, <2>4 DEF LateIsLast
    <3> QED BY <3>1, <3>2, <3>3
  <2> QED BY <1>2, <1>5, <2>4
<1>6. ASSUME NEW r \in Replicas, Start(r) PROVE LateIsLast'
  BY <1>6 DEF Start, rowVars, sessionVars, LateIsLast
<1> QED
  BY <1>1, <1>3, <1>4, <1>5, <1>6, LateUnchanged, StepCases, Zenon


-----------------------------------------------------------------------------
(***************************************************************************)
(* Wake-ups.                                                               *)
(***************************************************************************)

\* What WakeInv promises of work beside a free credit.
Covered(s, t) == bell[at[s]] \/ RingIsDue(t) \/ lost[at[s]] \/ WillLook(s)

\* The work was there before the step.
LEMMA UnservedBefore ==
    ASSUME NEW s \in Sessions, NEW t \in Tasks, Unserved(s, t)',
           stage[s] = "open", at'[s] = at[s],
           credited'[s] = credited[s], saturated'[s] = saturated[s],
           row'[t] = "queued" => row[t] = "queued", t \in held => t \in held',
           row'[t] = "queued" => excluded'[t] = excluded[t],
           lock'[t] = None => lock[t] = None,
           Alive(at[s])' => Alive(at[s]), draining[at[s]] => draining'[at[s]]
    PROVE  Unserved(s, t)
<1>1. /\ FreeCredits(s)' > 0 /\ Eligible(s, t)' /\ lock'[t] = None
      /\ Alive(at[s])' /\ ~draining'[at[s]]
  BY DEF Unserved, Ready, Alive
<1>2. FreeCredits(s)' = FreeCredits(s)
  BY DEF FreeCredits
<1>3. Eligible(s, t)
  BY <1>1 DEF Eligible
<1> QED
  BY <1>1, <1>2, <1>3 DEF Unserved, Ready

\* Nobody took away what covers it.
LEMMA CoverKept ==
    ASSUME NEW s \in Sessions, NEW t \in Tasks, Covered(s, t), at'[s] = at[s],
           bell[at[s]] => bell'[at[s]], lost[at[s]] => lost'[at[s]],
           RingIsDue(t) => RingIsDue(t)',
           engine'[at[s]] = engine[at[s]], todo'[at[s]] = todo[at[s]],
           cur'[at[s]] = cur[at[s]], got'[at[s]] = got[at[s]]
    PROVE  Covered(s, t)'
<1>1. WillLook(s) => WillLook(s)'
  BY DEF WillLook
<1> QED
  BY <1>1 DEF Covered

\* A ring covers everything.
LEMMA RingCovers ==
    ASSUME TypeOK, NEW here \in SUBSET Replicas, notify_work_available(here),
           NEW s \in Sessions, NEW t \in Tasks, at'[s] \in Replicas
    PROVE  Covered(s, t)'
<1>1. \A r \in Replicas : bell'[r] \/ lost'[r]
  BY RingTyped
<1> QED
  BY <1>1 DEF Covered

\* The doorbell, the requests, the listeners and the drain.
LEMMA DoorbellWake ==
    ASSUME TypeOK, PassInv, WakeInv, PassInv', NEW s \in Sessions, NEW t \in Tasks,
           Unserved(s, t)', NEW r \in Replicas,
           \/ Doorbell(r) \/ Signal(r) \/ ListenerDrops(r)
           \/ DrainEnds(r) \/ DrainTimesOut(r)
           \/ \E u \in Tasks : Enqueue(r, u)
    PROVE  Covered(s, t)'
<1> USE DEF rowVars, sessionVars, passVars, tailVars, lifeVars
<1>0. stage'[s] = "open" /\ at'[s] \in Replicas /\ Eligible(s, t)'
  BY DEF PassInv, OpenIsAlive, Unserved
<1>1. CASE Subscribe(r) \/ Signal(r) \/ ListenerDrops(r) \/ DrainEnds(r) \/ DrainTimesOut(r)
  <2>1. /\ UNCHANGED <<rowVars, sessionVars, passVars, tailVars, bell, lost>>
    BY <1>1 DEF Subscribe, Signal, ListenerDrops, DrainEnds, DrainTimesOut
  <2>2. Elsewhere
    BY <1>1, Zenon DEF Elsewhere, Doorbell
  <2>3. (Alive(at[s])' => Alive(at[s])) /\ (draining[at[s]] => draining'[at[s]])
    BY <1>0, <2>1, <2>2, ElsewhereLife DEF Alive
  <2>4. Unserved(s, t)
    BY <1>0, <2>1, <2>3, UnservedBefore
  <2>5. Covered(s, t)
    BY <2>4 DEF WakeInv, Covered
  <2> QED BY <2>1, <2>5, CoverKept DEF RingIsDue
<1>2. ASSUME NEW u \in Tasks, Enqueue(r, u) PROVE Covered(s, t)'
  <2>1. /\ UNCHANGED <<owner, held, excluded, lock, sessionVars, passVars, lifeVars,
                       requeued, wakes, bell, lost>>
        /\ row' = [row EXCEPT ![u] = "queued"]
        /\ announce' = [announce EXCEPT ![r] = @ \cup {u}]
    BY <1>2 DEF Enqueue
  <2>2. u \in announce'[r] /\ \A q \in Replicas : announce[q] \subseteq announce'[q]
    BY <2>1 DEF TypeOK
  <2>3. CASE t = u
    BY <2>2, <2>3 DEF Covered, RingIsDue
  <2>4. CASE t # u
    <3>1. row'[t] = row[t]
      BY <2>1, <2>4 DEF TypeOK
    <3>2. Unserved(s, t)
      BY <1>0, <2>1, <3>1, UnservedBefore DEF Alive
    <3>3. Covered(s, t)
      BY <3>2 DEF WakeInv, Covered
    <3>4. RingIsDue(t) => RingIsDue(t)'
      BY <2>1, <2>2 DEF RingIsDue
    <3> QED BY <2>1, <3>3, <3>4, CoverKept
  <2> QED BY <2>3, <2>4
<1>3. CASE RingReclaimed(r) \/ \E u \in Tasks : Announce(r, u)
  <2>1. PICK here \in SUBSET Replicas : notify_work_available(here)
    BY <1>3 DEF RingReclaimed, Announce
  <2> QED BY <1>0, <2>1, RingCovers
<1>4. CASE \E S \in wakes[r] : FireWake(r, S)
  <2>1. PICK here \in SUBSET Replicas : notify_work_available(here)
    BY <1>4 DEF FireWake
  <2> QED BY <1>0, <2>1, RingCovers
<1> QED
  BY <1>1, <1>2, <1>3, <1>4 DEF Doorbell


\* The reclaim loop: it will ring for the rows it has requeued.
LEMMA ReclaimWake ==
    ASSUME TypeOK, WakeInv, NEW s \in Sessions, NEW t \in Tasks, Unserved(s, t)',
           NEW r \in Replicas, NEW S \in SUBSET Tasks, Reclaim(r, S)
    PROVE  Covered(s, t)'
<1> USE DEF sessionVars, passVars, lifeVars
<1>1. /\ UNCHANGED <<lock, sessionVars, passVars, announce, wakes, lifeVars, bell, lost>>
      /\ requeued' = [requeued EXCEPT ![r] = S] /\ requeued[r] = {}
  BY DEF Reclaim
<1>2. requeued'[r] = S /\ \A q \in Replicas : requeued[q] \subseteq requeued'[q]
  BY <1>1 DEF TypeOK
<1>3. CASE t \in S
  BY <1>2, <1>3 DEF Covered, RingIsDue
<1>4. CASE t \notin S
  <2>1. row'[t] = row[t] /\ excluded'[t] = excluded[t] /\ (t \in held => t \in held')
    BY <1>4 DEF Reclaim
  <2>2. stage[s] = "open"
    BY <1>1 DEF Unserved
  <2>3. Unserved(s, t)
    BY <1>1, <2>1, <2>2, UnservedBefore DEF Alive
  <2>4. Covered(s, t)
    BY <2>3 DEF WakeInv, Covered
  <2>5. RingIsDue(t) => RingIsDue(t)'
    BY <1>1, <1>2 DEF RingIsDue
  <2> QED BY <1>1, <2>4, <2>5, CoverKept
<1> QED
  BY <1>3, <1>4

\* The sessions: whatever gives a session a credit rings the bell of its replica.
LEMMA SessionWake ==
    ASSUME TypeOK, PassInv, WakeInv, NEW s \in Sessions, NEW t \in Tasks, Unserved(s, t)',
           NEW o \in Sessions,
           \/ \E r \in Replicas : Connect(o, r)
           \/ SessionEnds(o) \/ CapacityFreed(o)
           \/ \E u \in Tasks : AcceptTask(o, u) \/ RefuseTask(o, u) \/ TaskEnds(o, u)
    PROVE  Covered(s, t)'
<1> USE DEF rowVars, sessionVars, passVars, tailVars, lifeVars
<1>0. /\ stage'[s] = "open" /\ FreeCredits(s)' > 0
      /\ stage \in [Sessions -> {"new", "open", "closed"}]
      /\ at \in [Sessions -> Replicas \cup {None}]
      /\ credited \in [Sessions -> SUBSET Tasks]
      /\ saturated \in [Sessions -> BOOLEAN]
      /\ bell \in [Replicas -> BOOLEAN]
  BY DEF Unserved, TypeOK
<1>1. ASSUME stage[s] = "open", at'[s] = at[s],
             credited'[s] = credited[s], saturated'[s] = saturated[s],
             UNCHANGED <<held, lock, lifeVars, tailVars, passVars, lost>>,
             row'[t] = "queued" => row[t] = "queued",
             row'[t] = "queued" => excluded'[t] = excluded[t],
             bell[at[s]] => bell'[at[s]]
      PROVE  Covered(s, t)'
  <2>1. Unserved(s, t)
    BY <1>1, UnservedBefore DEF Alive
  <2>2. Covered(s, t)
    BY <2>1 DEF WakeInv, Covered
  <2> QED BY <1>1, <2>2, CoverKept DEF RingIsDue
<1>2. ASSUME NEW r \in Replicas, Connect(o, r) PROVE Covered(s, t)'
  <2>1. /\ stage' = [stage EXCEPT ![o] = "open"] /\ at' = [at EXCEPT ![o] = r]
        /\ bell' = [bell EXCEPT ![r] = TRUE]
        /\ UNCHANGED <<rowVars, credited, saturated, passVars, tailVars, lifeVars, lost>>
    BY <1>2 DEF Connect
  <2>2. bell'[r] /\ \A q \in Replicas \cup {None} : bell[q] => bell'[q]
    BY ONLY <1>0, <2>1, r \in Replicas
  <2>3. CASE s = o
    <3>1. at'[s] = r
      BY <1>0, <2>1, <2>3
    <3> QED BY <2>2, <3>1 DEF Covered
  <2>4. CASE s # o
    <3>1. stage'[s] = stage[s] /\ at'[s] = at[s]
      BY <1>0, <2>1, <2>4
    <3>2. at[s] \in Replicas \cup {None}
      BY <1>0
    <3> QED BY <1>0, <1>1, <2>1, <2>2, <3>1, <3>2
  <2> QED BY <2>3, <2>4
<1>3. CASE SessionEnds(o)
  <2>1. /\ Closed({o})
        /\ UNCHANGED <<rowVars, passVars, tailVars, lifeVars, bell, lost>>
    BY <1>3 DEF SessionEnds
  <2>2. s # o
    BY <1>0, <2>1 DEF Closed
  <2>3. stage'[s] = stage[s] /\ at'[s] = at[s] /\ credited'[s] = credited[s]
    BY <2>1, <2>2 DEF Closed
  <2>4. saturated'[s] = saturated[s]
    BY <1>0, <2>1, <2>2 DEF Closed
  <2> QED BY <1>0, <1>1, <2>1, <2>3, <2>4
<1>4. CASE CapacityFreed(o) \/ \E u \in Tasks : TaskEnds(o, u)
  <2>1. /\ stage[o] = "open" /\ bell' = [bell EXCEPT ![at[o]] = TRUE]
        /\ saturated' = [saturated EXCEPT ![o] = FALSE]
        /\ UNCHANGED <<held, lock, stage, at, passVars, tailVars, lifeVars, lost>>
    BY <1>4 DEF CapacityFreed, TaskEnds
  <2>2. at[o] \in Replicas
    BY <2>1 DEF PassInv, OpenIsAlive
  <2>3. bell'[at[o]] /\ \A q \in Replicas : bell[q] => bell'[q]
    BY <1>0, <2>1, <2>2
  <2>4. CASE s = o
    BY <2>1, <2>3, <2>4 DEF Covered
  <2>5. CASE s # o
    <3>1. saturated'[s] = saturated[s]
      BY <1>0, <2>1, <2>5
    <3>2. credited'[s] = credited[s]
      BY <1>0, <1>4, <2>5 DEF CapacityFreed, TaskEnds
    <3>3. /\ row'[t] = "queued" => row[t] = "queued"
          /\ row'[t] = "queued" => excluded'[t] = excluded[t]
      <4>1. CASE CapacityFreed(o)
        BY <4>1 DEF CapacityFreed
      <4>2. ASSUME NEW u \in Tasks, TaskEnds(o, u)
            PROVE  /\ row'[t] = "queued" => row[t] = "queued"
                   /\ row'[t] = "queued" => excluded'[t] = excluded[t]
        BY <4>2 DEF TaskEnds, TypeOK
      <4> QED BY <1>4, <4>1, <4>2
    <3>4. at[s] \in Replicas
      BY <1>0, <2>1 DEF PassInv, OpenIsAlive
    <3> QED BY <1>0, <1>1, <2>1, <2>3, <3>1, <3>2, <3>3, <3>4
  <2> QED BY <2>4, <2>5
<1>5. ASSUME NEW u \in Tasks, AcceptTask(o, u) PROVE Covered(s, t)'
  BY <1>0, <1>1, <1>5 DEF AcceptTask
<1>6. ASSUME NEW u \in Tasks, RefuseTask(o, u) PROVE Covered(s, t)'
  <2>1. /\ saturated' = [saturated EXCEPT ![o] = TRUE]
        /\ UNCHANGED <<rowVars, stage, at, credited, passVars, tailVars, lifeVars, bell, lost>>
    BY <1>6 DEF RefuseTask
  <2>2. s # o
    <3>1. saturated'[o]
      BY <1>0, <2>1
    <3> QED BY <1>0, <3>1 DEF FreeCredits
  <2>3. saturated'[s] = saturated[s]
    BY <1>0, <2>1, <2>2
  <2> QED BY <1>0, <1>1, <2>1, <2>3
<1> QED
  BY <1>2, <1>3, <1>4, <1>5, <1>6

\* The clock.
LEMMA ClockWake ==
    ASSUME TypeOK, PassInv, WakeInv, NEW s \in Sessions, NEW t \in Tasks, Unserved(s, t)',
           Clock
    PROVE  Covered(s, t)'
<1> USE DEF rowVars, sessionVars, passVars, tailVars, lifeVars
<1>1. ASSUME NEW u \in Tasks, ExclusionElapses(u) PROVE Covered(s, t)'
  <2>1. lost' = [r \in Replicas |-> TRUE] /\ UNCHANGED <<stage, at>>
    BY <1>1 DEF ExclusionElapses
  <2>2. at'[s] \in Replicas
    BY <2>1 DEF PassInv, OpenIsAlive, Unserved
  <2> QED BY <2>1, <2>2 DEF Covered
<1>2. ASSUME NEW u \in Tasks, BackoffElapses(u) PROVE Covered(s, t)'
  <2>1. /\ lost' = [r \in Replicas |-> lost[r] \/ ~RingIsDue(u)] /\ held' = held \ {u}
        /\ UNCHANGED <<row, excluded, lock, sessionVars, passVars, tailVars, lifeVars, bell>>
    BY <1>2 DEF BackoffElapses
  <2>2. stage[s] = "open" /\ at'[s] = at[s] /\ at[s] \in Replicas
    BY <2>1 DEF PassInv, OpenIsAlive, Unserved
  <2>3. RingIsDue(u)' <=> RingIsDue(u)
    BY <2>1 DEF RingIsDue
  <2>4. lost'[at[s]] \/ RingIsDue(u)'
    BY <2>1, <2>2, <2>3
  <2>5. CASE t = u
    BY <2>2, <2>4, <2>5 DEF Covered
  <2>6. CASE t # u
    <3>1. Unserved(s, t)
      BY <2>1, <2>2, <2>6, UnservedBefore DEF Alive
    <3>2. Covered(s, t)
      BY <3>1 DEF WakeInv, Covered
    <3>3. lost[at[s]] => lost'[at[s]]
      BY <2>1, <2>2
    <3> QED BY <2>1, <2>2, <3>2, <3>3, CoverKept DEF RingIsDue
  <2> QED BY <2>5, <2>6
<1> QED
  BY <1>1, <1>2 DEF Clock


\* A step of the loop of r as the other replicas see it: their own passes and bells
\* are untouched, and if it gave up locks they know.
LEMMA OthersUntouched ==
    ASSUME TypeOK, PassInv, NEW r \in Replicas, Engine(r) \/ DatabaseRaises(r),
           NEW q \in Replicas, q # r
    PROVE  /\ engine'[q] = engine[q] /\ todo'[q] = todo[q] /\ cur'[q] = cur[q]
           /\ got'[q] = got[q] /\ (bell[q] => bell'[q]) /\ (lost[q] => lost'[q])
<1> USE DEF rowVars, sessionVars, passVars, tailVars, lifeVars
<1>1. engine'[q] = engine[q] /\ todo'[q] = todo[q] /\ cur'[q] = cur[q]
  BY EngineIsPassMove, PassMoveEffect DEF PassInv
<1>2. got'[q] = got[q]
  <2>1. \/ got' = got
        \/ got' = [got EXCEPT ![r] = FALSE]
        \/ got' = [got EXCEPT ![r] = @ \/ stage[cur[r]] = "open"]
    BY DEF Engine, WakeUp, CountQueue, CommitClaim, EndPass, BeginPass, Retry, LimitRaises,
       DatabaseRaises, Abandoned, Dequeue, Deliver
  <2> QED BY <2>1 DEF TypeOK
<1>3. bell[q] => bell'[q]
  <2>1. bell' = bell \/ bell' = [bell EXCEPT ![r] = FALSE]
    BY DEF Engine, WakeUp, CountQueue, CommitClaim, EndPass, Retry, LimitRaises,
       DatabaseRaises, Abandoned, Dequeue, Deliver
  <2> QED BY <2>1 DEF TypeOK
<1>4. lost[q] => lost'[q]
  <2>1. \/ lost' = lost
        \/ lost' = [lost EXCEPT ![r] = @ /\ draining[r]]
        \/ lost' = [p \in Replicas |-> lost[p] \/ p = r \/ lock # Unlocked(r)]
    BY DEF Engine, WakeUp, CountQueue, CommitClaim, EndPass, BeginPass, Retry, LimitRaises,
       DatabaseRaises, Abandoned, Dequeue, Deliver
  <2> QED BY <2>1 DEF TypeOK
<1> QED
  BY <1>1, <1>2, <1>3, <1>4

\* A pass that begins on a replica that is not draining looks at every candidate.
LEMMA BeginPassLooks ==
    ASSUME TypeOK, NEW r \in Replicas, BeginPass(r), NEW s \in Sessions, NEW t \in Tasks,
           Unserved(s, t), at[s] = r, UNCHANGED at
    PROVE  WillLook(s)'
<1>1. s \in Candidates(r) /\ ~draining[r]
  BY DEF Unserved, Candidates, Local, Eligible, Ready
<1>2. engine' = [engine EXCEPT ![r] = "counting"] /\ todo' = [todo EXCEPT ![r] = Candidates(r)]
  BY <1>1 DEF BeginPass
<1>3. engine'[r] = "counting" /\ s \in todo'[r]
  BY <1>1, <1>2 DEF TypeOK
<1> QED
  BY <1>3 DEF WillLook

\* The loop.
LEMMA EngineWake ==
    ASSUME TypeOK, PassInv, WakeInv, NEW s \in Sessions, NEW t \in Tasks, Unserved(s, t)',
           NEW r \in Replicas, Engine(r) \/ DatabaseRaises(r)
    PROVE  Covered(s, t)'
<1> USE DEF rowVars, sessionVars, passVars, tailVars, lifeVars
<1>0. /\ UNCHANGED <<stage, at, proc, draining, tailVars>>
      /\ stage[s] = "open" /\ at[s] \in Replicas
  <2>1. UNCHANGED <<stage, at, proc, draining>>
    BY EngineIsPassMove DEF PassInv
  <2>2. UNCHANGED tailVars
    BY DEF Engine, WakeUp, CountQueue, CommitClaim, EndPass, Retry, LimitRaises,
       DatabaseRaises, Abandoned, Dequeue, Deliver
  <2> QED BY <2>1, <2>2 DEF Unserved, PassInv, OpenIsAlive
<1>1. RingIsDue(t) => RingIsDue(t)'
  BY <1>0 DEF RingIsDue
<1>2. ASSUME row'[t] = "queued" => row[t] = "queued", UNCHANGED <<held, excluded>>,
             lock'[t] = None => lock[t] = None,
             credited'[s] = credited[s], saturated' = saturated
      PROVE  Unserved(s, t) /\ Covered(s, t)
  <2>1. Unserved(s, t)
    BY <1>0, <1>2, UnservedBefore DEF Alive
  <2> QED BY <2>1 DEF WakeInv, Covered
<1>3. ASSUME at[s] # r, Covered(s, t) PROVE Covered(s, t)'
  BY <1>0, <1>1, <1>3, OthersUntouched, CoverKept
<1>4. ASSUME WakeUp(r) PROVE Covered(s, t)'
  <2>1. BeginPass(r) /\ UNCHANGED <<rowVars, sessionVars>>
    BY <1>4 DEF WakeUp
  <2>2. Unserved(s, t) /\ Covered(s, t)
    BY <1>2, <2>1
  <2>3. CASE at[s] = r
    BY <1>0, <2>1, <2>2, <2>3, BeginPassLooks DEF Covered
  <2> QED BY <1>3, <2>2, <2>3
<1>5. ASSUME EndPass(r) PROVE Covered(s, t)'
  <2>1. UNCHANGED <<rowVars, sessionVars, bell>>
    BY <1>5 DEF EndPass
  <2>2. Unserved(s, t) /\ Covered(s, t)
    BY <1>2, <2>1
  <2>3. ASSUME at[s] = r, got[r] PROVE Covered(s, t)'
    <3>1. BeginPass(r)
      BY <1>5, <2>3 DEF EndPass
    <3> QED BY <1>0, <2>2, <2>3, <3>1, BeginPassLooks DEF Covered
  <2>4. ASSUME at[s] = r, ~got[r] PROVE Covered(s, t)'
    <3>1. todo[r] = {} /\ cur[r] = None /\ engine[r] = "passing" /\ lost' = lost
      BY <1>5, <2>4 DEF EndPass
    <3>2. ~WillLook(s)
      BY <2>4, <3>1, ReplicaConstants DEF WillLook
    <3>3. bell[at[s]] \/ RingIsDue(t) \/ lost[at[s]]
      BY <2>2, <3>2 DEF Covered
    <3> QED BY <1>0, <1>1, <2>1, <3>1, <3>3 DEF Covered
  <2> QED BY <1>3, <2>2, <2>3, <2>4
<1>6. ASSUME CountQueue(r) PROVE Covered(s, t)'
  <2>1. UNCHANGED <<rowVars, sessionVars, bell, lost>> /\ engine[r] = "counting"
    BY <1>6 DEF CountQueue
  <2>2. Unserved(s, t) /\ Covered(s, t)
    BY <1>2, <2>1
  <2>3. ASSUME at[s] = r, WillLook(s) PROVE WillLook(s)'
    <3>1. row[t] = "queued"
      BY <2>2 DEF Unserved, Eligible
    <3>2. engine' = [engine EXCEPT ![r] = "passing"] /\ todo' = todo
      BY <1>6, <3>1 DEF CountQueue
    <3>3. engine'[r] = "passing" /\ s \in todo[r]
      BY <2>1, <2>3, <3>2 DEF WillLook, TypeOK
    <3> QED BY <1>0, <2>3, <3>2, <3>3 DEF WillLook
  <2>4. CASE at[s] = r
    BY <1>0, <1>1, <2>1, <2>2, <2>3, <2>4 DEF Covered
  <2> QED BY <1>3, <2>2, <2>4
<1>7. ASSUME Retry(r) PROVE Covered(s, t)'
  <2>1. UNCHANGED <<rowVars, sessionVars, bell, lost>> /\ engine[r] = "backoff"
    BY <1>7 DEF Retry
  <2>2. Unserved(s, t) /\ Covered(s, t)
    BY <1>2, <2>1
  <2>3. CASE at[s] = r
    <3>1. ~WillLook(s)
      BY <2>1, <2>3 DEF WillLook
    <3> QED BY <1>0, <1>1, <2>1, <2>2, <3>1 DEF Covered
  <2> QED BY <1>3, <2>2, <2>3
<1>8. ASSUME LimitRaises(r) \/ DatabaseRaises(r) PROVE Covered(s, t)'
  <2>1. Abandoned(r)
    BY <1>8 DEF LimitRaises, DatabaseRaises
  <2>2. /\ UNCHANGED <<row, held, excluded, sessionVars>> /\ lock' = Unlocked(r)
        /\ lost' = [q \in Replicas |-> lost[q] \/ q = r \/ lock # Unlocked(r)]
    BY <2>1 DEF Abandoned
  <2>3. CASE at[s] = r \/ lock # Unlocked(r)
    <3>1. lost'[at[s]]
      BY <1>0, <2>2, <2>3
    <3> QED BY <1>0, <3>1 DEF Covered
  <2>4. CASE at[s] # r /\ lock = Unlocked(r)
    <3>1. Unserved(s, t) /\ Covered(s, t)
      BY <1>2, <2>2, <2>4
    <3> QED BY <1>3, <2>4, <3>1
  <2> QED BY <2>3, <2>4
<1>9. ASSUME NEW o \in Sessions, Dequeue(r, o) PROVE Covered(s, t)'
  <2>1. PICK B \in SUBSET Tasks :
              /\ \A u \in B : Eligible(o, u) /\ lock[u] = None
              /\ \A u \in Tasks : Eligible(o, u) /\ lock[u] = None /\ u \notin B => B # {}
              /\ lock' = [u \in Tasks |-> IF u \in B THEN r ELSE lock[u]]
              /\ batch' = [batch EXCEPT ![r] = B]
              /\ cur' = [cur EXCEPT ![r] = IF B = {} THEN None ELSE o]
              /\ todo' = [todo EXCEPT ![r] = @ \ {o}]
    BY <1>9, DequeueEffect
  <2>2. /\ UNCHANGED <<row, held, excluded, sessionVars, engine, got, bell, lost>>
        /\ engine[r] = "passing" /\ cur[r] = None
    BY <1>9 DEF Dequeue
  <2>3. lock'[t] = None /\ t \notin B /\ lock[t] = None
    <3>1. lock'[t] = None /\ r # None
      BY ReplicaConstants DEF Unserved
    <3> QED BY <2>1, <3>1
  <2>4. Unserved(s, t) /\ Covered(s, t)
    BY <1>2, <2>2, <2>3
  <2>5. ASSUME at[s] = r, WillLook(s) PROVE WillLook(s)'
    <3>1. s \in todo[r] \/ got[r]
      BY <2>2, <2>5, ReplicaConstants DEF WillLook
    <3>2. CASE s = o
      <4>1. B # {}
        BY <2>1, <2>3, <2>4, <3>2 DEF Unserved
      <4>2. cur'[r] = s
        BY <2>1, <3>2, <4>1 DEF TypeOK
      <4> QED BY <1>0, <2>2, <2>5, <4>2 DEF WillLook
    <3>3. CASE s # o
      <4>1. s \in todo[r] => s \in todo'[r]
        BY <2>1, <3>3 DEF TypeOK
      <4> QED BY <1>0, <2>2, <2>5, <3>1, <4>1 DEF WillLook
    <3> QED BY <3>2, <3>3
  <2>6. CASE at[s] = r
    BY <1>0, <1>1, <2>2, <2>4, <2>5, <2>6 DEF Covered
  <2> QED BY <1>3, <2>4, <2>6
<1>10. ASSUME CommitClaim(r) PROVE Covered(s, t)'
  <2>1. /\ row' = [u \in Tasks |-> IF u \in batch[r] THEN "assigned" ELSE row[u]]
        /\ lock' = Unlocked(r)
        /\ UNCHANGED <<held, excluded, sessionVars, passVars, bell, lost>>
    BY <1>10 DEF CommitClaim
  <2>2. row'[t] = "queued"
    BY DEF Unserved, Eligible
  <2>3. t \notin batch[r] /\ row[t] = "queued"
    BY <2>1, <2>2
  <2>4. lock[t] # r
    BY <2>3 DEF PassInv, LockedIsBatch
  <2>5. lock'[t] = lock[t]
    BY <2>1, <2>4, UnlockedTyped
  <2>6. Unserved(s, t) /\ Covered(s, t)
    BY <1>2, <2>1, <2>3, <2>5
  <2> QED BY <1>0, <1>1, <2>1, <2>6, CoverKept
<1>11. ASSUME NEW u \in Tasks, Deliver(r, u) PROVE Covered(s, t)'
  <2>1. /\ engine[r] = "passing" /\ u \in batch[r]
        /\ got' = [got EXCEPT ![r] = @ \/ stage[cur[r]] = "open"]
        /\ cur' = [cur EXCEPT ![r] = IF batch[r] = {u} THEN None ELSE @]
        /\ credited' = [credited EXCEPT ![cur[r]] =
                          IF stage[cur[r]] = "open" THEN @ \cup {u} ELSE @]
        /\ UNCHANGED <<rowVars, saturated, engine, todo, bell, lost>>
    BY <1>11 DEF Deliver
  <2>2. cur[r] \in Sessions
    BY <2>1 DEF PassInv, PassShape, TypeOK
  <2>3. CASE s = cur[r]
    <3>1. at[s] = r
      BY <1>0, <2>3 DEF PassInv, PassSessions, InPass
    <3>2. got'[r]
      BY <1>0, <2>1, <2>3 DEF TypeOK
    <3>3. WillLook(s)'
      BY <1>0, <2>1, <3>1, <3>2 DEF WillLook
    <3> QED BY <3>3 DEF Covered
  <2>4. CASE s # cur[r]
    <3>1. credited'[s] = credited[s]
      BY <2>1, <2>2, <2>4, Added DEF TypeOK
    <3>2. Unserved(s, t) /\ Covered(s, t)
      BY <1>2, <2>1, <3>1
    <3>3. got[r] => got'[r]
      BY <2>1 DEF TypeOK
    <3>4. ASSUME at[s] = r, WillLook(s) PROVE WillLook(s)'
      BY <1>0, <2>1, <2>4, <3>3, <3>4 DEF WillLook
    <3>5. CASE at[s] = r
      BY <1>0, <1>1, <2>1, <3>2, <3>4, <3>5 DEF Covered
    <3> QED BY <1>3, <3>2, <3>5
  <2> QED BY <2>3, <2>4
<1> QED
  BY <1>4, <1>5, <1>6, <1>7, <1>8, <1>9, <1>10, <1>11 DEF Engine


\* A process that ends or starts.
LEMMA LifeWake ==
    ASSUME TypeOK, PassInv, WakeInv, NEW s \in Sessions, NEW t \in Tasks, Unserved(s, t)',
           NEW r \in Replicas, LifespanEnds(r) \/ Crash(r) \/ Start(r)
    PROVE  Covered(s, t)'
<1> USE DEF rowVars, sessionVars, passVars, tailVars, lifeVars
<1>1. ASSUME LifespanEnds(r) \/ Crash(r) PROVE Covered(s, t)'
  <2>1. /\ ProcessGone(r) /\ stage[s] = "open" /\ at[s] # r /\ at'[s] = at[s]
        /\ credited'[s] = credited[s] /\ saturated'[s] = saturated[s]
    BY <1>1, EndEffect DEF Unserved
  <2>2. at[s] \in Replicas
    BY <2>1 DEF PassInv, OpenIsAlive
  <2>3. /\ lock' = Unlocked(r) /\ UNCHANGED <<row, held, excluded>>
        /\ lost' = [q \in Replicas |-> lost[q] \/ lock # Unlocked(r)
                                    \/ announce[r] \cup requeued[r] \cup UNION wakes[r] # {}]
        /\ announce' = [announce EXCEPT ![r] = {}]
        /\ requeued' = [requeued EXCEPT ![r] = {}]
        /\ wakes' = [wakes EXCEPT ![r] = {}]
    BY <2>1 DEF ProcessGone
  <2>4. CASE lost'[at[s]]
    BY <2>1, <2>4 DEF Covered
  <2>5. CASE ~lost'[at[s]]
    <3>1. /\ ~lost[at[s]] /\ lock = Unlocked(r)
          /\ announce[r] \cup requeued[r] \cup UNION wakes[r] = {}
      BY <2>2, <2>3, <2>5
    <3>2. /\ engine'[at[s]] = engine[at[s]] /\ todo'[at[s]] = todo[at[s]]
          /\ cur'[at[s]] = cur[at[s]] /\ got'[at[s]] = got[at[s]]
          /\ proc'[at[s]] = proc[at[s]] /\ draining'[at[s]] = draining[at[s]]
          /\ bell'[at[s]] = bell[at[s]]
      BY <2>1, <2>2, GoneEffect
    <3>3. Unserved(s, t)
      BY <2>1, <2>3, <3>1, <3>2, UnservedBefore DEF Alive
    <3>4. Covered(s, t)
      BY <3>3 DEF WakeInv, Covered
    <3>5. RingIsDue(t) => RingIsDue(t)'
      <4>1. \A q \in Replicas : q # r => /\ announce'[q] = announce[q]
                                         /\ requeued'[q] = requeued[q] /\ wakes'[q] = wakes[q]
        BY <2>3 DEF TypeOK
      <4> QED BY <3>1, <4>1 DEF RingIsDue
    <3> QED BY <2>1, <3>1, <3>2, <3>4, <3>5, CoverKept
  <2> QED BY <2>4, <2>5
<1>2. ASSUME Start(r) PROVE Covered(s, t)'
  <2>1. /\ proc[r] = "down" /\ proc' = [proc EXCEPT ![r] = "up"]
        /\ engine' = [engine EXCEPT ![r] = "waiting"]
        /\ UNCHANGED <<rowVars, sessionVars, todo, cur, got, tailVars, draining, bell, lost>>
    BY <1>2 DEF Start
  <2>2. stage[s] = "open" /\ at[s] \in Replicas /\ at[s] # r
    BY <2>1 DEF Unserved, PassInv, OpenIsAlive, Alive
  <2>3. proc'[at[s]] = proc[at[s]] /\ engine'[at[s]] = engine[at[s]]
    BY <2>1, <2>2 DEF TypeOK
  <2>4. Unserved(s, t)
    BY <2>1, <2>2, <2>3, UnservedBefore DEF Alive
  <2>5. Covered(s, t)
    BY <2>4 DEF WakeInv, Covered
  <2> QED BY <2>1, <2>3, <2>5, CoverKept DEF RingIsDue
<1> QED
  BY <1>1, <1>2

\* No step loses a wake-up without recording it.
LEMMA StepKeepsWake ==
    ASSUME TypeOK, PassInv, PassInv', WakeInv, [Next]_vars
    PROVE  WakeInv'
<1>1. ASSUME NEW s \in Sessions, NEW t \in Tasks, Unserved(s, t)'
      PROVE  Covered(s, t)'
  <2>1. ASSUME NEW r \in Replicas,
               \/ Doorbell(r) \/ Signal(r) \/ ListenerDrops(r)
               \/ DrainEnds(r) \/ DrainTimesOut(r)
               \/ \E u \in Tasks : Enqueue(r, u)
        PROVE  Covered(s, t)'
    BY <1>1, <2>1, DoorbellWake
  <2>2. ASSUME NEW r \in Replicas, NEW S \in SUBSET Tasks, Reclaim(r, S)
        PROVE  Covered(s, t)'
    BY <1>1, <2>2, ReclaimWake
  <2>3. ASSUME NEW o \in Sessions,
               \/ \E r \in Replicas : Connect(o, r)
               \/ SessionEnds(o) \/ CapacityFreed(o)
               \/ \E u \in Tasks : AcceptTask(o, u) \/ RefuseTask(o, u) \/ TaskEnds(o, u)
        PROVE  Covered(s, t)'
    BY <1>1, <2>3, SessionWake
  <2>4. ASSUME Clock PROVE Covered(s, t)'
    BY <1>1, <2>4, ClockWake
  <2>5. ASSUME NEW r \in Replicas, Engine(r) \/ DatabaseRaises(r) PROVE Covered(s, t)'
    BY <1>1, <2>5, EngineWake
  <2>6. ASSUME NEW r \in Replicas, LifespanEnds(r) \/ Crash(r) \/ Start(r)
        PROVE  Covered(s, t)'
    BY <1>1, <2>6, LifeWake
  <2>7. ASSUME UNCHANGED vars PROVE Covered(s, t)'
    BY <1>1, <2>7 DEF vars, rowVars, sessionVars, passVars, tailVars, lifeVars, WakeInv,
       Covered, Unserved, Ready, Alive, FreeCredits, Eligible, RingIsDue, WillLook
  <2>8. ASSUME Elsewhere PROVE Covered(s, t)'
    BY <2>1, <2>2, <2>3, <2>4, <2>7, <2>8, Zenon DEF Elsewhere
  <2> QED BY <2>5, <2>6, <2>8, StepCases
<1> QED
  BY <1>1 DEF WakeInv, Covered

-----------------------------------------------------------------------------
(***************************************************************************)
(* What holds of every execution.                                          *)
(***************************************************************************)

\* The inductive invariant: the types, the attempts left to a row, the locals of every
\* pass beside the locks and the sockets, the claims of a draining replica, and what
\* covers work beside a free credit.
THEOREM Invariance == Spec => []IInv
<1>1. ASSUME IInv, [Next]_vars PROVE IInv'
  <2>1. TypeOK' /\ AttemptsLeft'
    BY <1>1, StepTyped DEF IInv, PassInv
  <2>2. PassInv'
    BY <1>1, StepKeepsPass DEF IInv
  <2>3. LateIsLast'
    BY <1>1, StepKeepsLate DEF IInv
  <2>4. WakeInv'
    BY <1>1, <2>2, StepKeepsWake DEF IInv
  <2> QED BY <2>1, <2>2, <2>3, <2>4 DEF IInv
<1> QED
  BY <1>1, InitInv, PTL DEF Spec

\* Every variable keeps its type: no attempt beyond the cap, no lock, owner, session or
\* batch that is not one.
THEOREM TypeCorrect == Spec => []TypeOK
<1>1. IInv => TypeOK
  BY DEF IInv
<1> QED
  BY <1>1, Invariance, PTL

\* assignment_loop and assign_once under a drain: the flag is read once per pass, so a
\* replica claims at most one more batch for each of its sessions once it drains.
THEOREM LateClaimsBoundedHolds == Spec => []LateClaimsBounded
<1>1. IInv => LateClaimsBounded
  <2> SUFFICES ASSUME IInv, NEW s \in Sessions PROVE late[s] <= 1
    BY DEF LateClaimsBounded
  <2>1. late[s] = 0 \/ late[s] = 1
    BY DEF IInv, LateIsLast
  <2> QED BY <2>1
<1> QED
  BY <1>1, Invariance, PTL

\* The doorbell protocol: an engine that waits beside work it could hand out has been
\* rung, has a ring on its way, or the loss of one is on record.
THEOREM NoLostWakeUpHolds == Spec => []NoLostWakeUp
<1>1. IInv => NoLostWakeUp
  <2> SUFFICES ASSUME IInv, NEW s \in Sessions, NEW t \in Tasks,
                      Unserved(s, t), engine[at[s]] = "waiting"
               PROVE  bell[at[s]] \/ RingIsDue(t) \/ lost[at[s]]
    BY DEF NoLostWakeUp
  <2>1. ~WillLook(s)
    BY DEF WillLook
  <2> QED BY <2>1 DEF IInv, WakeInv
<1> QED
  BY <1>1, Invariance, PTL


=============================================================================
