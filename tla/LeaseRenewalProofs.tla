------------------------- MODULE LeaseRenewalProofs -------------------------
(***************************************************************************)
(* For every choice of the configured numbers: the types, the deadline as  *)
(* a bound renewals cannot move, and, when the numbers are Timely, that a  *)
(* healthy worker keeps its lease.                                         *)
(***************************************************************************)
EXTENDS LeaseRenewal, TLAPS

\* Type correctness needs one fact about the chunk loop.
Unfinished == work = "executing" => progress < Chunks
Typed == TypeOK /\ Unfinished

-----------------------------------------------------------------------------
(* Types *)

\* The initial state of a delivery is well typed.
LEMMA TypedInit == Init => Typed
<1> SUFFICES ASSUME Init
             PROVE  Typed
  OBVIOUS
<1>1. open \in BOOLEAN /\ entitled \in BOOLEAN /\ cancel \in BOOLEAN
  BY Zenon DEF Init
<1>2. wire \in [Kinds -> -1..Latency]
  BY ConstantsAssumption DEF Init, None
<1>3. /\ status \in {"ASSIGNED", "RUNNING", "COMPLETED", "RECLAIMED"}
      /\ reason \in {"none", "lease_expired", "execution_deadline_exceeded"}
      /\ work \in {"executing", "submitted", "cancelled"}
      /\ faults \subseteq Faults
  BY DEF Init
<1>4. /\ lease \in Int /\ lease >= -1
      /\ deadline \in Int /\ deadline >= -1
      /\ due \in Int /\ due <= RenewAfter
      /\ shown \in -1..Chunks
      /\ misses \in 0..MaxMisses
      /\ timer \in 0..Interval
      /\ progress \in 0..Chunks /\ progress < Chunks
      /\ last_reported \in -1..Chunks
      /\ chunk \in 0..ChunkTime
      /\ back \in 0..ReconnectTime
  BY ConstantsAssumption DEF Init, None
<1> QED
  BY <1>1, <1>2, <1>3, <1>4 DEF Typed, TypeOK, Unfinished

\* A step keeps the types.
LEMMA TypedStep == Typed /\ [Next]_vars => Typed'
<1> SUFFICES ASSUME Typed, [Next]_vars
             PROVE  Typed'
  OBVIOUS
<1> USE ConstantsAssumption DEF Typed, TypeOK, Unfinished, Kinds, None, Faults
<1>1. CASE TaskAck
  BY <1>1 DEF TaskAck, Arrives, renew_if_due, Renew, RenewalTarget, Least,
              lease_due, Live, worker
<1>2. CASE TaskStarted
  BY <1>2 DEF TaskStarted, Arrives, Least, worker
<1>3. CASE TaskProgress
  BY <1>3 DEF TaskProgress, Arrives, renew_if_due, Renew, RenewalTarget, Least,
              lease_due, Live, worker
<1>4. CASE TaskResult
  <2>1. entitled' \in BOOLEAN /\ open' \in BOOLEAN /\ cancel' \in BOOLEAN
    BY <1>4, Zenon DEF TaskResult, worker
  <2>2. UNCHANGED <<reason, lease, deadline, due, misses, worker, faults>>
    BY <1>4 DEF TaskResult
  <2>3. wire' \in [Kinds -> -1..Latency] /\ shown' \in -1..Chunks
    BY <1>4 DEF TaskResult, Arrives
  <2>4. status' \in {"ASSIGNED", "RUNNING", "COMPLETED", "RECLAIMED"}
    BY <1>4 DEF TaskResult
  <2> QED
    BY <2>1, <2>2, <2>3, <2>4 DEF worker
<1>5. CASE Reclaim
  BY <1>5 DEF Reclaim, session, worker
<1>6. CASE TaskCancel
  BY <1>6 DEF TaskCancel, Arrives, row, session
<1>7. CASE Report
  BY <1>7 DEF Report, row, session
<1>8. CASE ChunkEnds
  BY <1>8 DEF ChunkEnds, row, session
<1>9. CASE Disconnect
  <2>1. entitled' \in BOOLEAN /\ open' \in BOOLEAN /\ cancel' \in BOOLEAN
    BY <1>9, Zenon DEF Disconnect
  <2>2. lease' \in Int /\ lease' >= -1
    BY <1>9 DEF Disconnect, Least
  <2>3. wire' \in [Kinds -> -1..Latency] /\ shown' \in -1..Chunks
    BY <1>9 DEF Disconnect
  <2>4. back' \in 0..ReconnectTime
    BY <1>9 DEF Disconnect
  <2>5. UNCHANGED <<status, reason, deadline, due, misses, timer, work, progress,
                    last_reported, chunk, faults>>
    BY <1>9 DEF Disconnect
  <2> QED
    BY <2>1, <2>2, <2>3, <2>4, <2>5
<1>10. CASE Reconnect
  BY <1>10 DEF Reconnect, NewSession, RenewalTarget, Least, Live
<1>11. CASE ReconnectUnrenewed
  BY <1>11 DEF ReconnectUnrenewed, NewSession
<1>12. CASE Hang
  BY <1>12 DEF Hang, row, session, worker
<1>13. CASE Vanish
  BY <1>13 DEF Vanish, row, session, worker
<1>14. CASE Tick
  BY <1>14 DEF Tick, Punctual, Fall
<1>15. CASE UNCHANGED vars
  BY <1>15 DEF vars, row, session, worker
<1> QED
  BY <1>1, <1>2, <1>3, <1>4, <1>5, <1>6, <1>7, <1>8, <1>9, <1>10, <1>11, <1>12,
     <1>13, <1>14, <1>15 DEF Next, Coordinator, Worker

\* The timers, counters and flags of an attempt keep their types and ranges: no
\* chunk is run past the last one, and no message is under way longer than
\* Latency.
THEOREM TypeCorrect == Spec => []TypeOK
<1>1. Spec => []Typed
  BY TypedInit, TypedStep, PTL DEF Spec
<1> QED
  BY <1>1, PTL DEF Typed

-----------------------------------------------------------------------------
(* The deadline *)

\* A live lease does not outlast the deadline.
Capped == Live => lease <= deadline

\* Renewals, starts, cuts and the passing of time keep the lease under the
\* deadline.
LEMMA CappedStep == Typed /\ Capped /\ [Next]_vars => Capped'
<1> SUFFICES ASSUME Typed, Capped, [Next]_vars
             PROVE  Capped'
  OBVIOUS
<1> USE ConstantsAssumption DEF Typed, TypeOK, Capped, Live, Least
<1>1. CASE TaskAck
  BY <1>1 DEF TaskAck, Arrives, renew_if_due, Renew, RenewalTarget, lease_due, worker
<1>2. CASE TaskStarted
  BY <1>2 DEF TaskStarted, Arrives, worker
<1>3. CASE TaskProgress
  BY <1>3 DEF TaskProgress, Arrives, renew_if_due, Renew, RenewalTarget, lease_due, worker
<1>4. CASE TaskResult
  BY <1>4 DEF TaskResult, Arrives, worker
<1>5. CASE Reclaim
  BY <1>5 DEF Reclaim, session, worker
<1>6. CASE TaskCancel
  BY <1>6 DEF TaskCancel, Arrives, row, session
<1>7. CASE Report
  BY <1>7 DEF Report, row, session
<1>8. CASE ChunkEnds
  BY <1>8 DEF ChunkEnds, row, session
<1>9. CASE Disconnect
  BY <1>9 DEF Disconnect
<1>10. CASE Reconnect
  BY <1>10 DEF Reconnect, NewSession, RenewalTarget
<1>11. CASE ReconnectUnrenewed
  BY <1>11 DEF ReconnectUnrenewed, NewSession
<1>12. CASE Hang
  BY <1>12 DEF Hang, row, session, worker
<1>13. CASE Vanish
  BY <1>13 DEF Vanish, row, session, worker
<1>14. CASE Tick
  BY <1>14 DEF Tick, Punctual, Fall
<1>15. CASE UNCHANGED vars
  BY <1>15 DEF vars, row, session, worker
<1> QED
  BY <1>1, <1>2, <1>3, <1>4, <1>5, <1>6, <1>7, <1>8, <1>9, <1>10, <1>11, <1>12,
     <1>13, <1>14, <1>15 DEF Next, Coordinator, Worker

\* renew_lease: "renewal can postpone a reclaim but can never prevent one".  If
\* the claim's own lease respects the execution cap, then a task past its
\* deadline is always up for reclaim, whatever its worker reports.
THEOREM DeadlineHolds ==
    ASSUME AckTimeout <= MaxExecution
    PROVE  Spec => []DeadlineBinds
<1>1. Init => Capped
  BY ConstantsAssumption DEF Init, Capped
<1>2. Typed /\ Capped => DeadlineBinds
  BY DEF Typed, TypeOK, Capped, DeadlineBinds
<1> QED
  BY <1>1, <1>2, TypedInit, TypedStep, CappedStep, PTL DEF Spec

-----------------------------------------------------------------------------
(* The inductive invariant of a healthy attempt *)

\* What a lease has left when its renewal becomes due, at least.
Slack == Least(LeaseTTL, PolicyTTL) - RenewAfter

\* When the coordinator handles the next message that can renew, at the latest.
Waiting ==
    IF wire["progress"] # None THEN wire["progress"]
    ELSE IF wire["result"] # None THEN wire["result"]
    ELSE timer + Latency

\* What is under way, and what the executor has and has not reported.
Flow ==
    /\ ~open => \A k \in Kinds : wire[k] = None
    /\ wire["progress"] # None => wire["progress"] + Interval = timer + Latency
    /\ work = "executing" => wire["result"] = None
    /\ last_reported <= progress

\* While the row is live: no cancel has been sent; task_started is under way at
\* most until it is handled; a finished execution has its result under way; and
\* the next report will not be suppressed.
Held ==
    /\ ~cancel
    /\ wire["cancel"] = None
    /\ work # "cancelled"
    /\ wire["started"] # None => status = "ASSIGNED"
    /\ open /\ work # "executing" => wire["result"] # None
    /\ open /\ work = "executing" => progress # last_reported \/ chunk < timer

\* The lease outlasts, in turn: a reconnect, the first task_started and a
\* reconnect, and the next renewal and a reconnect.
Away == lease >= Least(deadline, back)
Starting == entitled /\ lease >= Least(deadline, wire["started"] + ReconnectTime)
Steady ==
    /\ entitled
    /\ lease >= Least(deadline, due + Slack)
    /\ Waiting - due <= Budget(misses)

OnTime ==
    /\ ~open => Away
    /\ open /\ wire["started"] # None => Starting
    /\ open /\ wire["started"] = None => Steady

Healthy == Live /\ faults = {}

IInv ==
    /\ Typed
    /\ Flow
    /\ Healthy => Held /\ OnTime
    /\ HealthyTaskKeepsLease

\* Budget grows by an interval with each failed renewal.
LEMMA BudgetFacts ==
    ASSUME NEW m \in 0..MaxMisses
    PROVE  /\ Budget(m) \in Nat
           /\ Budget(0) = Interval + Latency
           /\ Budget(0) <= Budget(m)
           /\ Budget(m) <= Budget(MaxMisses)
           /\ Budget(m + 1) = Budget(m) + Interval
<1> USE ConstantsAssumption
<1> DEFINE times(n) == (n + 1) * Interval
<1>1. times(0) = Interval
  OBVIOUS
<1>2. times(m) \in Nat /\ times(MaxMisses) \in Nat
  OBVIOUS
<1>3. times(m) = m * Interval + Interval
  OBVIOUS
<1>4. m * Interval \in Nat
  OBVIOUS
<1>5. times(MaxMisses) = times(m) + (MaxMisses - m) * Interval
  OBVIOUS
<1>6. (MaxMisses - m) * Interval \in Nat
  OBVIOUS
<1>7. times(m + 1) = times(m) + Interval
  OBVIOUS
<1>8. \A n : Budget(n) = times(n) + Latency
  BY DEF Budget
<1> HIDE DEF times
<1> QED
  BY <1>1, <1>2, <1>3, <1>4, <1>5, <1>6, <1>7, <1>8

\* What is under way keeps its order with the reporter's timer.
LEMMA FlowStep == Typed /\ Flow /\ [Next]_vars => Flow'
<1> SUFFICES ASSUME Typed, Flow, [Next]_vars
             PROVE  Flow'
  OBVIOUS
<1> USE ConstantsAssumption DEF Typed, TypeOK, Unfinished, Flow, Kinds, None
<1>1. CASE TaskAck
  BY <1>1 DEF TaskAck, Arrives, renew_if_due, Renew, RenewalTarget, lease_due, worker
<1>2. CASE TaskStarted
  BY <1>2 DEF TaskStarted, Arrives, worker
<1>3. CASE TaskProgress
  BY <1>3 DEF TaskProgress, Arrives, renew_if_due, Renew, RenewalTarget, lease_due, worker
<1>4. CASE TaskResult
  BY <1>4 DEF TaskResult, Arrives, worker
<1>5. CASE Reclaim
  BY <1>5 DEF Reclaim, session, worker
<1>6. CASE TaskCancel
  BY <1>6 DEF TaskCancel, Arrives, row, session
<1>7. CASE Report
  BY <1>7 DEF Report, row, session
<1>8. CASE ChunkEnds
  BY <1>8 DEF ChunkEnds, row, session
<1>9. CASE Disconnect
  BY <1>9 DEF Disconnect
<1>10. CASE Reconnect
  BY <1>10 DEF Reconnect, NewSession, RenewalTarget
<1>11. CASE ReconnectUnrenewed
  BY <1>11 DEF ReconnectUnrenewed, NewSession
<1>12. CASE Hang
  BY <1>12 DEF Hang, row, session, worker
<1>13. CASE Vanish
  BY <1>13 DEF Vanish, row, session, worker
<1>14. CASE Tick
  BY <1>14 DEF Tick, Punctual, Fall
<1>15. CASE UNCHANGED vars
  BY <1>15 DEF vars, row, session, worker
<1> QED
  BY <1>1, <1>2, <1>3, <1>4, <1>5, <1>6, <1>7, <1>8, <1>9, <1>10, <1>11, <1>12,
     <1>13, <1>14, <1>15 DEF Next, Coordinator, Worker

\* While an attempt is healthy, no cancel is sent and its next report goes out.
LEMMA HeldStep ==
    ASSUME Timely, Typed, Flow, Healthy => Held, [Next]_vars
    PROVE  (Healthy => Held)'
<1> SUFFICES ASSUME Healthy'
             PROVE  Held'
  OBVIOUS
<1> USE ConstantsAssumption DEF Timely, Typed, TypeOK, Unfinished, Flow, Held,
        Healthy, Live, Stuck, Kinds, None
<1>1. CASE TaskAck
  BY <1>1 DEF TaskAck, Arrives, renew_if_due, Renew, RenewalTarget, lease_due, worker
<1>2. CASE TaskStarted
  BY <1>2 DEF TaskStarted, Arrives, worker
<1>3. CASE TaskProgress
  BY <1>3 DEF TaskProgress, Arrives, renew_if_due, Renew, RenewalTarget, lease_due, worker
<1>4. CASE TaskResult
  BY <1>4 DEF TaskResult, Arrives, worker
<1>5. CASE Reclaim
  BY <1>5 DEF Reclaim, session, worker
<1>6. CASE TaskCancel
  BY <1>6 DEF TaskCancel, Arrives, row, session
<1>7. CASE Report
  BY <1>7 DEF Report, row, session
<1>8. CASE ChunkEnds
  BY <1>8 DEF ChunkEnds, row, session
<1>9. CASE Disconnect
  BY <1>9 DEF Disconnect
<1>10. CASE Reconnect
  BY <1>10 DEF Reconnect, NewSession, RenewalTarget
<1>11. CASE ReconnectUnrenewed
  BY <1>11 DEF ReconnectUnrenewed, NewSession
<1>12. CASE Hang
  BY <1>12 DEF Hang, row, session, worker
<1>13. CASE Vanish
  BY <1>13 DEF Vanish, row, session, worker
<1>14. CASE Tick
  BY <1>14 DEF Tick, Punctual, Fall
<1>15. CASE UNCHANGED vars
  BY <1>15 DEF vars, row, session, worker
<1> QED
  BY <1>1, <1>2, <1>3, <1>4, <1>5, <1>6, <1>7, <1>8, <1>9, <1>10, <1>11, <1>12,
     <1>13, <1>14, <1>15 DEF Next, Coordinator, Worker

\* While an attempt is healthy, its lease lasts until the next renewal.
LEMMA OnTimeStep ==
    ASSUME Timely, Typed, Flow, Healthy => Held /\ OnTime, [Next]_vars
    PROVE  (Healthy => OnTime)'
<1> SUFFICES ASSUME Healthy'
             PROVE  OnTime'
  OBVIOUS
<1>b. /\ Budget(misses) \in Nat
      /\ Budget(0) = Interval + Latency
      /\ Budget(0) <= Budget(misses)
      /\ Budget(misses) <= Budget(MaxMisses)
      /\ Budget(misses + 1) = Budget(misses) + Interval
      /\ Budget(MaxMisses) \in Nat
  BY BudgetFacts, ConstantsAssumption DEF Typed, TypeOK
<1> USE <1>b, ConstantsAssumption DEF Timely, Typed, TypeOK, Unfinished, Flow, Held,
        Healthy, Live, Stuck, Kinds, None, OnTime, Away, Starting, Steady, Waiting,
        Slack, Least
<1>1. CASE TaskAck
  BY <1>1 DEF TaskAck, Arrives, renew_if_due, Renew, RenewalTarget, lease_due, worker
<1>2. CASE TaskStarted
  BY <1>2 DEF TaskStarted, Arrives, worker
<1>3. CASE TaskProgress
  BY <1>3 DEF TaskProgress, Arrives, renew_if_due, Renew, RenewalTarget, lease_due, worker
<1>4. CASE TaskResult
  BY <1>4 DEF TaskResult, Arrives, worker
<1>5. CASE Reclaim
  BY <1>5 DEF Reclaim, session, worker
<1>6. CASE TaskCancel
  BY <1>6 DEF TaskCancel, Arrives, row, session
<1>7. CASE Report
  BY <1>7 DEF Report, row, session
<1>8. CASE ChunkEnds
  BY <1>8 DEF ChunkEnds, row, session
<1>9. CASE Disconnect
  BY <1>9 DEF Disconnect
<1>10. CASE Reconnect
  <2>1. open' /\ entitled' = Live /\ Live' = Live
    BY <1>10, Zenon DEF Reconnect, NewSession
  <2>2. entitled'
    BY <2>1
  <2>3. wire["started"]' = None
    BY <1>10 DEF Reconnect, NewSession
  <2>4. lease' = Least(LeaseTTL, deadline') /\ due' = 0 /\ deadline' \in Int
    BY <1>10, <2>1 DEF Reconnect, NewSession, RenewalTarget
  <2>5. lease' >= Least(deadline', due' + Slack)
    BY <2>4
  <2>6. Waiting' - due' <= Budget(0) /\ misses' = 0
    BY <1>10 DEF Reconnect, NewSession
  <2>7. (Waiting - due <= Budget(misses))'
    BY <2>6
  <2> QED
    BY <2>1, <2>2, <2>3, <2>5, <2>7
<1>11. CASE ReconnectUnrenewed
  BY <1>11 DEF ReconnectUnrenewed, NewSession
<1>12. CASE Hang
  BY <1>12 DEF Hang, row, session, worker
<1>13. CASE Vanish
  BY <1>13 DEF Vanish, row, session, worker
<1>14. CASE Tick
  BY <1>14 DEF Tick, Punctual, Fall
<1>15. CASE UNCHANGED vars
  BY <1>15 DEF vars, row, session, worker
<1> QED
  BY <1>1, <1>2, <1>3, <1>4, <1>5, <1>6, <1>7, <1>8, <1>9, <1>10, <1>11, <1>12,
     <1>13, <1>14, <1>15 DEF Next, Coordinator, Worker

\* A healthy lease runs out at the deadline at the earliest.
LEMMA ExpiryIsDeadline ==
    ASSUME Timely, Typed, Flow, Healthy, Held, OnTime, lease < 0
    PROVE  deadline <= 0
<1>1. /\ Budget(misses) <= Budget(MaxMisses)
      /\ Budget(misses) \in Nat
      /\ Budget(MaxMisses) \in Nat
  BY BudgetFacts, ConstantsAssumption DEF Typed, TypeOK
<1> USE ConstantsAssumption DEF Typed, TypeOK, Kinds, None, OnTime, Least
<1>2. CASE ~open
  BY <1>2 DEF Away
<1>3. CASE open /\ wire["started"] # None
  BY <1>3 DEF Starting
<1>4. CASE open /\ wire["started"] = None
  BY <1>1, <1>4 DEF Timely, Steady, Waiting, Slack
<1> QED
  BY <1>2, <1>3, <1>4

\* A step keeps the reason of a healthy attempt's end.
LEMMA ReasonStep ==
    ASSUME Timely, IInv, [Next]_vars
    PROVE  HealthyTaskKeepsLease'
<1> SUFFICES ASSUME reason' = "lease_expired", faults' = {}
             PROVE  FALSE
  BY DEF HealthyTaskKeepsLease
<1>1. faults = {}
  BY DEF Next, Coordinator, Worker, TaskAck, TaskStarted, TaskProgress, TaskResult,
         Reclaim, TaskCancel, Report, ChunkEnds, Disconnect, Reconnect,
         ReconnectUnrenewed, Hang, Vanish, Tick, vars
<1>2. reason # "lease_expired"
  BY <1>1 DEF IInv, HealthyTaskKeepsLease
<1>3. CASE Reclaim
  <2>1. Healthy /\ lease < 0
    BY <1>1, <1>3 DEF Reclaim, Healthy
  <2>2. deadline <= 0
    BY <2>1, ExpiryIsDeadline DEF IInv
  <2> QED
    BY <1>3, <2>2 DEF Reclaim
<1>4. CASE UNCHANGED reason
  BY <1>2, <1>4
<1>5. Reclaim \/ UNCHANGED reason
  BY DEF Next, Coordinator, Worker, TaskAck, TaskStarted, TaskProgress, TaskResult,
         TaskCancel, Report, ChunkEnds, Disconnect, Reconnect, ReconnectUnrenewed,
         NewSession, Hang, Vanish, Tick, vars, row
<1> QED
  BY <1>3, <1>4, <1>5

\* The delivery starts on time.
LEMMA HealthyInit == Timely /\ Init => IInv
<1> SUFFICES ASSUME Timely, Init
             PROVE  IInv
  OBVIOUS
<1>1. Typed
  BY TypedInit
<1>2. Flow
  BY ConstantsAssumption DEF Init, Flow, Kinds, None
<1>3. Held
  <2>1. ~cancel
    BY Zenon DEF Init
  <2> QED
    BY <2>1, ConstantsAssumption DEF Init, Held, Kinds, None
<1>4. OnTime
  <2>1. open /\ entitled
    BY Zenon DEF Init
  <2>2. wire["started"] = Latency /\ lease = AckTimeout
    BY DEF Init, Kinds
  <2>3. lease >= Least(deadline, wire["started"] + ReconnectTime)
    BY <2>2, ConstantsAssumption DEF Timely, Least, Init
  <2> QED
    BY <2>1, <2>2, <2>3, ConstantsAssumption DEF OnTime, Starting, None
<1>5. HealthyTaskKeepsLease
  BY DEF Init, HealthyTaskKeepsLease
<1> QED
  BY <1>1, <1>2, <1>3, <1>4, <1>5 DEF IInv

\* The lease design of config.py, for every choice of its numbers: if a chunk is
\* shorter than a report interval, and what a lease has left when its renewal
\* falls due covers MaxMisses failed renewals, one report, its latency and a
\* reconnect, then an attempt whose worker neither hangs nor disappears, and
\* whose hello is not refused by the database, is never reclaimed for an expired
\* lease before its deadline.
THEOREM LeaseKept ==
    ASSUME Timely
    PROVE  Spec => []HealthyTaskKeepsLease
<1>1. Init => IInv
  BY HealthyInit
<1>2. IInv /\ [Next]_vars => IInv'
  <2> SUFFICES ASSUME IInv, [Next]_vars
               PROVE  IInv'
    OBVIOUS
  <2>1. Typed'
    BY TypedStep DEF IInv
  <2>2. Flow'
    BY FlowStep DEF IInv
  <2>3. (Healthy => Held)'
    BY HeldStep DEF IInv
  <2>4. (Healthy => OnTime)'
    BY OnTimeStep DEF IInv
  <2>5. HealthyTaskKeepsLease'
    BY ReasonStep
  <2> QED
    BY <2>1, <2>2, <2>3, <2>4, <2>5 DEF IInv
<1>3. IInv => HealthyTaskKeepsLease
  BY DEF IInv
<1> QED
  BY <1>1, <1>2, <1>3, PTL DEF Spec

=============================================================================
