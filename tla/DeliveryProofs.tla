--------------------------- MODULE DeliveryProofs ---------------------------
(***************************************************************************)
(* Proofs about Delivery, for any number of tasks, attempts, slots,        *)
(* sessions and pending results.                                           *)
(***************************************************************************)
EXTENDS Delivery, FiniteSetTheorems, SequenceTheorems, TLAPS

-----------------------------------------------------------------------------
(***************************************************************************)
(* Sequences: what is in a queue after it has been read from or added to.  *)
(***************************************************************************)

\* Reading takes the head away.
LEMMA RangeOfTail ==
    ASSUME NEW T, NEW q \in Seq(T), q # <<>>
    PROVE  /\ Head(q) \in T /\ Tail(q) \in Seq(T)
           /\ Head(q) \in Range(q) /\ Range(Tail(q)) \subseteq Range(q)
           /\ Range(q) \subseteq Range(Tail(q)) \cup {Head(q)}
<1>1. /\ Head(q) \in T /\ Tail(q) \in Seq(T) /\ Len(Tail(q)) = Len(q) - 1
      /\ \A i \in 1 .. Len(Tail(q)) : Tail(q)[i] = q[i + 1]
      /\ Head(q) = q[1]
  BY HeadTailProperties
<1>2. Len(q) \in Nat \ {0}
  BY EmptySeq
<1>3. /\ Range(q) = {q[i] : i \in 1 .. Len(q)}
      /\ Range(Tail(q)) = {Tail(q)[i] : i \in 1 .. Len(Tail(q))}
  BY <1>1, RangeEquality
<1>4. Head(q) \in Range(q) /\ Range(Tail(q)) \subseteq Range(q)
  BY <1>1, <1>2, <1>3
<1>5. ASSUME NEW i \in 1 .. Len(q), i # 1
      PROVE  i - 1 \in 1 .. Len(Tail(q)) /\ q[i] = Tail(q)[i - 1]
  BY <1>1, <1>2, <1>5
<1> QED
  BY <1>1, <1>3, <1>4, <1>5

\* Adding one message.
LEMMA RangeOfSent ==
    ASSUME NEW T, NEW q \in Seq(T), NEW a \in T
    PROVE  q \o <<a>> \in Seq(T) /\ Range(q \o <<a>>) = Range(q) \cup {a}
<1> DEFINE one == <<a>>
<1>1. one \in Seq(T) /\ Range(one) = {a}
  BY DEF Range
<1> HIDE DEF one
<1>2. q \o one \in Seq(T)
  BY <1>1, ConcatProperties
<1>3. Range(q \o one) = Range(q) \cup Range(one)
  BY <1>1, RangeConcatenation
<1> QED
  BY <1>1, <1>2, <1>3 DEF one

\* Adding two.
LEMMA RangeOfBothSent ==
    ASSUME NEW T, NEW q \in Seq(T), NEW a \in T, NEW b \in T
    PROVE  q \o <<a, b>> \in Seq(T) /\ Range(q \o <<a, b>>) = Range(q) \cup {a, b}
<1> DEFINE two == <<a, b>>
<1>1. two \in Seq(T) /\ Range(two) = {a, b}
  BY DEF Range
<1> HIDE DEF two
<1>2. q \o two \in Seq(T)
  BY <1>1, ConcatProperties
<1>3. Range(q \o two) = Range(q) \cup Range(two)
  BY <1>1, RangeConcatenation
<1> QED
  BY <1>1, <1>2, <1>3 DEF two

\* Taking one entry out of the middle.
LEMMA RangeOfRemoval ==
    ASSUME NEW T, NEW q \in Seq(T), NEW i \in DOMAIN q
    PROVE  LET r == SubSeq(q, 1, i - 1) \o SubSeq(q, i + 1, Len(q))
           IN  r \in Seq(T) /\ Range(r) \subseteq Range(q)
<1> DEFINE a == SubSeq(q, 1, i - 1)
           b == SubSeq(q, i + 1, Len(q))
<1>1. Len(q) \in Nat /\ i \in 1 .. Len(q) /\ q \in Seq(Range(q))
  BY LenProperties, SeqOfRange
<1>2. \A j \in 1 .. Len(q) : q[j] \in Range(q)
  BY <1>1, ElementOfSeq
<1>3. a \in Seq(Range(q)) /\ b \in Seq(Range(q))
  BY <1>1, <1>2, SubSeqProperties
<1>4. a \o b \in Seq(Range(q))
  BY <1>3, ConcatProperties
<1>5. Range(q) \subseteq T
  BY RangeOfSeq
<1> QED
  BY <1>4, <1>5, RangeOfSeq, SeqMonotonic

\* record_result keeps earlier results and adds the new one, and never anything
\* else.
LEMMA RecordResultKeeps ==
    ASSUME results \in Seq(Envelope), NEW e \in Envelope
    PROVE  /\ RecordResult(e) \in Seq(Envelope)
           /\ Range(RecordResult(e)) \subseteq Range(results) \cup {e}
<1> DEFINE kept == IF Len(results) >= MaxPendingResults THEN Tail(results) ELSE results
           same == {i \in DOMAIN kept : kept[i].task = e.task}
           put == [i \in DOMAIN kept |-> IF i \in same THEN e ELSE kept[i]]
<1>1. kept \in Seq(Envelope) /\ Range(kept) \subseteq Range(results)
  <2>1. CASE Len(results) >= MaxPendingResults
    <3>1. results # <<>>
      BY <2>1, SizesAssumption, EmptySeq
    <3> QED BY <2>1, <3>1, RangeOfTail
  <2>2. CASE ~(Len(results) >= MaxPendingResults)
    BY <2>2
  <2> QED BY <2>1, <2>2
<1> HIDE DEF kept
<1>2. /\ Append(kept, e) \in Seq(Envelope)
      /\ Range(Append(kept, e)) = Range(kept) \cup {e}
  <2>1. kept \o <<e>> \in Seq(Envelope) /\ Range(kept \o <<e>>) = Range(kept) \cup {e}
    <3>1. ASSUME NEW k \in Seq(Envelope)
          PROVE  k \o <<e>> \in Seq(Envelope) /\ Range(k \o <<e>>) = Range(k) \cup {e}
      BY RangeOfSent
    <3> QED BY <1>1, <3>1
  <2>2. Append(kept, e) = kept \o <<e>>
    BY <1>1, AppendIsConcat
  <2> QED BY <2>1, <2>2, Zenon
<1>3. put \in Seq(Envelope) /\ Range(put) \subseteq Range(kept) \cup {e}
  <2>1. Len(kept) \in Nat /\ DOMAIN kept = 1 .. Len(kept)
    BY <1>1, LenProperties
  <2>2. \A i \in 1 .. Len(kept) : kept[i] \in Envelope
    BY <1>1, ElementOfSeq
  <2>3. put \in Seq(Envelope)
    BY <2>1, <2>2
  <2>4. Range(put) \subseteq Range(kept) \cup {e}
    BY <2>1 DEF Range
  <2> QED BY <2>3, <2>4
<1>4. RecordResult(e) = IF same = {} THEN Append(kept, e) ELSE put
  BY DEF RecordResult, kept
<1> HIDE DEF put, same
<1> QED
  BY <1>1, <1>2, <1>3, <1>4

-----------------------------------------------------------------------------
(***************************************************************************)
(* Messages.                                                               *)
(***************************************************************************)

\* What the worker may read.
LEMMA DownFields ==
    ASSUME NEW m \in DownMsg
    PROVE  /\ m.type \in {"task_assign", "task_cancel", "task_result_ack"} => m.task \in Tasks
           /\ m.type = "task_assign" => m.attempt \in 0..MaxAttempts
<1> QED
  BY DEF DownMsg, HelloAckMsg, CancelMsg, ResultAckMsg, AssignMsg

\* What the read loop may read.
LEMMA UpFields ==
    ASSUME NEW m \in UpMsg
    PROVE  /\ m.task \in Tasks
           /\ m.type = "task_ack" => m.reply \in Replies
           /\ m.type = "task_result" => m.envelope \in Envelope /\ m.envelope.task = m.task
           /\ m.type \in {"task_ack", "task_started", "task_failed", "capacity", "task_result"}
<1> QED
  BY DEF UpMsg, AckMsg, StartedMsg, FailedMsg, CapacityMsg, ResultMsg, Envelope

-----------------------------------------------------------------------------
(***************************************************************************)
(* Sending and reading.                                                    *)
(***************************************************************************)

\* A frame to the worker.
LEMMA SentDown ==
    ASSUME down \in Seq(DownMsg), NEW m \in DownMsg
    PROVE  /\ ToWorker(<<m>>) \in Seq(DownMsg)
           /\ Range(ToWorker(<<m>>)) = IF conn = "down" THEN Range(down) ELSE Range(down) \cup {m}
<1>1. down \o <<m>> \in Seq(DownMsg) /\ Range(down \o <<m>>) = Range(down) \cup {m}
  BY RangeOfSent
<1> QED
  BY <1>1 DEF ToWorker

\* A frame to the coordinator, or two.
LEMMA SentUp ==
    ASSUME up \in Seq(UpMsg), NEW m \in UpMsg
    PROVE  /\ ToCoordinator(<<m>>) \in Seq(UpMsg)
           /\ Range(ToCoordinator(<<m>>)) = IF phase = "none" THEN Range(up) ELSE Range(up) \cup {m}
<1>1. up \o <<m>> \in Seq(UpMsg) /\ Range(up \o <<m>>) = Range(up) \cup {m}
  BY RangeOfSent
<1> QED
  BY <1>1 DEF ToCoordinator

\* Two frames to the coordinator.
LEMMA BothSentUp ==
    ASSUME up \in Seq(UpMsg), NEW m \in UpMsg, NEW n \in UpMsg
    PROVE  /\ ToCoordinator(<<m, n>>) \in Seq(UpMsg)
           /\ Range(ToCoordinator(<<m, n>>)) =
                 IF phase = "none" THEN Range(up) ELSE Range(up) \cup {m, n}
<1>1. up \o <<m, n>> \in Seq(UpMsg) /\ Range(up \o <<m, n>>) = Range(up) \cup {m, n}
  BY RangeOfBothSent
<1> QED
  BY <1>1 DEF ToCoordinator

\* A report, which needs an attached session.
LEMMA Reported ==
    ASSUME up \in Seq(UpMsg), NEW m \in UpMsg
    PROVE  /\ Report(m) \in Seq(UpMsg)
           /\ Range(Report(m)) = IF phase = "none" \/ conn # "up" THEN Range(up)
                                 ELSE Range(up) \cup {m}
<1> QED
  BY SentUp DEF Report

\* What a handler of the read loop finds.
LEMMA ReadUp ==
    ASSUME up \in Seq(UpMsg), NEW type, Receives(type)
    PROVE  /\ Head(up) \in UpMsg /\ Head(up).type = type /\ Tail(up) \in Seq(UpMsg)
           /\ Head(up) \in Range(up) /\ Range(Tail(up)) \subseteq Range(up)
           /\ Range(up) \subseteq Range(Tail(up)) \cup {Head(up)}
           /\ Head(up).task \in Tasks
           /\ type = "task_ack" => Head(up).reply \in Replies
           /\ type = "task_result" => /\ Head(up).envelope \in Envelope
                                      /\ Head(up).envelope.task = Head(up).task
           /\ phase = "open"
<1>1. up # <<>> /\ Head(up).type = type /\ phase = "open"
  BY DEF Receives
<1>2. /\ Head(up) \in UpMsg /\ Tail(up) \in Seq(UpMsg)
      /\ Head(up) \in Range(up) /\ Range(Tail(up)) \subseteq Range(up)
      /\ Range(up) \subseteq Range(Tail(up)) \cup {Head(up)}
  BY <1>1, RangeOfTail
<1> QED
  BY <1>1, <1>2, UpFields

\* What the worker finds.
LEMMA ReadDown ==
    ASSUME down \in Seq(DownMsg), NEW type, WorkerReceives(type)
    PROVE  /\ Head(down) \in DownMsg /\ Head(down).type = type /\ Tail(down) \in Seq(DownMsg)
           /\ Head(down) \in Range(down) /\ Range(Tail(down)) \subseteq Range(down)
           /\ Range(down) \subseteq Range(Tail(down)) \cup {Head(down)}
           /\ type # "hello_ack" => Head(down).task \in Tasks
           /\ type = "task_assign" => Head(down).attempt \in 0..MaxAttempts
<1>1. down # <<>> /\ Head(down).type = type
  BY DEF WorkerReceives
<1>2. /\ Head(down) \in DownMsg /\ Tail(down) \in Seq(DownMsg)
      /\ Head(down) \in Range(down) /\ Range(Tail(down)) \subseteq Range(down)
      /\ Range(down) \subseteq Range(Tail(down)) \cup {Head(down)}
  BY <1>1, RangeOfTail
<1>3. Head(down).type \in {"task_assign", "task_cancel", "task_result_ack", "hello_ack"}
  BY <1>2 DEF DownMsg, HelloAckMsg, CancelMsg, ResultAckMsg, AssignMsg
<1> QED
  BY <1>1, <1>2, <1>3, DownFields

-----------------------------------------------------------------------------
(***************************************************************************)
(* The inductive invariant.                                                *)
(***************************************************************************)

\* The cap on attempts: a task that is not over has an attempt left, and one
\* nobody has been handed has no owner.
AttemptsLeft ==
    \A t \in Tasks :
        /\ row[t].status \in {"QUEUED", "ASSIGNED", "RUNNING"} => row[t].attempt < AttemptCap[t]
        /\ row[t].status = "QUEUED" => row[t].owner = "none"
        /\ Live(t) => row[t].owner \in {"me", "other"}

\* Sessions are numbered: a hello is sent only while a session is left, and a
\* pass is for a session opened already.
EpochsOrdered == /\ hello # NoHello => epoch < MaxSessions
                 /\ pass.epoch <= epoch

\* The tasks of a batch are distinct.
BatchIsKeyed == \A d, f \in pass.batch : d.task = f.task => d = f

\* Results are kept and sent only for executions that succeeded.
ResultsWereExecuted ==
    /\ \A e \in Range(results) : <<e.task, e.attempt>> \in executed
    /\ \A m \in Range(up) : m.type = "task_result"
          => <<m.envelope.task, m.envelope.attempt>> \in executed

\* A socket not attached yet has carried nothing up.
NothingBeforeAttach ==
    /\ phase = "none" \/ conn = "hello" => up = <<>>
    /\ phase # "none" /\ conn = "hello" => credited \subseteq pendingAcks

Ends(m, t) == m.type \in {"task_result", "task_failed", "capacity"} /\ m.task = t

\* While the socket is whole, every delivery not acknowledged is either unread or
\* answered,
AcksOnTheWay ==
    (phase # "none" /\ conn # "down") =>
        \A t \in pendingAcks :
            \/ \E m \in Range(down) : m.type = "task_assign" /\ m.task = t
            \/ \E m \in Range(up) : m.type = "task_ack" /\ m.task = t

\* an acceptance under way is followed by the report that ends the execution, if
\* that is not still running,
Followed(q, r) ==
    \A i \in DOMAIN q :
        (q[i].type = "task_ack" /\ q[i].reply = "accepted")
            => \/ r[q[i].task] # Idle
               \/ \E j \in DOMAIN q : j > i /\ Ends(q[j], q[i].task)

AcceptedIsFollowed == (phase # "none" /\ conn = "up") => Followed(up, running)

\* and a credit whose delivery has been acknowledged is running, reported or
\* refused.
AcknowledgedIsExplained ==
    (phase # "none" /\ conn = "up") =>
        \A t \in credited \ pendingAcks :
            \/ t \in refused
            \/ running[t] # Idle
            \/ \E m \in Range(up) : Ends(m, t)

BaseInv == TypeOK /\ AttemptsLeft /\ EpochsOrdered /\ SlotsMatchRunning
CreditInv == BatchIsKeyed /\ CreditsWithinLimit
WireInv == /\ NothingBeforeAttach /\ AcksOnTheWay /\ AcceptedIsFollowed
           /\ AcknowledgedIsExplained
IInv == BaseInv /\ CreditInv /\ ResultsWereExecuted /\ CompletionWasExecuted /\ WireInv

-----------------------------------------------------------------------------
(***************************************************************************)
(* Types, attempts and epochs.                                             *)
(***************************************************************************)

\* The initial state.
LEMMA InitBase == Init => BaseInv
<1> SUFFICES ASSUME Init PROVE BaseInv
  OBVIOUS
<1> USE SizesAssumption, CapsAssumption, TasksAssumption DEF Init
<1>1. TypeOK
  <2>1. saturated \in BOOLEAN /\ draining \in BOOLEAN
    OBVIOUS
  <2>2. down \in Seq(DownMsg) /\ up \in Seq(UpMsg) /\ results \in Seq(Envelope)
    OBVIOUS
  <2>3. row \in [Tasks -> Row] /\ running \in [Tasks -> Execution \cup {Idle}]
    BY DEF Row
  <2>4. pass \in Pass
    BY DEF Pass, NoPass
  <2> QED BY <2>1, <2>2, <2>3, <2>4 DEF TypeOK
<1>2. AttemptsLeft /\ EpochsOrdered
  BY DEF AttemptsLeft, EpochsOrdered, NoPass, Live
<1>3. Running = {}
  BY DEF Running
<1>4. SlotsMatchRunning
  BY <1>3, FS_EmptySet DEF SlotsMatchRunning
<1> QED BY <1>1, <1>2, <1>4 DEF BaseInv

\* The executions under way are as many as the slots taken.
LEMMA RunningCounted ==
    ASSUME TypeOK, SlotsMatchRunning
    PROVE  /\ IsFiniteSet(Running) /\ Cardinality(Running) \in 0..MaxConcurrent
           /\ \A t \in Tasks : running[t] # Idle => slots < MaxConcurrent
<1>1. IsFiniteSet(Running) /\ Cardinality(Running) \in Nat
  BY TasksAssumption, FS_Subset, FS_CardinalityType DEF Running
<1>2. slots \in 0..MaxConcurrent /\ slots + Cardinality(Running) = MaxConcurrent
  BY DEF TypeOK, SlotsMatchRunning
<1>3. ASSUME NEW t \in Tasks, running[t] # Idle PROVE Cardinality(Running) # 0
  BY <1>1, <1>3, FS_EmptySet DEF Running
<1> QED
  BY <1>1, <1>2, <1>3, SizesAssumption

\* The leases running out and the other workers.
LEMMA EnvironmentTyped ==
    ASSUME BaseInv, Environment
    PROVE  TypeOK' /\ AttemptsLeft' /\ EpochsOrdered'
<1> USE SizesAssumption
        DEF BaseInv, TypeOK, AttemptsLeft, EpochsOrdered, coordVars, sessionVars,
            wireVars, workerVars, histVars
<1>1. ASSUME NEW t \in Tasks, Reclaim(t) PROVE TypeOK' /\ AttemptsLeft' /\ EpochsOrdered'
  <2>1. AttemptCap[t] \in 1..MaxAttempts
    BY CapsAssumption
  <2> DEFINE next == [status  |-> IF row[t].attempt + 1 >= AttemptCap[t] THEN "FAILED" ELSE "QUEUED",
                      owner   |-> "none", attempt |-> row[t].attempt + 1]
  <2>2. row' = [row EXCEPT ![t] = next]
    BY <1>1 DEF Reclaim
  <2>3. row[t] \in Row /\ row[t].attempt < AttemptCap[t]
    BY <1>1 DEF Reclaim, Live
  <2>4. row[t].attempt + 1 \in 0..MaxAttempts
    BY ONLY <2>1, <2>3, SizesAssumption DEF Row
  <2>5. next \in Row
    BY <2>4 DEF Row
  <2>6. next.status = "QUEUED" => next.attempt < AttemptCap[t]
    BY ONLY <2>1, <2>4
  <2>7. next.status \in {"FAILED", "QUEUED"} /\ next.owner = "none"
    OBVIOUS
  <2> HIDE DEF next
  <2>8. row' \in [Tasks -> Row]
    BY <2>2, <2>5
  <2>9. AttemptsLeft'
    BY <2>2, <2>6, <2>7 DEF Live
  <2> QED BY <1>1, <2>8, <2>9 DEF Reclaim
<1>2. ASSUME NEW t \in Tasks, OtherClaims(t) PROVE TypeOK' /\ AttemptsLeft' /\ EpochsOrdered'
  BY <1>2 DEF OtherClaims, Live, Row
<1>3. ASSUME NEW t \in Tasks, OtherCompletes(t)
      PROVE  TypeOK' /\ AttemptsLeft' /\ EpochsOrdered'
  BY <1>3 DEF OtherCompletes, Live, Row
<1>4. ASSUME NEW t \in Tasks, ForwardCancel(t)
      PROVE  TypeOK' /\ AttemptsLeft' /\ EpochsOrdered'
  <2>1. CancelMsg(t) \in DownMsg
    BY DEF DownMsg
  <2>2. down' \in Seq(DownMsg)
    BY <1>4, <2>1, SentDown DEF ForwardCancel
  <2> QED BY <1>4, <2>2 DEF ForwardCancel, Live
<1>5. CASE BeginDrain
  BY <1>5 DEF BeginDrain, dbVars, Live
<1> QED
  BY <1>1, <1>2, <1>3, <1>4, <1>5 DEF Environment

\* The session.
LEMMA SessionTyped ==
    ASSUME BaseInv, OpenSession \/ RecoverLeases \/ SessionEnds
    PROVE  TypeOK' /\ AttemptsLeft' /\ EpochsOrdered'
<1> USE SizesAssumption
        DEF BaseInv, TypeOK, AttemptsLeft, EpochsOrdered, dbVars, coordVars,
            sessionVars, wireVars, workerVars, histVars, Live, Pass, NoHello
<1>1. CASE OpenSession
  <2>1. HelloAckMsg \in DownMsg
    BY DEF DownMsg
  <2>2. down' \in Seq(DownMsg)
    BY <1>1, <2>1, SentDown DEF OpenSession
  <2>3. up' \in Seq(UpMsg)
    BY <1>1 DEF OpenSession
  <2>4. saturated' \in BOOLEAN /\ draining' \in BOOLEAN
    BY <1>1 DEF OpenSession
  <2>5. epoch' \in 0..MaxSessions /\ residual' \in 0..MaxConcurrent
    BY <1>1 DEF OpenSession
  <2>6. EpochsOrdered' /\ AttemptsLeft'
    BY <1>1 DEF OpenSession
  <2> QED BY <1>1, <2>2, <2>3, <2>4, <2>5, <2>6 DEF OpenSession
<1>2. CASE RecoverLeases
  BY <1>2 DEF RecoverLeases
<1>3. CASE SessionEnds
  <2>1. up' \in Seq(UpMsg)
    BY <1>3 DEF SessionEnds
  <2>2. saturated' \in BOOLEAN /\ draining' \in BOOLEAN
    BY <1>3 DEF SessionEnds
  <2>3. EpochsOrdered' /\ AttemptsLeft'
    BY <1>3 DEF SessionEnds
  <2> QED BY <1>3, <2>1, <2>2, <2>3 DEF SessionEnds
<1> QED
  BY <1>1, <1>2, <1>3

\* The assignment pass.
LEMMA PassTyped ==
    ASSUME BaseInv, AssignmentLoop
    PROVE  TypeOK' /\ AttemptsLeft' /\ EpochsOrdered'
<1> USE SizesAssumption
        DEF BaseInv, TypeOK, AttemptsLeft, EpochsOrdered, dbVars, sessionVars,
            wireVars, workerVars, histVars, Live
<1>1. CASE StartPass
  BY <1>1 DEF StartPass, Pass
<1>2. CASE ClaimNothing
  BY <1>2 DEF ClaimNothing, Pass, NoPass
<1>3. ASSUME NEW S \in SUBSET Tasks, Claim(S)
      PROVE  TypeOK' /\ AttemptsLeft' /\ EpochsOrdered'
  <2>1. row' \in [Tasks -> Row]
    <3>1. \A t \in Tasks : row[t] \in Row
      OBVIOUS
    <3>2. \A t \in Tasks : [row[t] EXCEPT !.status = "ASSIGNED", !.owner = "me"] \in Row
      BY <3>1 DEF Row
    <3> QED BY <1>3, <3>1, <3>2 DEF Claim
  <2>2. AttemptsLeft'
    BY <1>3 DEF Claim, Row
  <2>3. pass' \in Pass /\ pass'.epoch = pass.epoch
    <3>1. {[task |-> t, attempt |-> row[t].attempt] : t \in S} \subseteq Claimed
      BY DEF Row, Claimed
    <3> QED BY <1>3, <3>1 DEF Claim, Pass
  <2> QED BY <1>3, <2>1, <2>2, <2>3 DEF Claim
<1>4. ASSUME NEW d \in pass.batch, Deliver(d) \/ DeliverFails(d)
      PROVE  TypeOK' /\ AttemptsLeft' /\ EpochsOrdered'
  <2>1. d.task \in Tasks /\ d.attempt \in 0..MaxAttempts
    BY DEF Pass, Claimed
  <2>2. AssignMsg(d.task, d.attempt) \in DownMsg
    BY <2>1 DEF DownMsg
  <2>3. down' \in Seq(DownMsg)
    <3>1. CASE Deliver(d) BY <3>1, <2>2, SentDown DEF Deliver
    <3>2. CASE DeliverFails(d) BY <3>2 DEF DeliverFails
    <3> QED BY <1>4, <3>1, <3>2
  <2>4. pass' \in Pass /\ pass'.epoch <= epoch
    BY <1>4 DEF Deliver, DeliverFails, PassWithout, Pass, NoPass
  <2> QED BY <1>4, <2>1, <2>3, <2>4 DEF Deliver, DeliverFails
<1> QED
  BY <1>1, <1>2, <1>3, <1>4 DEF AssignmentLoop

Statuses == {"QUEUED", "ASSIGNED", "RUNNING", "COMPLETED", "FAILED"}

\* From where check_transition lets a worker report RUNNING and FAILED.
LEMMA ReportableFrom ==
    \A s \in Statuses :
        /\ check_transition(s, "RUNNING") = "write" => s = "ASSIGNED"
        /\ check_transition(s, "FAILED") = "write" => s \in {"ASSIGNED", "RUNNING"}
<1>1. /\ Allowed["QUEUED"] = {"ASSIGNED", "CANCELLED"}
      /\ Allowed["RUNNING"] = {"COMPLETED", "FAILED", "CANCELLED", "QUEUED"}
      /\ Allowed["COMPLETED"] = {} /\ Allowed["FAILED"] = {}
  BY DEF Allowed
<1> QED
  BY <1>1 DEF check_transition, Statuses

\* Writing the status of one row.
LEMMA StatusWritten ==
    ASSUME row \in [Tasks -> Row], NEW t \in Tasks, NEW s \in Statuses,
           row' = [row EXCEPT ![t].status = s]
    PROVE  /\ row' \in [Tasks -> Row]
           /\ row'[t] = [row[t] EXCEPT !.status = s]
           /\ \A u \in Tasks : u # t => row'[u] = row[u]
<1>1. row[t] \in Row
  OBVIOUS
<1>2. [row[t] EXCEPT !.status = s] \in Row
  BY <1>1 DEF Row, Statuses
<1> QED
  BY <1>2

\* A handler of the read loop changes at most the status of a row, and that only
\* along the state machine.
LEMMA ReadLoopRows ==
    ASSUME BaseInv, ReadLoop
    PROVE  /\ row' \in [Tasks -> Row]
           /\ \A t \in Tasks :
                 \/ row'[t] = row[t]
                 \/ /\ row[t].owner = "me"
                    /\ \/ row[t].status = "ASSIGNED" /\ row'[t] = [row[t] EXCEPT !.status = "RUNNING"]
                       \/ Live(t) /\ row'[t] = [row[t] EXCEPT !.status = "FAILED"]
                       \/ /\ Live(t) /\ row'[t] = [row[t] EXCEPT !.status = "COMPLETED"]
                          /\ Receives("task_result")
                          /\ Head(up).envelope.task = t
                          /\ Head(up).envelope.attempt = row[t].attempt
<1> USE DEF BaseInv, TypeOK, dbVars
<1>1. \A t \in Tasks : row[t] \in Row /\ row[t].status \in Statuses
  BY DEF Row, Statuses
<1>2. CASE HandleTaskAck \/ HandleCapacity
  BY <1>2 DEF HandleTaskAck, HandleCapacity
<1>3. CASE HandleTaskStarted
  <2> DEFINE t == Head(up).task
  <2>1. t \in Tasks
    BY <1>3, ReadUp DEF HandleTaskStarted
  <2>2. check_transition(row[t].status, "RUNNING") = "write" => row[t].status = "ASSIGNED"
    BY <1>1, <2>1, ReportableFrom
  <2> HIDE DEF t
  <2>3. row' = row \/ /\ row[t].owner = "me" /\ row[t].status = "ASSIGNED"
                      /\ row' = [row EXCEPT ![t].status = "RUNNING"]
    BY <1>3, <2>2 DEF HandleTaskStarted, t
  <2> QED BY <2>1, <2>3, StatusWritten DEF Statuses
<1>4. CASE HandleTaskFailed
  <2> DEFINE t == Head(up).task
  <2>1. t \in Tasks
    BY <1>4, ReadUp DEF HandleTaskFailed
  <2>2. check_transition(row[t].status, "FAILED") = "write" => Live(t)
    BY <1>1, <2>1, ReportableFrom DEF Live
  <2> HIDE DEF t
  <2>3. row' = row \/ /\ row[t].owner = "me" /\ Live(t)
                      /\ row' = [row EXCEPT ![t].status = "FAILED"]
    BY <1>4, <2>2 DEF HandleTaskFailed, t
  <2> QED BY <2>1, <2>3, StatusWritten DEF Statuses
<1>5. CASE HandleTaskResult
  <2> DEFINE e == Head(up).envelope
             t == e.task
  <2>1. e \in Envelope /\ t \in Tasks /\ Receives("task_result")
    BY <1>5, ReadUp DEF HandleTaskResult
  <2>2. result_outcome(e) = "transitioned" =>
            row[t].attempt = e.attempt /\ row[t].owner = "me"
            /\ row[t].status \notin TERMINAL_STATES
    BY DEF result_outcome
  <2>3. row[t].owner = "me" /\ row[t].status \notin TERMINAL_STATES => Live(t)
    BY <1>1, <2>1 DEF AttemptsLeft, TERMINAL_STATES, Live, Statuses
  <2>4. row' = row \/ /\ result_outcome(e) = "transitioned"
                      /\ row' = [row EXCEPT ![t].status = "COMPLETED"]
    BY <1>5 DEF HandleTaskResult
  <2>5. row[t] \in Row
    BY <1>1, <2>1
  <2>6. row' = row \/ /\ row[t].owner = "me" /\ Live(t) /\ e.attempt = row[t].attempt
                      /\ row' = [row EXCEPT ![t].status = "COMPLETED"]
    BY <2>2, <2>3, <2>4
  <2> HIDE DEF t, e
  <2>7. CASE row' = row
    BY <2>7
  <2>8. CASE row' = [row EXCEPT ![t].status = "COMPLETED"] /\ row' # row
    <3>1. /\ row' \in [Tasks -> Row]
          /\ row'[t] = [row[t] EXCEPT !.status = "COMPLETED"]
          /\ \A u \in Tasks : u # t => row'[u] = row[u]
      BY <2>1, <2>8, StatusWritten DEF Statuses
    <3> QED BY <2>1, <2>6, <2>8, <3>1 DEF t, e
  <2> QED BY <2>6, <2>7, <2>8
<1> QED
  BY <1>2, <1>3, <1>4, <1>5 DEF ReadLoop

\* The read loop.
LEMMA ReadLoopTyped ==
    ASSUME BaseInv, ReadLoop
    PROVE  TypeOK' /\ AttemptsLeft' /\ EpochsOrdered'
<1> USE SizesAssumption
        DEF BaseInv, TypeOK, EpochsOrdered, dbVars, coordVars, sessionVars,
            workerVars, histVars
<1>1. row' \in [Tasks -> Row] /\ AttemptsLeft'
  <2>1. row' \in [Tasks -> Row]
    BY ReadLoopRows
  <2>2. ASSUME NEW t \in Tasks
        PROVE  /\ row'[t].owner = row[t].owner /\ row'[t].attempt = row[t].attempt
               /\ \/ row'[t].status = row[t].status
                  \/ row[t].status = "ASSIGNED" /\ row'[t].status = "RUNNING"
                  \/ row'[t].status \in {"FAILED", "COMPLETED"}
    <3>1. row[t] \in Row
      OBVIOUS
    <3>2. \/ row'[t] = row[t]
          \/ row[t].status = "ASSIGNED" /\ row'[t] = [row[t] EXCEPT !.status = "RUNNING"]
          \/ row'[t] = [row[t] EXCEPT !.status = "FAILED"]
          \/ row'[t] = [row[t] EXCEPT !.status = "COMPLETED"]
      BY ReadLoopRows
    <3>3. ASSUME NEW u \in Statuses, row'[t] = [row[t] EXCEPT !.status = u]
          PROVE  /\ row'[t].owner = row[t].owner /\ row'[t].attempt = row[t].attempt
                 /\ row'[t].status = u
      BY <3>1, <3>3 DEF Row
    <3>4. CASE row'[t] = row[t]
      BY <3>4
    <3>5. CASE row[t].status = "ASSIGNED" /\ row'[t] = [row[t] EXCEPT !.status = "RUNNING"]
      BY <3>3, <3>5 DEF Statuses
    <3>6. CASE row'[t] = [row[t] EXCEPT !.status = "FAILED"]
      BY <3>3, <3>6 DEF Statuses
    <3>7. CASE row'[t] = [row[t] EXCEPT !.status = "COMPLETED"]
      BY <3>3, <3>7 DEF Statuses
    <3> QED BY <3>2, <3>4, <3>5, <3>6, <3>7
  <2>3. AttemptsLeft'
    BY <2>2 DEF AttemptsLeft, Live
  <2> QED BY <2>1, <2>3
<1>2. ASSUME NEW type, Receives(type), up' = Tail(up)
      PROVE  up' \in Seq(UpMsg) /\ Head(up).task \in Tasks
  BY <1>2, ReadUp
<1>3. CASE HandleTaskAck
  <2>1. up' \in Seq(UpMsg) /\ Head(up).task \in Tasks
    BY <1>2, <1>3 DEF HandleTaskAck
  <2>2. saturated' \in BOOLEAN
    BY <1>3 DEF HandleTaskAck
  <2>3. credited' \subseteq Tasks /\ residual' \in 0..MaxConcurrent
    BY <1>3 DEF HandleTaskAck, ReleaseCredit
  <2>4. pendingAcks' \subseteq Tasks /\ refused' \subseteq Tasks
    BY <1>3, <2>1 DEF HandleTaskAck
  <2> QED BY <1>1, <1>3, <2>1, <2>2, <2>3, <2>4 DEF HandleTaskAck
<1>4. CASE HandleTaskStarted
  BY <1>1, <1>2, <1>4 DEF HandleTaskStarted
<1>5. CASE HandleCapacity
  <2>1. saturated' \in BOOLEAN
    BY <1>5 DEF HandleCapacity, ForgetTask
  <2>2. up' \in Seq(UpMsg)
    BY <1>2, <1>5 DEF HandleCapacity
  <2> QED BY <1>1, <1>5, <2>1, <2>2 DEF HandleCapacity, ForgetTask, ReleaseCredit
<1>6. CASE HandleTaskFailed
  <2>1. saturated' \in BOOLEAN
    BY <1>6 DEF HandleTaskFailed, ForgetTask
  <2>2. up' \in Seq(UpMsg)
    BY <1>2, <1>6 DEF HandleTaskFailed
  <2>3. credited' \subseteq Tasks /\ residual' \in 0..MaxConcurrent
    BY <1>6 DEF HandleTaskFailed, ReleaseCredit
  <2> QED BY <1>1, <1>6, <2>1, <2>2, <2>3 DEF HandleTaskFailed, ForgetTask
<1>7. CASE HandleTaskResult
  <2>1. up' \in Seq(UpMsg) /\ Head(up).envelope \in Envelope
    BY <1>7, ReadUp DEF HandleTaskResult
  <2>2. ResultAckMsg(Head(up).envelope.task, Head(up).envelope.attempt) \in DownMsg
    BY <2>1 DEF DownMsg, Envelope
  <2>3. down' \in Seq(DownMsg)
    BY <1>7, <2>2, SentDown DEF HandleTaskResult
  <2>4. saturated' \in BOOLEAN /\ recovered' \subseteq Tasks
    BY <1>7 DEF HandleTaskResult, ForgetTask
  <2>5. credited' \subseteq Tasks /\ residual' \in 0..MaxConcurrent
    BY <1>7 DEF HandleTaskResult, ReleaseCredit
  <2> QED BY <1>1, <1>7, <2>1, <2>3, <2>4, <2>5 DEF HandleTaskResult
<1> QED
  BY <1>3, <1>4, <1>5, <1>6, <1>7 DEF ReadLoop

\* The worker: connecting, admission, execution and results.
LEMMA WorkerTyped ==
    ASSUME BaseInv, \/ Connect \/ WorkerLosesSocket \/ RestartWorker \/ WorkerReads
                    \/ (\E t \in Tasks : Execute(t)) \/ Resubmit
    PROVE  TypeOK' /\ AttemptsLeft' /\ EpochsOrdered'
<1> USE SizesAssumption
        DEF BaseInv, TypeOK, AttemptsLeft, EpochsOrdered, dbVars, coordVars,
            sessionVars, workerVars, histVars, Live
<1>1. CASE Connect
  BY <1>1, RunningCounted DEF Connect, NoHello
<1>2. CASE WorkerLosesSocket
  <2>1. down' \in Seq(DownMsg)
    BY <1>2 DEF WorkerLosesSocket
  <2> QED BY <1>2, <2>1 DEF WorkerLosesSocket
<1>3. CASE RestartWorker
  <2>1. down' \in Seq(DownMsg) /\ results' \in Seq(Envelope)
    BY <1>3 DEF RestartWorker
  <2>2. Pending \subseteq Envelope
    BY ElementOfSeq, LenProperties DEF Pending
  <2>3. discarded' \subseteq Tasks \X (0..MaxAttempts)
    BY <1>3, <2>2 DEF RestartWorker, Envelope
  <2> QED BY <1>3, <2>1, <2>3 DEF RestartWorker
<1>4. CASE Attach
  BY <1>4, ReadDown DEF Attach
<1>5. CASE HandleAssignment
  <2> DEFINE t == Head(down).task
             a == Head(down).attempt
  <2>1. t \in Tasks /\ a \in 0..MaxAttempts /\ down' \in Seq(DownMsg)
    BY <1>5, ReadDown DEF HandleAssignment
  <2>2. /\ StartedMsg(t) \in UpMsg
        /\ \A r \in Replies : AckMsg(t, r) \in UpMsg
    BY <2>1 DEF UpMsg
  <2>3. up' \in Seq(UpMsg)
    <3>1. \/ \E r \in Replies : up' = ToCoordinator(<<AckMsg(t, r)>>)
          \/ up' = ToCoordinator(<<AckMsg(t, "accepted"), StartedMsg(t)>>)
      BY <1>5 DEF HandleAssignment, Replies
    <3>2. "accepted" \in Replies
      BY DEF Replies
    <3> HIDE DEF t
    <3>3. ASSUME NEW r \in Replies, up' = ToCoordinator(<<AckMsg(t, r)>>)
          PROVE  up' \in Seq(UpMsg)
      BY <2>2, <3>3, SentUp
    <3>4. ASSUME up' = ToCoordinator(<<AckMsg(t, "accepted"), StartedMsg(t)>>)
          PROVE  up' \in Seq(UpMsg)
      BY <2>2, <3>2, <3>4, BothSentUp
    <3> QED BY <3>1, <3>3, <3>4
  <2>4. running' \in [Tasks -> Execution \cup {Idle}] /\ slots' \in 0..MaxConcurrent
    <3> DEFINE x == [attempt |-> a, cancel |-> FALSE]
    <3>1. x \in Execution
      BY <2>1 DEF Execution
    <3>2. \/ UNCHANGED <<running, slots>>
          \/ /\ slots > 0 /\ slots' = slots - 1
             /\ running' = [running EXCEPT ![t] = x]
      BY <1>5 DEF HandleAssignment
    <3> HIDE DEF t, x
    <3> QED BY <2>1, <3>1, <3>2
  <2> QED BY <1>5, <2>1, <2>3, <2>4 DEF HandleAssignment
<1>6. CASE HandleCancel
  <2> DEFINE t == Head(down).task
  <2>1. t \in Tasks /\ down' \in Seq(DownMsg)
    BY <1>6, ReadDown DEF HandleCancel
  <2>2. running[t] # Idle => [running[t] EXCEPT !.cancel = TRUE] \in Execution
    BY <2>1 DEF Execution
  <2>3. running' \in [Tasks -> Execution \cup {Idle}]
    BY <1>6, <2>1, <2>2 DEF HandleCancel
  <2> QED BY <1>6, <2>1, <2>3 DEF HandleCancel
<1>7. CASE HandleResultAck
  <2>1. down' \in Seq(DownMsg)
    BY <1>7, ReadDown DEF HandleResultAck
  <2>2. results' \in Seq(Envelope)
    <3>1. \/ UNCHANGED results
          \/ \E i \in DOMAIN results :
                results' = SubSeq(results, 1, i - 1) \o SubSeq(results, i + 1, Len(results))
      BY <1>7 DEF HandleResultAck
    <3>2. ASSUME NEW i \in DOMAIN results
          PROVE  SubSeq(results, 1, i - 1) \o SubSeq(results, i + 1, Len(results)) \in Seq(Envelope)
      BY RangeOfRemoval
    <3> QED BY <3>1, <3>2
  <2>3. discarded' \subseteq Tasks \X (0..MaxAttempts)
    <3>1. \A i \in DOMAIN results : results[i] \in Envelope
      BY ElementOfSeq, LenProperties
    <3>2. Head(down).task \in Tasks
      BY <1>7, ReadDown DEF HandleResultAck
    <3>3. \A i \in DOMAIN results : results[i].attempt \in 0..MaxAttempts
      BY <3>1 DEF Envelope
    <3>4. \/ discarded' = discarded
          \/ \E i \in DOMAIN results :
                discarded' = discarded \cup {<<Head(down).task, results[i].attempt>>}
      BY <1>7 DEF HandleResultAck
    <3>5. discarded \subseteq Tasks \X (0..MaxAttempts)
      OBVIOUS
    <3> QED BY ONLY <3>2, <3>3, <3>4, <3>5
  <2> QED BY <1>7, <2>1, <2>2, <2>3 DEF HandleResultAck
<1>8. ASSUME NEW t \in Tasks, Execute(t) PROVE TypeOK' /\ AttemptsLeft' /\ EpochsOrdered'
  <2>1. running' \in [Tasks -> Execution \cup {Idle}] /\ slots' \in 0..MaxConcurrent
    <3>1. ReleaseSlot(t)
      BY <1>8 DEF Execute, ExecutionSucceeds, ExecutionFails, ExecutionCancelled
    <3>2. slots < MaxConcurrent
      BY <3>1, RunningCounted DEF ReleaseSlot
    <3> QED BY <3>1, <3>2 DEF ReleaseSlot
  <2>2. running[t] \in Execution
    BY <1>8 DEF Execute, ExecutionSucceeds, ExecutionFails, ExecutionCancelled, ReleaseSlot
  <2>3. ASSUME NEW valid \in BOOLEAN, ExecutionSucceeds(t, valid)
        PROVE  TypeOK' /\ AttemptsLeft' /\ EpochsOrdered'
    <3> DEFINE e == [task |-> t, attempt |-> running[t].attempt, valid |-> valid]
    <3>1. e \in Envelope /\ running[t].attempt \in 0..MaxAttempts
      BY <2>2 DEF Envelope, Execution
    <3>2. ResultMsg(e) \in UpMsg
      BY <3>1 DEF UpMsg
    <3>3. results' = RecordResult(e) /\ up' = Report(ResultMsg(e))
      BY <2>3 DEF ExecutionSucceeds
    <3> HIDE DEF e
    <3>4. results' \in Seq(Envelope) /\ up' \in Seq(UpMsg)
      BY <3>1, <3>2, <3>3, RecordResultKeeps, Reported
    <3>5. discarded' \subseteq Tasks \X (0..MaxAttempts)
      <4>1. Len(results) >= MaxPendingResults => results # <<>>
        BY EmptySeq
      <4>2. results # <<>> => Head(results) \in Envelope
        BY RangeOfTail
      <4>3. Head(results) \in Envelope
              => <<Head(results).task, Head(results).attempt>> \in Tasks \X (0..MaxAttempts)
        BY DEF Envelope
      <4>4. \/ discarded' = discarded
            \/ /\ Head(results) \in Envelope
               /\ discarded' = discarded \cup {<<Head(results).task, Head(results).attempt>>}
        BY <2>3, <4>1, <4>2 DEF ExecutionSucceeds
      <4>5. discarded \subseteq Tasks \X (0..MaxAttempts)
        OBVIOUS
      <4> QED BY ONLY <4>3, <4>4, <4>5
    <3> QED BY <2>1, <2>3, <3>1, <3>4, <3>5 DEF ExecutionSucceeds
  <2>4. CASE ExecutionFails(t)
    <3>1. FailedMsg(t) \in UpMsg
      BY DEF UpMsg
    <3>2. up' \in Seq(UpMsg)
      BY <2>4, <3>1, Reported DEF ExecutionFails
    <3> QED BY <2>1, <2>4, <3>2 DEF ExecutionFails
  <2>5. CASE ExecutionCancelled(t)
    <3>1. CapacityMsg(t) \in UpMsg
      BY DEF UpMsg
    <3>2. up' \in Seq(UpMsg)
      BY <2>5, <3>1, Reported DEF ExecutionCancelled
    <3> QED BY <2>1, <2>5, <3>2 DEF ExecutionCancelled
  <2> QED BY <1>8, <2>3, <2>4, <2>5 DEF Execute
<1>9. CASE Resubmit
  <2>1. PICK e \in Pending : Resend(e)
    BY <1>9 DEF Resubmit
  <2>2. e \in Envelope
    BY ElementOfSeq, LenProperties DEF Pending
  <2>3. ResultMsg(e) \in UpMsg
    BY <2>2 DEF UpMsg
  <2>4. up' \in Seq(UpMsg)
    BY <2>1, <2>3, SentUp DEF Resend
  <2> QED BY <2>1, <2>4 DEF Resend
<1> QED
  BY <1>1, <1>2, <1>3, <1>4, <1>5, <1>6, <1>7, <1>8, <1>9 DEF WorkerReads

\* The semaphore: every step that starts or ends an execution takes or gives one
\* slot.
LEMMA StepKeepsSlots ==
    ASSUME BaseInv, [Next]_vars, TypeOK'
    PROVE  SlotsMatchRunning'
<1> USE DEF BaseInv, TypeOK
<1>1. /\ IsFiniteSet(Running) /\ Cardinality(Running) \in Nat
      /\ slots + Cardinality(Running) = MaxConcurrent
      /\ slots \in Nat /\ MaxConcurrent \in Nat
  BY RunningCounted, SizesAssumption DEF SlotsMatchRunning
<1>2. ASSUME Running' = Running, slots' = slots PROVE SlotsMatchRunning'
  BY <1>1, <1>2 DEF SlotsMatchRunning
<1>3. ASSUME NEW t \in Tasks, Execute(t) PROVE SlotsMatchRunning'
  <2>1. /\ running[t] # Idle /\ slots' = slots + 1
        /\ running' = [running EXCEPT ![t] = Idle]
    BY <1>3 DEF Execute, ExecutionSucceeds, ExecutionFails, ExecutionCancelled, ReleaseSlot
  <2>2. Running' = Running \ {t} /\ t \in Running
    BY <2>1 DEF Running
  <2>3. Cardinality(Running \ {t}) = Cardinality(Running) - 1
    BY <1>1, <2>2, FS_RemoveElement
  <2> QED BY <1>1, <2>1, <2>2, <2>3 DEF SlotsMatchRunning
<1>4. CASE HandleAssignment
  <2> DEFINE t == Head(down).task
  <2>1. t \in Tasks
    BY <1>4, ReadDown DEF HandleAssignment
  <2>2. CASE UNCHANGED <<running, slots>>
    BY <1>2, <2>2 DEF Running
  <2>3. CASE ~UNCHANGED <<running, slots>>
    <3>1. /\ running[t] = Idle /\ slots > 0 /\ slots' = slots - 1
          /\ running' = [running EXCEPT ![t] = [attempt |-> Head(down).attempt,
                                                cancel |-> FALSE]]
      BY <1>4, <2>3 DEF HandleAssignment, AlreadyRunning
    <3>2. [attempt |-> Head(down).attempt, cancel |-> FALSE] # Idle
      BY <1>4, ReadDown DEF HandleAssignment, Idle
    <3>3. Running' = Running \cup {t} /\ t \notin Running
      BY <2>1, <3>1, <3>2 DEF Running
    <3>4. Cardinality(Running \cup {t}) = Cardinality(Running) + 1
      BY <1>1, <3>3, FS_AddElement
    <3> QED BY <1>1, <3>1, <3>3, <3>4 DEF SlotsMatchRunning
  <2> QED BY <2>2, <2>3
<1>5. CASE HandleCancel
  <2> DEFINE t == Head(down).task
  <2>1. t \in Tasks /\ slots' = slots
    BY <1>5, ReadDown DEF HandleCancel
  <2>2. running[t] # Idle => [running[t] EXCEPT !.cancel = TRUE] # Idle
    BY <2>1 DEF Execution, Idle
  <2>3. Running' = Running
    BY <1>5, <2>1, <2>2 DEF HandleCancel, Running
  <2> QED BY <1>2, <2>1, <2>3
<1>6. CASE RestartWorker
  <2>1. Running' = {} /\ slots' = MaxConcurrent
    BY <1>6 DEF RestartWorker, Running
  <2> QED BY <1>1, <2>1, FS_EmptySet DEF SlotsMatchRunning
<1>7. CASE UNCHANGED <<running, slots>>
  BY <1>2, <1>7 DEF Running
<1> QED
  BY <1>3, <1>4, <1>5, <1>6, <1>7
  DEF Next, vars, Environment, Reclaim, OtherClaims, OtherCompletes, ForwardCancel,
      BeginDrain, OpenSession, RecoverLeases, SessionEnds, ReadLoop, HandleTaskAck,
      HandleTaskStarted, HandleCapacity, HandleTaskFailed, HandleTaskResult,
      AssignmentLoop, StartPass, ClaimNothing, Claim, Deliver, DeliverFails, Connect,
      WorkerLosesSocket, WorkerReads, Attach, HandleResultAck, Resubmit, Resend, workerVars

\* Every step keeps the base.
LEMMA StepBase == BaseInv /\ [Next]_vars => BaseInv'
<1> SUFFICES ASSUME BaseInv, [Next]_vars PROVE BaseInv'
  OBVIOUS
<1>1. TypeOK' /\ AttemptsLeft' /\ EpochsOrdered'
  <2>1. CASE UNCHANGED vars
    BY <2>1 DEF vars, BaseInv, TypeOK, AttemptsLeft, EpochsOrdered, Live, dbVars,
        coordVars, sessionVars, wireVars, workerVars, histVars
  <2> QED
    BY <2>1, EnvironmentTyped, SessionTyped, PassTyped, ReadLoopTyped, WorkerTyped
    DEF Next
<1>2. SlotsMatchRunning'
  BY <1>1, StepKeepsSlots
<1> QED
  BY <1>1, <1>2 DEF BaseInv

-----------------------------------------------------------------------------
(***************************************************************************)
(* What may become of a row, and the refinement of TaskLifecycle.          *)
(***************************************************************************)

\* What one row may do in a step, field by field.
KeepRow(t) == row'[t] = row[t]

RowReclaimed(t) ==
    /\ Live(t) /\ row'[t].status \in {"QUEUED", "FAILED"} /\ row'[t].owner = "none"
    /\ row'[t].attempt = row[t].attempt + 1

RowClaimed(t) ==
    /\ row[t].status = "QUEUED" /\ row'[t].status = "ASSIGNED"
    /\ row'[t].owner \in {"me", "other"} /\ row'[t].attempt = row[t].attempt

RowReported(t) ==
    /\ Live(t) /\ row'[t].status \in {"RUNNING", "FAILED"}
    /\ row'[t].owner = row[t].owner /\ row'[t].attempt = row[t].attempt

RowCompleted(t) ==
    /\ Live(t) /\ row'[t].status = "COMPLETED"
    /\ row'[t].owner = row[t].owner /\ row'[t].attempt = row[t].attempt
    /\ \/ row[t].owner = "other"
       \/ /\ Receives("task_result")
          /\ Head(up).envelope.task = t /\ Head(up).envelope.attempt = row[t].attempt

RowMove(t) ==
    KeepRow(t) \/ RowReclaimed(t) \/ RowClaimed(t) \/ RowReported(t) \/ RowCompleted(t)

\* Every step moves every row in one of these ways.
LEMMA StepIsRowMove ==
    ASSUME BaseInv, [Next]_vars, NEW t \in Tasks
    PROVE  RowMove(t)
<1> USE DEF BaseInv, TypeOK
<1>0. row[t] \in Row /\ \A u \in Tasks : row[u] \in Row
  OBVIOUS
<1>1. ASSUME NEW u \in Tasks, Reclaim(u) PROVE RowMove(t)
  <2>1. CASE u = t
    BY <1>0, <1>1, <2>1 DEF Reclaim, RowMove, RowReclaimed
  <2>2. CASE u # t
    BY <1>1, <2>2 DEF Reclaim, RowMove, KeepRow
  <2> QED BY <2>1, <2>2
<1>2. ASSUME NEW u \in Tasks, OtherClaims(u) PROVE RowMove(t)
  <2>1. CASE u = t
    BY <1>0, <1>2, <2>1 DEF OtherClaims, RowMove, RowClaimed, Row
  <2>2. CASE u # t
    BY <1>2, <2>2 DEF OtherClaims, RowMove, KeepRow
  <2> QED BY <2>1, <2>2
<1>3. ASSUME NEW u \in Tasks, OtherCompletes(u) PROVE RowMove(t)
  <2>1. CASE u = t
    BY <1>0, <1>3, <2>1 DEF OtherCompletes, RowMove, RowCompleted, Row
  <2>2. CASE u # t
    BY <1>3, <2>2 DEF OtherCompletes, RowMove, KeepRow
  <2> QED BY <2>1, <2>2
<1>4. CASE ReadLoop
  <2>1. \/ row'[t] = row[t]
        \/ /\ row[t].owner = "me"
           /\ \/ row[t].status = "ASSIGNED" /\ row'[t] = [row[t] EXCEPT !.status = "RUNNING"]
              \/ Live(t) /\ row'[t] = [row[t] EXCEPT !.status = "FAILED"]
              \/ /\ Live(t) /\ row'[t] = [row[t] EXCEPT !.status = "COMPLETED"]
                 /\ Receives("task_result")
                 /\ Head(up).envelope.task = t
                 /\ Head(up).envelope.attempt = row[t].attempt
    BY <1>4, ReadLoopRows
  <2>2. ASSUME NEW s \in Statuses, row'[t] = [row[t] EXCEPT !.status = s]
        PROVE  /\ row'[t].owner = row[t].owner /\ row'[t].attempt = row[t].attempt
               /\ row'[t].status = s
    BY <1>0, <2>2 DEF Row
  <2>3. CASE row'[t] = row[t]
    BY <2>3 DEF RowMove, KeepRow
  <2>4. CASE row[t].status = "ASSIGNED" /\ row'[t] = [row[t] EXCEPT !.status = "RUNNING"]
    BY <2>2, <2>4 DEF Statuses, RowMove, RowReported, Live
  <2>5. CASE Live(t) /\ row'[t] = [row[t] EXCEPT !.status = "FAILED"]
    BY <2>2, <2>5 DEF Statuses, RowMove, RowReported
  <2>6. CASE /\ Live(t) /\ row'[t] = [row[t] EXCEPT !.status = "COMPLETED"]
             /\ Receives("task_result")
             /\ Head(up).envelope.task = t
             /\ Head(up).envelope.attempt = row[t].attempt
    BY <2>2, <2>6 DEF Statuses, RowMove, RowCompleted
  <2> QED BY <2>1, <2>3, <2>4, <2>5, <2>6
<1>5. ASSUME NEW S \in SUBSET Tasks, Claim(S) PROVE RowMove(t)
  <2>1. CASE t \in S
    BY <1>0, <1>5, <2>1 DEF Claim, RowMove, RowClaimed, Row
  <2>2. CASE t \notin S
    BY <1>5, <2>2 DEF Claim, RowMove, KeepRow
  <2> QED BY <2>1, <2>2
<1>6. CASE UNCHANGED row
  BY <1>6 DEF RowMove, KeepRow
<1> QED
  BY <1>1, <1>2, <1>3, <1>4, <1>5, <1>6
  DEF Next, vars, Environment, ForwardCancel, BeginDrain, OpenSession, RecoverLeases,
      SessionEnds, AssignmentLoop, StartPass, ClaimNothing, Deliver, DeliverFails, Connect,
      WorkerLosesSocket, RestartWorker, WorkerReads, Attach, HandleAssignment, HandleCancel,
      HandleResultAck, Execute, ExecutionSucceeds, ExecutionFails, ExecutionCancelled,
      Resubmit, Resend, dbVars

\* Seen through AbstractTask, each of these is a step of TaskLifecycle, or nothing.
LEMMA RowMoveIsStep ==
    ASSUME BaseInv, BaseInv', NEW t \in Tasks, RowMove(t)
    PROVE  \/ Lifecycle!Step(AbstractTask[t], AbstractTask'[t])
           \/ AbstractTask'[t] = AbstractTask[t]
<1> DEFINE Phase(s) == CASE s = "QUEUED" -> "waiting" [] s = "COMPLETED" -> "won"
                         [] s = "FAILED" -> "lost" [] OTHER -> "held"
           Abs(r) == [phase  |-> Phase(r.status),
                      holder |-> IF r.status = "FAILED" THEN "none" ELSE r.owner,
                      number |-> r.attempt]
           old == AbstractTask[t]
           new == AbstractTask'[t]
<1> SUFFICES Lifecycle!Step(old, new) \/ new = old
  OBVIOUS
<1>0. row[t] \in Row /\ row'[t] \in Row
  BY DEF BaseInv, TypeOK
<1>1. old = Abs(row[t]) /\ new = Abs(row'[t])
  BY DEF AbstractTask
<1>2. /\ old.phase = Phase(row[t].status) /\ new.phase = Phase(row'[t].status)
      /\ old.holder = IF row[t].status = "FAILED" THEN "none" ELSE row[t].owner
      /\ new.holder = IF row'[t].status = "FAILED" THEN "none" ELSE row'[t].owner
      /\ old.number = row[t].attempt /\ new.number = row'[t].attempt
      /\ old = [phase |-> old.phase, holder |-> old.holder, number |-> old.number]
      /\ new = [phase |-> new.phase, holder |-> new.holder, number |-> new.number]
  BY <1>1
<1> HIDE DEF old, new
<1>3. CASE KeepRow(t)
  BY <1>1, <1>3 DEF KeepRow
<1>4. CASE RowReclaimed(t)
  <2>1. /\ old.phase = "held" /\ new.phase \in {"waiting", "lost"} /\ new.holder = "none"
        /\ new.number = old.number + 1
    BY <1>2, <1>4 DEF RowReclaimed, Live
  <2> QED BY <1>2, <2>1 DEF Lifecycle!Step, Lifecycle!Expire
<1>5. CASE RowClaimed(t)
  <2>1. /\ old.phase = "waiting" /\ new.phase = "held" /\ new.holder \in {"me", "other"}
        /\ new.number = old.number
    BY <1>2, <1>5 DEF RowClaimed
  <2> QED BY <1>2, <2>1 DEF Lifecycle!Step, Lifecycle!Take
<1>6. CASE RowReported(t)
  <2>1. CASE row'[t].status = "RUNNING"
    <3>1. new.phase = old.phase /\ new.holder = old.holder /\ new.number = old.number
      BY <1>2, <1>6, <2>1 DEF RowReported, Live
    <3> QED BY <1>2, <3>1 DEF old, new
  <2>2. CASE row'[t].status = "FAILED"
    <3>1. old.phase = "held" /\ new.phase = "lost" /\ new.holder = "none" /\ new.number = old.number
      BY <1>2, <1>6, <2>2 DEF RowReported, Live
    <3> QED BY <1>2, <3>1 DEF Lifecycle!Step, Lifecycle!GiveUp
  <2> QED BY <1>6, <2>1, <2>2 DEF RowReported
<1>7. CASE RowCompleted(t)
  <2>1. /\ old.phase = "held" /\ new.phase = "won" /\ new.holder = old.holder
        /\ new.number = old.number
    BY <1>2, <1>7 DEF RowCompleted, Live
  <2>2. new = [old EXCEPT !.phase = "won"]
    BY <1>2, <2>1
  <2> QED BY <2>1, <2>2 DEF Lifecycle!Step, Lifecycle!Win
<1> QED
  BY <1>3, <1>4, <1>5, <1>6, <1>7 DEF RowMove, old, new

\* The base holds in every reachable state.
LEMMA BaseInvariance == Spec => []BaseInv
<1> QED
  BY InitBase, StepBase, PTL DEF Spec

\* The handlers, the assignment pass and the reclaimer move a task only as
\* TaskLifecycle allows, for any number of tasks, attempts and sessions.
THEOREM MovesAsLifecycleHolds == Spec => MovesAsLifecycle
<1>1. BaseInv /\ BaseInv' /\ [Next]_vars => [Lifecycle!Next]_AbstractTask
  <2> SUFFICES ASSUME BaseInv, BaseInv', [Next]_vars
               PROVE  Lifecycle!Next
    OBVIOUS
  <2>1. AbstractTask' \in [Tasks -> Lifecycle!State]
    <3>1. \A t \in Tasks : row'[t] \in Row
      BY DEF BaseInv, TypeOK
    <3> QED
      BY <3>1, SizesAssumption DEF AbstractTask, Row, Lifecycle!State
  <2>2. ASSUME NEW t \in Tasks
        PROVE  Lifecycle!Step(AbstractTask[t], AbstractTask'[t])
                  \/ AbstractTask'[t] = AbstractTask[t]
    BY StepIsRowMove, RowMoveIsStep
  <2> QED
    BY <2>1, <2>2 DEF Lifecycle!Next
<1> QED
  BY <1>1, BaseInvariance, PTL DEF Spec, MovesAsLifecycle

-----------------------------------------------------------------------------
(***************************************************************************)
(* Results.                                                                *)
(***************************************************************************)

\* Results are kept and sent only for executions that succeeded.
LEMMA StepKeepsResults ==
    ASSUME BaseInv, ResultsWereExecuted, [Next]_vars
    PROVE  ResultsWereExecuted' /\ executed \subseteq executed'
<1> USE DEF BaseInv, TypeOK, dbVars, coordVars, sessionVars, wireVars, workerVars, histVars
<1>1. ASSUME executed \subseteq executed', Range(results') \subseteq Range(results),
             \A m \in Range(up') : m \in Range(up) \/ m.type # "task_result"
      PROVE  ResultsWereExecuted' /\ executed \subseteq executed'
  BY <1>1 DEF ResultsWereExecuted
<1>2. ASSUME up' = <<>> PROVE Range(up') = {}
  BY <1>2 DEF Range
<1>3. ASSUME results' = <<>> PROVE Range(results') = {}
  BY <1>3 DEF Range
<1>4. CASE UNCHANGED <<up, results, executed>>
  BY <1>1, <1>4
<1>5. CASE OpenSession \/ SessionEnds
  BY <1>1, <1>2, <1>5 DEF OpenSession, SessionEnds
<1>6. CASE RestartWorker
  BY <1>1, <1>3, <1>6 DEF RestartWorker
<1>7. CASE ReadLoop
  <2>1. Range(up') \subseteq Range(up)
    BY <1>7, ReadUp DEF ReadLoop, HandleTaskAck, HandleTaskStarted, HandleCapacity,
       HandleTaskFailed, HandleTaskResult
  <2>2. UNCHANGED <<results, executed>>
    BY <1>7 DEF ReadLoop, HandleTaskAck, HandleTaskStarted, HandleCapacity,
       HandleTaskFailed, HandleTaskResult
  <2> QED BY <1>1, <2>1, <2>2
<1>8. CASE HandleAssignment
  <2> DEFINE t == Head(down).task
  <2>1. t \in Tasks
    BY <1>8, ReadDown DEF HandleAssignment
  <2>2. /\ StartedMsg(t) \in UpMsg /\ StartedMsg(t).type # "task_result"
        /\ \A r \in Replies : AckMsg(t, r) \in UpMsg /\ AckMsg(t, r).type # "task_result"
    BY <2>1 DEF UpMsg, AckMsg, StartedMsg
  <2>3. \/ \E r \in Replies : up' = ToCoordinator(<<AckMsg(t, r)>>)
        \/ up' = ToCoordinator(<<AckMsg(t, "accepted"), StartedMsg(t)>>)
    BY <1>8 DEF HandleAssignment, Replies
  <2>4. "accepted" \in Replies
    BY DEF Replies
  <2> HIDE DEF t
  <2>5. \A m \in Range(up') : m \in Range(up) \/ m.type # "task_result"
    <3>1. ASSUME NEW r \in Replies, up' = ToCoordinator(<<AckMsg(t, r)>>)
          PROVE  Range(up') \subseteq Range(up) \cup {AckMsg(t, r)}
      BY <2>2, <3>1, SentUp
    <3>2. ASSUME up' = ToCoordinator(<<AckMsg(t, "accepted"), StartedMsg(t)>>)
          PROVE  Range(up') \subseteq Range(up) \cup {AckMsg(t, "accepted"), StartedMsg(t)}
      BY <2>2, <2>4, <3>2, BothSentUp
    <3> QED BY <2>2, <2>3, <2>4, <3>1, <3>2
  <2>6. UNCHANGED <<results, executed>>
    BY <1>8 DEF HandleAssignment
  <2> QED BY <1>1, <2>5, <2>6
<1>9. CASE HandleResultAck
  <2>1. Range(results') \subseteq Range(results)
    <3>1. \/ UNCHANGED results
          \/ \E i \in DOMAIN results :
                results' = SubSeq(results, 1, i - 1) \o SubSeq(results, i + 1, Len(results))
      BY <1>9 DEF HandleResultAck
    <3>2. ASSUME NEW i \in DOMAIN results
          PROVE  Range(SubSeq(results, 1, i - 1) \o SubSeq(results, i + 1, Len(results)))
                    \subseteq Range(results)
      BY RangeOfRemoval
    <3> QED BY <3>1, <3>2
  <2>2. UNCHANGED <<up, executed>>
    BY <1>9 DEF HandleResultAck
  <2> QED BY <1>1, <2>1, <2>2
<1>10. ASSUME NEW t \in Tasks, Execute(t)
       PROVE  ResultsWereExecuted' /\ executed \subseteq executed'
  <2>1. ASSUME NEW valid \in BOOLEAN, ExecutionSucceeds(t, valid)
        PROVE  ResultsWereExecuted' /\ executed \subseteq executed'
    <3> DEFINE e == [task |-> t, attempt |-> running[t].attempt, valid |-> valid]
    <3>1. running[t] \in Execution
      BY <2>1 DEF ExecutionSucceeds, ReleaseSlot
    <3>2. e \in Envelope /\ e.task = t /\ e.attempt = running[t].attempt
      BY <3>1 DEF Envelope, Execution
    <3>3. /\ ResultMsg(e) \in UpMsg /\ ResultMsg(e).envelope = e
          /\ <<e.task, e.attempt>> \in executed' /\ executed \subseteq executed'
      BY <2>1, <3>2 DEF UpMsg, ResultMsg, ExecutionSucceeds
    <3>4. results' = RecordResult(e) /\ up' = Report(ResultMsg(e))
      BY <2>1 DEF ExecutionSucceeds
    <3> HIDE DEF e
    <3>5. /\ Range(results') \subseteq Range(results) \cup {e}
          /\ Range(up') \subseteq Range(up) \cup {ResultMsg(e)}
      BY <3>2, <3>3, <3>4, RecordResultKeeps, Reported
    <3> QED BY <3>3, <3>5 DEF ResultsWereExecuted
  <2>2. ASSUME ExecutionFails(t) \/ ExecutionCancelled(t)
        PROVE  ResultsWereExecuted' /\ executed \subseteq executed'
    <3>1. /\ FailedMsg(t) \in UpMsg /\ FailedMsg(t).type # "task_result"
          /\ CapacityMsg(t) \in UpMsg /\ CapacityMsg(t).type # "task_result"
      BY DEF UpMsg, FailedMsg, CapacityMsg
    <3>2. up' = Report(FailedMsg(t)) \/ up' = Report(CapacityMsg(t))
      BY <2>2 DEF ExecutionFails, ExecutionCancelled
    <3>3. Range(up') \subseteq Range(up) \cup {FailedMsg(t), CapacityMsg(t)}
      BY <3>1, <3>2, Reported
    <3>4. UNCHANGED <<results, executed>>
      BY <2>2 DEF ExecutionFails, ExecutionCancelled
    <3> QED BY <1>1, <3>1, <3>3, <3>4
  <2> QED BY <1>10, <2>1, <2>2 DEF Execute
<1>11. CASE Resubmit
  <2>1. PICK e \in Pending : Resend(e)
    BY <1>11 DEF Resubmit
  <2>2. e \in Envelope /\ e \in Range(results)
    BY ElementOfSeq, LenProperties DEF Pending, Range
  <2>3. ResultMsg(e) \in UpMsg /\ ResultMsg(e).envelope = e
    BY <2>2 DEF UpMsg, ResultMsg
  <2>4. Range(up') \subseteq Range(up) \cup {ResultMsg(e)}
    BY <2>1, <2>3, SentUp DEF Resend
  <2>5. UNCHANGED <<results, executed>>
    BY <2>1 DEF Resend
  <2> QED BY <2>2, <2>3, <2>4, <2>5 DEF ResultsWereExecuted
<1> QED
  BY <1>4, <1>5, <1>6, <1>7, <1>8, <1>9, <1>10, <1>11
  DEF Next, vars, Environment, Reclaim, OtherClaims, OtherCompletes, ForwardCancel,
      BeginDrain, RecoverLeases, AssignmentLoop, StartPass, ClaimNothing, Claim, Deliver,
      DeliverFails, Connect, WorkerLosesSocket, WorkerReads, Attach, HandleCancel

\* A row is completed for this worker only by a result of the attempt it is at, and
\* a completed row never changes.
LEMMA StepKeepsCompletion ==
    ASSUME BaseInv, ResultsWereExecuted, CompletionWasExecuted, [Next]_vars,
           executed \subseteq executed'
    PROVE  CompletionWasExecuted'
<1> SUFFICES ASSUME NEW t \in Tasks, row'[t].status = "COMPLETED", row'[t].owner = "me"
             PROVE  <<t, row'[t].attempt>> \in executed
  BY DEF CompletionWasExecuted
<1>1. CASE KeepRow(t)
  BY <1>1 DEF KeepRow, CompletionWasExecuted
<1>2. CASE RowCompleted(t)
  <2>1. /\ Receives("task_result") /\ row'[t].attempt = row[t].attempt
        /\ Head(up).envelope.task = t /\ Head(up).envelope.attempt = row[t].attempt
    BY <1>2 DEF RowCompleted
  <2>2. Head(up) \in Range(up) /\ Head(up).type = "task_result"
    BY <2>1, ReadUp DEF BaseInv, TypeOK
  <2> QED BY <2>1, <2>2 DEF ResultsWereExecuted
<1> QED
  BY <1>1, <1>2, StepIsRowMove
  DEF RowMove, RowReclaimed, RowClaimed, RowReported


-----------------------------------------------------------------------------
(***************************************************************************)
(* Credits.                                                                *)
(***************************************************************************)

\* The claims of the pass under way that will take a credit of this session.
Outstanding == IF PassIsCurrent THEN {d \in pass.batch : d.task \notin credited} ELSE {}

\* What CreditsWithinLimit adds up.
Committed == residual + Cardinality(credited) + Cardinality(Outstanding)

\* CreditsWithinLimit in these terms.
LEMMA CreditsCommitted == CreditsWithinLimit <=> Committed <= MaxConcurrent
<1> QED
  BY FS_EmptySet DEF CreditsWithinLimit, Committed, Outstanding

\* The sets that are counted are finite.
LEMMA CreditSets ==
    ASSUME TypeOK, BatchIsKeyed
    PROVE  /\ IsFiniteSet(pass.batch) /\ IsFiniteSet(Outstanding)
           /\ Cardinality(Outstanding) \in Nat
           /\ IsFiniteSet(credited) /\ Cardinality(credited) \in Nat
<1> DEFINE f == [d \in pass.batch |-> d.task]
<1>1. f \in Injection(pass.batch, Tasks)
  BY DEF TypeOK, Pass, Claimed, BatchIsKeyed, Injection, IsInjective
<1>2. IsFiniteSet(pass.batch)
  BY <1>1, TasksAssumption, FS_Injection
<1>3. Outstanding \subseteq pass.batch /\ credited \subseteq Tasks
  BY DEF Outstanding, TypeOK
<1>4. IsFiniteSet(Outstanding) /\ IsFiniteSet(credited)
  BY <1>2, <1>3, TasksAssumption, FS_Subset
<1> QED
  BY <1>2, <1>4, FS_CardinalityType

\* A step that takes one element at most out of one of the two sets and puts one at
\* most into the other, the residue not growing.
LEMMA Exchange ==
    ASSUME NEW A, IsFiniteSet(A), NEW B, IsFiniteSet(B), NEW a \in A, NEW b,
           NEW C \in SUBSET (B \cup {b})
    PROVE  Cardinality(A \ {a}) + Cardinality(C) <= Cardinality(A) + Cardinality(B)
<1>1. Cardinality(A) \in Nat /\ Cardinality(B) \in Nat
  BY FS_CardinalityType
<1>2. Cardinality(A \ {a}) = Cardinality(A) - 1
  BY FS_RemoveElement
<1>3. IsFiniteSet(B \cup {b}) /\ Cardinality(B \cup {b}) <= Cardinality(B) + 1
  <2>1. CASE b \in B
    <3>1. B \cup {b} = B
      BY <2>1
    <3> QED BY <1>1, <3>1
  <2>2. CASE b \notin B
    <3>1. IsFiniteSet(B \cup {b}) /\ Cardinality(B \cup {b}) = Cardinality(B) + 1
      BY <2>2, FS_AddElement
    <3> QED BY <1>1, <3>1
  <2> QED BY <2>1, <2>2
<1>4. IsFiniteSet(C) /\ Cardinality(C) <= Cardinality(B \cup {b})
  BY <1>3, FS_Subset
<1>5. Cardinality(C) \in Nat /\ Cardinality(B \cup {b}) \in Nat
  BY <1>3, <1>4, FS_CardinalityType
<1> QED
  BY <1>1, <1>2, <1>3, <1>4, <1>5

\* _release_credit never commits the session further.
LEMMA ReleaseKeepsCredits ==
    ASSUME BaseInv, CreditInv, NEW t \in Tasks, ReleaseCredit(t), UNCHANGED <<phase, epoch, pass>>
    PROVE  Committed' \in Int /\ Committed' <= Committed
<1> USE DEF BaseInv, CreditInv
<1>1. /\ IsFiniteSet(Outstanding) /\ Cardinality(Outstanding) \in Nat
      /\ IsFiniteSet(credited) /\ Cardinality(credited) \in Nat /\ residual \in Nat
  BY CreditSets, SizesAssumption DEF TypeOK
<1>2. CASE t \in credited
  <2>1. credited' = credited \ {t} /\ residual' = residual
    BY <1>2 DEF ReleaseCredit
  <2>2. PICK b : Outstanding' \subseteq Outstanding \cup {b}
    BY <2>1 DEF Outstanding, PassIsCurrent, BatchIsKeyed
  <2>3. Cardinality(credited \ {t}) + Cardinality(Outstanding')
           <= Cardinality(credited) + Cardinality(Outstanding)
    BY <1>1, <1>2, <2>2, Exchange
  <2>4. /\ IsFiniteSet(Outstanding') /\ Cardinality(Outstanding') \in Nat
        /\ IsFiniteSet(credited') /\ Cardinality(credited') \in Nat
    <3>1. IsFiniteSet(Outstanding \cup {b})
      BY <1>1, FS_AddElement
    <3>2. IsFiniteSet(Outstanding') /\ IsFiniteSet(credited')
      BY <1>1, <2>1, <2>2, <3>1, FS_Subset
    <3> QED BY <3>2, FS_CardinalityType
  <2> QED BY <1>1, <2>1, <2>3, <2>4 DEF Committed
<1>3. CASE t \notin credited
  <2>1. credited' = credited /\ residual' \in Nat /\ residual' <= residual
    BY <1>1, <1>3 DEF ReleaseCredit
  <2>2. Outstanding' = Outstanding
    BY <2>1 DEF Outstanding, PassIsCurrent
  <2> QED BY <1>1, <2>1, <2>2 DEF Committed
<1> QED
  BY <1>2, <1>3

\* A pass claims no more than the credits free when its turn comes.
LEMMA ClaimKeepsCredits ==
    ASSUME BaseInv, CreditInv, NEW S \in SUBSET Tasks, Claim(S)
    PROVE  BatchIsKeyed' /\ Committed' <= MaxConcurrent
<1> USE DEF BaseInv, CreditInv
<1> DEFINE claim == [t \in S |-> [task |-> t, attempt |-> row[t].attempt]]
           batch == {[task |-> t, attempt |-> row[t].attempt] : t \in S}
<1>1. /\ IsFiniteSet(credited) /\ Cardinality(credited) \in Nat /\ residual \in Nat
      /\ MaxConcurrent \in Nat /\ Committed <= MaxConcurrent
      /\ Cardinality(Outstanding) \in Nat
  BY CreditSets, CreditsCommitted, SizesAssumption DEF TypeOK
<1>2. pass'.batch = batch /\ pass'.epoch = pass.epoch
  BY <1>1 DEF Claim, TypeOK, Pass
<1>3. BatchIsKeyed'
  BY <1>2 DEF BatchIsKeyed
<1>4. IsFiniteSet(S) /\ Cardinality(S) \in Nat
  BY TasksAssumption, FS_Subset, FS_CardinalityType
<1>5. IsFiniteSet(batch) /\ Cardinality(batch) <= Cardinality(S)
  <2>1. claim \in Surjection(S, batch)
    BY DEF Surjection
  <2> HIDE DEF claim, batch
  <2> QED BY <1>4, <2>1, FS_Surjection
<1>6. UNCHANGED <<phase, epoch, residual, credited>>
  BY DEF Claim, sessionVars
<1>7. CASE PassIsCurrent
  <2>1. Cardinality(S) <= free_credits /\ S # {}
    BY <1>7 DEF Claim, ClaimLimit
  <2>2. Cardinality(S) # 0
    BY <1>4, <2>1, FS_EmptySet
  <2>3. residual + Cardinality(credited) + Cardinality(S) <= MaxConcurrent
    BY <1>1, <1>4, <2>1, <2>2 DEF free_credits, in_flight
  <2>4. Outstanding' \subseteq batch
    BY <1>2 DEF Outstanding
  <2> HIDE DEF batch
  <2>5. IsFiniteSet(Outstanding') /\ Cardinality(Outstanding') <= Cardinality(batch)
    BY <1>5, <2>4, FS_Subset
  <2>6. Cardinality(Outstanding') \in Nat /\ Cardinality(batch) \in Nat
    BY <1>5, <2>5, FS_CardinalityType
  <2>7. Committed' = residual + Cardinality(credited) + Cardinality(Outstanding')
    BY <1>6 DEF Committed
  <2>8. Committed' <= MaxConcurrent
    BY <1>1, <1>4, <1>5, <2>3, <2>5, <2>6, <2>7
  <2> QED BY <1>3, <2>8
<1>8. CASE ~PassIsCurrent
  <2>1. Outstanding' = {}
    BY <1>2, <1>6, <1>8 DEF Outstanding, PassIsCurrent
  <2>2. Cardinality(Outstanding') = 0
    BY <2>1, FS_EmptySet
  <2> QED BY <1>1, <1>3, <1>6, <2>2 DEF Committed
<1> QED
  BY <1>3, <1>7, <1>8


\* Delivering a claim moves it from the pass to the session; giving it up drops it.
LEMMA DeliveryKeepsCredits ==
    ASSUME BaseInv, CreditInv, NEW d \in pass.batch, Deliver(d) \/ DeliverFails(d)
    PROVE  BatchIsKeyed' /\ Committed' \in Int /\ Committed' <= Committed
<1> USE DEF BaseInv, CreditInv
<1>1. /\ IsFiniteSet(Outstanding) /\ Cardinality(Outstanding) \in Nat
      /\ IsFiniteSet(credited) /\ Cardinality(credited) \in Nat /\ residual \in Nat
  BY CreditSets, SizesAssumption DEF TypeOK
<1>2. /\ pass'.batch = pass.batch \ {d}
      /\ pass'.epoch = pass.epoch \/ pass'.batch = {}
      /\ residual' = residual /\ epoch' = epoch /\ phase' = phase
  BY DEF Deliver, DeliverFails, PassWithout, NoPass, TypeOK, Pass, sessionVars
<1>3. BatchIsKeyed'
  BY <1>2 DEF BatchIsKeyed
<1>4. CASE credited' = credited
  <2>1. Outstanding' \subseteq Outstanding
    BY <1>2, <1>4 DEF Outstanding, PassIsCurrent
  <2>2. IsFiniteSet(Outstanding') /\ Cardinality(Outstanding') <= Cardinality(Outstanding)
    BY <1>1, <2>1, FS_Subset
  <2>3. Cardinality(Outstanding') \in Nat
    BY <2>2, FS_CardinalityType
  <2>4. Committed' = residual + Cardinality(credited) + Cardinality(Outstanding')
    BY <1>2, <1>4 DEF Committed
  <2>5. Committed' \in Int /\ Committed' <= Committed
    BY <1>1, <2>2, <2>3, <2>4 DEF Committed
  <2> QED BY <1>3, <2>5
<1>5. CASE credited' # credited
  <2>1. /\ credited' = credited \cup {d.task} /\ d.task \notin credited /\ PassIsCurrent
    BY <1>5 DEF Deliver, DeliverFails, sessionVars
  <2>2. d \in Outstanding /\ Outstanding' \subseteq Outstanding \ {d}
    BY <1>2, <2>1 DEF Outstanding, PassIsCurrent
  <2>3. Cardinality(Outstanding \ {d}) + Cardinality(credited')
           <= Cardinality(Outstanding) + Cardinality(credited)
    <3>1. credited' \in SUBSET (credited \cup {d.task})
      BY <2>1
    <3> QED BY <1>1, <2>2, <3>1, Exchange
  <2>4. IsFiniteSet(Outstanding \ {d}) /\ IsFiniteSet(credited')
    BY <1>1, <2>1, FS_AddElement, FS_RemoveElement
  <2>5. IsFiniteSet(Outstanding') /\ Cardinality(Outstanding') <= Cardinality(Outstanding \ {d})
    BY <2>2, <2>4, FS_Subset
  <2>6. /\ Cardinality(Outstanding') \in Nat /\ Cardinality(Outstanding \ {d}) \in Nat
        /\ Cardinality(credited') \in Nat
    BY <2>4, <2>5, FS_CardinalityType
  <2>7. Committed' = residual + Cardinality(credited') + Cardinality(Outstanding')
    BY <1>2 DEF Committed
  <2>8. Committed' \in Int /\ Committed' <= Committed
    BY <1>1, <2>3, <2>5, <2>6, <2>7 DEF Committed
  <2> QED BY <1>3, <2>8
<1> QED
  BY <1>4, <1>5

\* Every step keeps the worker within the concurrency it declared.
LEMMA StepKeepsCredits ==
    ASSUME BaseInv, CreditInv, [Next]_vars
    PROVE  CreditInv'
<1> USE DEF BaseInv, CreditInv
<1>1. /\ Committed \in Nat /\ MaxConcurrent \in Nat /\ Committed <= MaxConcurrent
  <2>1. residual \in 0..MaxConcurrent /\ MaxConcurrent \in Nat
    BY SizesAssumption DEF TypeOK
  <2>2. Cardinality(credited) \in Nat /\ Cardinality(Outstanding) \in Nat
    BY CreditSets
  <2>3. Committed <= MaxConcurrent
    BY CreditsCommitted
  <2> QED BY ONLY <2>1, <2>2, <2>3 DEF Committed
<1>2. ASSUME BatchIsKeyed', Committed' <= MaxConcurrent PROVE CreditInv'
  <2>1. CreditsWithinLimit' <=> Committed' <= MaxConcurrent
    BY CreditsCommitted, FS_EmptySet DEF CreditsWithinLimit, Committed, Outstanding
  <2> QED BY <1>2, <2>1
<1>3. ASSUME UNCHANGED <<phase, epoch, pass, credited, residual>> PROVE CreditInv'
  <2>1. Committed' = Committed /\ BatchIsKeyed'
    BY <1>3 DEF Committed, Outstanding, PassIsCurrent, BatchIsKeyed
  <2> QED BY <1>1, <1>2, <2>1
<1>4. CASE OpenSession
  <2>1. residual' \in 0..MaxConcurrent /\ credited' = {} /\ pass' = pass /\ epoch' = epoch + 1
    BY <1>4 DEF OpenSession, TypeOK, NoHello
  <2>2. Outstanding' = {} /\ BatchIsKeyed'
    BY <2>1 DEF Outstanding, PassIsCurrent, EpochsOrdered, TypeOK, Pass, BatchIsKeyed
  <2>3. Committed' <= MaxConcurrent
    BY <1>1, <2>1, <2>2, FS_EmptySet DEF Committed
  <2> QED BY <1>2, <2>2, <2>3
<1>5. CASE SessionEnds
  <2>1. residual' = 0 /\ credited' = {} /\ pass' = pass /\ phase' = "none"
    BY <1>5 DEF SessionEnds
  <2>2. Outstanding' = {} /\ BatchIsKeyed'
    BY <2>1 DEF Outstanding, PassIsCurrent, BatchIsKeyed
  <2>3. Committed' <= MaxConcurrent
    BY <1>1, <2>1, <2>2, FS_EmptySet DEF Committed
  <2> QED BY <1>2, <2>2, <2>3
<1>6. CASE RecoverLeases
  <2>1. /\ credited' = credited /\ residual' = residual /\ pass' = pass /\ epoch' = epoch
        /\ phase # "none" /\ phase' # "none"
    BY <1>6 DEF RecoverLeases
  <2>2. Committed' = Committed /\ BatchIsKeyed'
    BY <2>1 DEF Committed, Outstanding, PassIsCurrent, BatchIsKeyed
  <2> QED BY <1>1, <1>2, <2>2
<1>7. CASE ReadLoop
  <2>1. /\ UNCHANGED <<phase, epoch, pass>>
        /\ \/ UNCHANGED <<credited, residual>>
           \/ ReleaseCredit(Head(up).task)
           \/ Receives("task_result") /\ ReleaseCredit(Head(up).envelope.task)
    BY <1>7 DEF ReadLoop, HandleTaskAck, HandleTaskStarted, HandleCapacity,
       HandleTaskFailed, HandleTaskResult, coordVars, sessionVars
  <2>2. Head(up).task \in Tasks
    BY <1>7, ReadUp DEF TypeOK, ReadLoop, HandleTaskAck, HandleTaskStarted, HandleCapacity,
       HandleTaskFailed, HandleTaskResult
  <2>3. CASE UNCHANGED <<credited, residual>>
    BY <1>3, <2>1, <2>3
  <2>4. ASSUME NEW t \in Tasks, ReleaseCredit(t) PROVE CreditInv'
    <3>1. Committed' \in Int /\ Committed' <= Committed
      BY <2>1, <2>4, ReleaseKeepsCredits
    <3>2. Committed' <= MaxConcurrent
      BY <1>1, <3>1
    <3>3. BatchIsKeyed'
      BY <2>1 DEF BatchIsKeyed
    <3> QED BY <1>2, <3>2, <3>3
  <2>5. Receives("task_result") => Head(up).envelope.task \in Tasks
    BY ReadUp DEF TypeOK
  <2> QED BY <2>1, <2>2, <2>3, <2>4, <2>5
<1>8. CASE StartPass \/ ClaimNothing
  <2>1. /\ UNCHANGED <<phase, epoch, credited, residual>> /\ pass'.batch = {}
    BY <1>8 DEF StartPass, ClaimNothing, NoPass, sessionVars
  <2>2. Outstanding' = {} /\ BatchIsKeyed'
    BY <2>1 DEF Outstanding, BatchIsKeyed
  <2>3. Committed' = residual + Cardinality(credited)
    BY <2>1, <2>2, FS_EmptySet, CreditSets, SizesAssumption DEF Committed, TypeOK
  <2>4. Committed' <= MaxConcurrent
    BY <1>1, <2>3, CreditSets, SizesAssumption DEF Committed, TypeOK
  <2> QED BY <1>2, <2>2, <2>4
<1>9. ASSUME NEW S \in SUBSET Tasks, Claim(S) PROVE CreditInv'
  BY <1>2, <1>9, ClaimKeepsCredits
<1>10. ASSUME NEW d \in pass.batch, Deliver(d) \/ DeliverFails(d) PROVE CreditInv'
  <2>1. BatchIsKeyed' /\ Committed' \in Int /\ Committed' <= Committed
    BY <1>10, DeliveryKeepsCredits
  <2>2. Committed' <= MaxConcurrent
    BY <1>1, <2>1
  <2> QED BY <1>2, <2>1, <2>2
<1> QED
  BY <1>3, <1>4, <1>5, <1>6, <1>7, <1>8, <1>9, <1>10
  DEF Next, vars, Environment, Reclaim, OtherClaims, OtherCompletes, ForwardCancel,
      BeginDrain, AssignmentLoop, Connect, WorkerLosesSocket, RestartWorker, WorkerReads,
      Attach, HandleAssignment, HandleCancel, HandleResultAck, Execute, ExecutionSucceeds,
      ExecutionFails, ExecutionCancelled, Resubmit, Resend, coordVars, sessionVars


-----------------------------------------------------------------------------
(***************************************************************************)
(* The socket: what is still to come for every delivery.                   *)
(***************************************************************************)

\* Reading the oldest report keeps the others in order.
LEMMA FollowedTail ==
    ASSUME NEW q \in Seq(UpMsg), q # <<>>, NEW r, Followed(q, r)
    PROVE  Followed(Tail(q), r)
<1>1. /\ Len(q) \in Nat /\ DOMAIN q = 1 .. Len(q) /\ Len(Tail(q)) = Len(q) - 1
      /\ DOMAIN Tail(q) = 1 .. Len(Tail(q))
      /\ \A i \in 1 .. Len(Tail(q)) : Tail(q)[i] = q[i + 1]
  BY HeadTailProperties, LenProperties
<1> SUFFICES ASSUME NEW i \in DOMAIN Tail(q), Tail(q)[i].type = "task_ack",
                    Tail(q)[i].reply = "accepted", r[Tail(q)[i].task] = Idle
             PROVE  \E j \in DOMAIN Tail(q) : j > i /\ Ends(Tail(q)[j], Tail(q)[i].task)
  BY DEF Followed
<1>2. i + 1 \in DOMAIN q /\ Tail(q)[i] = q[i + 1]
  BY <1>1
<1>3. PICK j \in DOMAIN q : j > i + 1 /\ Ends(q[j], q[i + 1].task)
  BY <1>2 DEF Followed
<1>4. j - 1 \in DOMAIN Tail(q) /\ j - 1 > i /\ Tail(q)[j - 1] = q[j]
  BY <1>1, <1>3
<1> QED
  BY <1>2, <1>3, <1>4

\* A report that is sent is the newest: it may end executions, and an acceptance is
\* sent for a task that runs.
LEMMA FollowedSent ==
    ASSUME NEW q \in Seq(UpMsg), NEW m \in UpMsg, NEW r, NEW s, Followed(q, r),
           \A t \in Tasks : r[t] # Idle => s[t] # Idle \/ Ends(m, t),
           (m.type = "task_ack" /\ m.reply = "accepted") => s[m.task] # Idle
    PROVE  Followed(q \o <<m>>, s)
<1> DEFINE p == q \o <<m>>
<1>1. /\ Len(q) \in Nat /\ DOMAIN q = 1 .. Len(q) /\ DOMAIN p = 1 .. Len(q) + 1
      /\ \A i \in 1 .. Len(q) : p[i] = q[i] /\ q[i] \in UpMsg
      /\ p[Len(q) + 1] = m
  OBVIOUS
<1> HIDE DEF p
<1> SUFFICES ASSUME NEW i \in DOMAIN p, p[i].type = "task_ack", p[i].reply = "accepted",
                    s[p[i].task] = Idle
             PROVE  \E j \in DOMAIN p : j > i /\ Ends(p[j], p[i].task)
  BY DEF Followed, p
<1>2. i \in DOMAIN q /\ p[i] = q[i] /\ q[i] \in UpMsg
  BY <1>1
<1>3. q[i].task \in Tasks
  BY <1>2, UpFields
<1>4. CASE r[q[i].task] # Idle
  <2>1. Ends(m, q[i].task)
    BY <1>2, <1>3, <1>4
  <2> QED BY <1>1, <1>2, <2>1
<1>5. CASE r[q[i].task] = Idle
  <2>1. PICK j \in DOMAIN q : j > i /\ Ends(q[j], q[i].task)
    BY <1>2, <1>5 DEF Followed
  <2>2. j \in DOMAIN p /\ p[j] = q[j]
    BY <1>1
  <2> QED BY <1>2, <2>1, <2>2
<1> QED
  BY <1>4, <1>5

\* An admission sends two.
LEMMA SentInTurn ==
    ASSUME NEW q \in Seq(UpMsg), NEW a \in UpMsg, NEW b \in UpMsg
    PROVE  q \o <<a, b>> = (q \o <<a>>) \o <<b>> /\ q \o <<a>> \in Seq(UpMsg)
<1> DEFINE one == <<a>>
           two == <<b>>
           both == <<a, b>>
<1>1. /\ one \in Seq(UpMsg) /\ Len(one) = 1 /\ one[1] = a
      /\ two \in Seq(UpMsg) /\ Len(two) = 1 /\ two[1] = b
      /\ both \in Seq(UpMsg) /\ Len(both) = 2 /\ both[1] = a /\ both[2] = b
  OBVIOUS
<1> HIDE DEF one, two, both
<1>2. /\ one \o two \in Seq(UpMsg) /\ Len(one \o two) = 2
      /\ (one \o two)[1] = a /\ (one \o two)[2] = b
  <2>1. /\ one \o two \in Seq(UpMsg) /\ Len(one \o two) = Len(one) + Len(two)
        /\ \A i \in 1 .. Len(one) + Len(two) :
              (one \o two)[i] = IF i <= Len(one) THEN one[i] ELSE two[i - Len(one)]
    BY <1>1, ConcatProperties
  <2> QED BY <1>1, <2>1
<1>3. one \o two = both
  <2>1. \A i \in 1 .. Len(both) : (one \o two)[i] = both[i]
    BY <1>1, <1>2
  <2> QED BY <1>1, <1>2, <2>1, SeqEqual
<1>4. (q \o one) \o two = q \o (one \o two) /\ q \o one \in Seq(UpMsg)
  BY <1>1, ConcatAssociative, ConcatProperties
<1> QED
  BY <1>3, <1>4 DEF one, two, both

\* The end of an execution is reported.
LEMMA ExecutionReports ==
    ASSUME BaseInv, NEW t \in Tasks, Execute(t)
    PROVE  /\ \E m \in UpMsg : Ends(m, t) /\ up' = Report(m)
           /\ running' = [running EXCEPT ![t] = Idle]
           /\ UNCHANGED <<phase, conn, down, credited, pendingAcks, refused>>
<1> USE DEF BaseInv, TypeOK, coordVars, sessionVars, histVars
<1>1. /\ running[t] # Idle /\ running' = [running EXCEPT ![t] = Idle]
      /\ UNCHANGED <<phase, conn, down, credited, pendingAcks, refused>>
  BY DEF Execute, ExecutionSucceeds, ExecutionFails, ExecutionCancelled, ReleaseSlot
<1>2. ASSUME NEW valid \in BOOLEAN, ExecutionSucceeds(t, valid)
      PROVE  \E m \in UpMsg : Ends(m, t) /\ up' = Report(m)
  <2> DEFINE e == [task |-> t, attempt |-> running[t].attempt, valid |-> valid]
  <2>1. e \in Envelope /\ e.task = t
    BY <1>1 DEF Envelope, Execution
  <2>2. up' = Report(ResultMsg(e))
    BY <1>2 DEF ExecutionSucceeds
  <2> HIDE DEF e
  <2>3. ResultMsg(e) \in UpMsg /\ Ends(ResultMsg(e), t)
    BY <2>1 DEF UpMsg, ResultMsg, Ends
  <2> QED BY <2>2, <2>3
<1>3. ASSUME ExecutionFails(t) \/ ExecutionCancelled(t)
      PROVE  \E m \in UpMsg : Ends(m, t) /\ up' = Report(m)
  <2>1. /\ FailedMsg(t) \in UpMsg /\ Ends(FailedMsg(t), t)
        /\ CapacityMsg(t) \in UpMsg /\ Ends(CapacityMsg(t), t)
    BY DEF UpMsg, FailedMsg, CapacityMsg, Ends
  <2> QED BY <1>3, <2>1 DEF ExecutionFails, ExecutionCancelled
<1> QED
  BY <1>1, <1>2, <1>3 DEF Execute

\* An assignment is answered, and an acceptance is an answer for a task that runs.
LEMMA AdmissionReports ==
    ASSUME BaseInv, HandleAssignment
    PROVE  /\ Head(down).task \in Tasks
           /\ \E m \in UpMsg :
                 /\ m.type = "task_ack" /\ m.task = Head(down).task
                 /\ m.reply = "accepted" => running'[m.task] # Idle
                 /\ \/ up' = ToCoordinator(<<m>>)
                    \/ up' = ToCoordinator(<<m, StartedMsg(m.task)>>)
           /\ \A t \in Tasks : running[t] # Idle => running'[t] # Idle
           /\ conn = "up"
           /\ UNCHANGED <<phase, conn, credited, pendingAcks, refused>>
<1> USE DEF BaseInv, TypeOK, coordVars, sessionVars, histVars
<1> DEFINE t == Head(down).task
           x == [attempt |-> Head(down).attempt, cancel |-> FALSE]
<1>1. t \in Tasks /\ Head(down).attempt \in 0..MaxAttempts
  BY ReadDown DEF HandleAssignment
<1>2. x # Idle
  BY <1>1 DEF Idle
<1>3. /\ conn = "up" /\ UNCHANGED <<phase, conn, credited, pendingAcks, refused>>
  BY DEF HandleAssignment
<1>4. \/ /\ \E r \in Replies : /\ r = "accepted" => running[t] # Idle
                               /\ up' = ToCoordinator(<<AckMsg(t, r)>>)
         /\ running' = running
      \/ /\ running' = [running EXCEPT ![t] = x]
         /\ up' = ToCoordinator(<<AckMsg(t, "accepted"), StartedMsg(t)>>)
  BY DEF HandleAssignment, AlreadyRunning, Replies
<1> HIDE DEF t, x
<1>5. \A r \in Replies : /\ AckMsg(t, r) \in UpMsg /\ AckMsg(t, r).type = "task_ack"
                         /\ AckMsg(t, r).task = t /\ AckMsg(t, r).reply = r
  BY <1>1 DEF UpMsg, AckMsg
<1>6. CASE /\ \E r \in Replies : /\ r = "accepted" => running[t] # Idle
                                 /\ up' = ToCoordinator(<<AckMsg(t, r)>>)
           /\ running' = running
  <2>1. PICK r \in Replies : /\ r = "accepted" => running[t] # Idle
                             /\ up' = ToCoordinator(<<AckMsg(t, r)>>)
    BY <1>6
  <2> QED BY <1>1, <1>3, <1>5, <1>6, <2>1 DEF t
<1>7. CASE /\ running' = [running EXCEPT ![t] = x]
           /\ up' = ToCoordinator(<<AckMsg(t, "accepted"), StartedMsg(t)>>)
  <2>1. running'[t] # Idle /\ \A u \in Tasks : running[u] # Idle => running'[u] # Idle
    BY <1>1, <1>2, <1>7
  <2>2. "accepted" \in Replies
    BY DEF Replies
  <2> QED BY <1>1, <1>3, <1>5, <1>7, <2>1, <2>2 DEF t
<1> QED
  BY <1>4, <1>6, <1>7

\* A socket not attached yet carries nothing up.
LEMMA StepKeepsQuiet ==
    ASSUME BaseInv, NothingBeforeAttach, [Next]_vars
    PROVE  NothingBeforeAttach'
<1> USE DEF BaseInv, TypeOK, dbVars, coordVars, sessionVars, wireVars, workerVars, histVars,
        NothingBeforeAttach
<1>1. CASE ReadLoop
  <2>1. phase = "open" /\ phase' = phase /\ conn' = conn /\ up # <<>>
    BY <1>1 DEF ReadLoop, HandleTaskAck, HandleTaskStarted, HandleCapacity,
       HandleTaskFailed, HandleTaskResult, Receives
  <2> QED BY <2>1
<1>2. ASSUME NEW t \in Tasks, Execute(t) PROVE NothingBeforeAttach'
  BY <1>2, ExecutionReports DEF Report, ToCoordinator
<1>3. CASE HandleAssignment
  BY <1>3, AdmissionReports DEF ToCoordinator
<1>4. CASE Resubmit
  BY <1>4 DEF Resubmit, Resend, ToCoordinator
<1>5. CASE AssignmentLoop
  <2>1. UNCHANGED <<phase, conn, up>> /\ (credited \subseteq pendingAcks => credited' \subseteq pendingAcks')
    BY <1>5 DEF AssignmentLoop, StartPass, ClaimNothing, Claim, Deliver, DeliverFails
  <2> QED BY <2>1
<1>6. CASE Environment
  BY <1>6 DEF Environment, Reclaim, OtherClaims, OtherCompletes, ForwardCancel, BeginDrain
<1>7. CASE OpenSession \/ RecoverLeases \/ SessionEnds
  BY <1>7 DEF OpenSession, RecoverLeases, SessionEnds
<1>8. CASE Connect \/ WorkerLosesSocket \/ RestartWorker
  BY <1>8 DEF Connect, WorkerLosesSocket, RestartWorker
<1>9. CASE Attach \/ HandleCancel \/ HandleResultAck
  BY <1>9 DEF Attach, HandleCancel, HandleResultAck
<1>10. CASE UNCHANGED vars
  BY <1>10 DEF vars
<1> QED
  BY <1>1, <1>2, <1>3, <1>4, <1>5, <1>6, <1>7, <1>8, <1>9, <1>10 DEF Next, WorkerReads

\* A delivery not acknowledged stays unread or answered as long as the socket is whole.
LEMMA StepKeepsAcks ==
    ASSUME BaseInv, AcksOnTheWay, [Next]_vars
    PROVE  AcksOnTheWay'
<1> USE DEF BaseInv, TypeOK, dbVars, coordVars, sessionVars, wireVars, workerVars, histVars
<1> DEFINE Unread(t) == \E m \in Range(down) : m.type = "task_assign" /\ m.task = t
           Answered(t) == \E m \in Range(up) : m.type = "task_ack" /\ m.task = t
<1> SUFFICES ASSUME phase' # "none", conn' # "down", NEW t \in pendingAcks'
             PROVE  Unread(t)' \/ Answered(t)'
  BY DEF AcksOnTheWay
<1>1. ASSUME phase # "none", conn # "down", t \in pendingAcks,
             \A m \in Range(down) : m.type = "task_assign" => m \in Range(down'),
             \A m \in Range(up) : m.type = "task_ack" => m \in Range(up')
      PROVE  Unread(t)' \/ Answered(t)'
  BY <1>1 DEF AcksOnTheWay
<1>2. CASE UNCHANGED <<phase, conn, pendingAcks, down, up>>
  BY <1>1, <1>2
<1>3. ASSUME NEW u \in Tasks, ForwardCancel(u) PROVE Unread(t)' \/ Answered(t)'
  <2>1. CancelMsg(u) \in DownMsg
    BY DEF DownMsg
  <2>2. Range(down) \subseteq Range(down')
    BY <1>3, <2>1, SentDown DEF ForwardCancel
  <2> QED BY <1>1, <1>3, <2>2 DEF ForwardCancel
<1>4. CASE OpenSession \/ SessionEnds
  BY <1>4 DEF OpenSession, SessionEnds
<1>5. CASE RecoverLeases
  BY <1>1, <1>5 DEF RecoverLeases
<1>6. ASSUME NEW d \in pass.batch, Deliver(d) PROVE Unread(t)' \/ Answered(t)'
  <2> DEFINE m == AssignMsg(d.task, d.attempt)
  <2>1. m \in DownMsg /\ m.type = "task_assign" /\ m.task = d.task
    BY DEF DownMsg, AssignMsg, Pass, Claimed
  <2>2. down' = ToWorker(<<m>>)
    BY <1>6 DEF Deliver
  <2> HIDE DEF m
  <2>3. UNCHANGED <<phase, conn, up>> /\ pendingAcks' = pendingAcks \cup {d.task}
    BY <1>6 DEF Deliver
  <2>4. Range(down') = Range(down) \cup {m}
    BY <2>1, <2>2, <2>3, SentDown
  <2>5. CASE t = d.task
    BY <2>1, <2>4, <2>5
  <2>6. CASE t # d.task
    BY <1>1, <2>3, <2>4, <2>6
  <2> QED BY <2>5, <2>6
<1>7. CASE HandleTaskAck
  <2>1. /\ UNCHANGED <<phase, conn, down>> /\ pendingAcks' = pendingAcks \ {Head(up).task}
        /\ Receives("task_ack") /\ up' = Tail(up)
    BY <1>7 DEF HandleTaskAck
  <2>2. Range(up) \subseteq Range(up') \cup {Head(up)}
    BY <2>1, ReadUp
  <2> QED BY <2>1, <2>2 DEF AcksOnTheWay
<1>8. CASE HandleTaskStarted \/ HandleCapacity \/ HandleTaskFailed \/ HandleTaskResult
  <2>1. /\ UNCHANGED <<phase, conn, pendingAcks>> /\ up' = Tail(up)
        /\ \E type \in {"task_started", "capacity", "task_failed", "task_result"} : Receives(type)
    BY <1>8 DEF HandleTaskStarted, HandleCapacity, HandleTaskFailed, HandleTaskResult
  <2>2. Range(up) \subseteq Range(up') \cup {Head(up)} /\ Head(up).type # "task_ack"
    BY <2>1, ReadUp
  <2>3. Range(down) \subseteq Range(down')
    <3>1. CASE down' = down BY <3>1
    <3>2. CASE HandleTaskResult
      <4>1. Head(up).envelope \in Envelope
        BY <3>2, ReadUp DEF HandleTaskResult
      <4>2. ResultAckMsg(Head(up).envelope.task, Head(up).envelope.attempt) \in DownMsg
        BY <4>1 DEF DownMsg, Envelope
      <4> QED BY <3>2, <4>2, SentDown DEF HandleTaskResult
    <3> QED BY <1>8, <3>1, <3>2 DEF HandleTaskStarted, HandleCapacity, HandleTaskFailed
  <2> QED BY <1>1, <2>1, <2>2, <2>3
<1>9. CASE Connect \/ WorkerLosesSocket \/ RestartWorker
  BY <1>9 DEF Connect, WorkerLosesSocket, RestartWorker
<1>10. CASE Attach \/ HandleCancel \/ HandleResultAck
  <2>1. /\ UNCHANGED <<phase, up, pendingAcks>> /\ down' = Tail(down) /\ conn # "down"
        /\ \E type \in {"hello_ack", "task_cancel", "task_result_ack"} : WorkerReceives(type)
    BY <1>10 DEF Attach, HandleCancel, HandleResultAck
  <2>2. Range(down) \subseteq Range(down') \cup {Head(down)} /\ Head(down).type # "task_assign"
    BY <2>1, ReadDown
  <2> QED BY <1>1, <2>1, <2>2
<1>11. CASE HandleAssignment
  <2>1. PICK m \in UpMsg :
           /\ m.type = "task_ack" /\ m.task = Head(down).task
           /\ \/ up' = ToCoordinator(<<m>>)
              \/ up' = ToCoordinator(<<m, StartedMsg(m.task)>>)
    BY <1>11, AdmissionReports
  <2>2. UNCHANGED <<phase, conn, pendingAcks>> /\ down' = Tail(down) /\ WorkerReceives("task_assign")
    BY <1>11 DEF HandleAssignment
  <2>3. Range(down) \subseteq Range(down') \cup {Head(down)}
    BY <2>2, ReadDown
  <2>4. StartedMsg(m.task) \in UpMsg
    BY <2>1, <1>11, AdmissionReports DEF UpMsg
  <2>5. Range(up) \cup {m} \subseteq Range(up')
    BY <2>1, <2>2, <2>4, SentUp, BothSentUp
  <2> QED BY <2>1, <2>2, <2>3, <2>5 DEF AcksOnTheWay
<1>12. ASSUME NEW u \in Tasks, Execute(u) PROVE Unread(t)' \/ Answered(t)'
  <2>1. PICK m \in UpMsg : up' = Report(m)
    BY <1>12, ExecutionReports
  <2>2. Range(up) \subseteq Range(up')
    BY <2>1, Reported
  <2> QED BY <1>1, <1>12, <2>2, ExecutionReports
<1>13. CASE Resubmit
  <2>1. PICK e \in Pending : Resend(e)
    BY <1>13 DEF Resubmit
  <2>2. e \in Envelope
    BY ElementOfSeq, LenProperties DEF Pending
  <2>3. ResultMsg(e) \in UpMsg
    BY <2>2 DEF UpMsg
  <2>4. Range(up) \subseteq Range(up')
    BY <2>1, <2>3, SentUp DEF Resend
  <2> QED BY <1>1, <2>1, <2>4 DEF Resend
<1> QED
  BY <1>2, <1>3, <1>4, <1>5, <1>6, <1>7, <1>8, <1>9, <1>10, <1>11, <1>12, <1>13
  DEF Next, vars, Environment, Reclaim, OtherClaims, OtherCompletes, BeginDrain, ReadLoop,
      AssignmentLoop, StartPass, ClaimNothing, Claim, DeliverFails, WorkerReads


\* An acceptance stays followed by the end of its execution, or runs.
LEMMA StepKeepsFollowed ==
    ASSUME BaseInv, NothingBeforeAttach, AcceptedIsFollowed, [Next]_vars
    PROVE  AcceptedIsFollowed'
<1> USE DEF BaseInv, TypeOK, dbVars, coordVars, sessionVars, wireVars, workerVars, histVars
<1> SUFFICES ASSUME phase' # "none", conn' = "up"
             PROVE  Followed(up', running')
  BY DEF AcceptedIsFollowed
<1>1. ASSUME NEW r PROVE Followed(<<>>, r)
  BY DEF Followed
<1>2. CASE UNCHANGED <<phase, conn, up, running>>
  BY <1>2 DEF AcceptedIsFollowed
<1>3. CASE OpenSession \/ SessionEnds
  BY <1>1, <1>3 DEF OpenSession, SessionEnds
<1>4. CASE RecoverLeases
  BY <1>4 DEF RecoverLeases, AcceptedIsFollowed
<1>5. CASE ReadLoop
  <2>1. UNCHANGED <<phase, conn, running>> /\ up' = Tail(up) /\ up # <<>>
    BY <1>5 DEF ReadLoop, HandleTaskAck, HandleTaskStarted, HandleCapacity,
       HandleTaskFailed, HandleTaskResult, Receives
  <2>2. Followed(up, running)
    BY <2>1 DEF AcceptedIsFollowed
  <2> QED BY <2>1, <2>2, FollowedTail
<1>6. CASE Connect \/ WorkerLosesSocket \/ RestartWorker
  BY <1>6 DEF Connect, WorkerLosesSocket, RestartWorker
<1>7. CASE Attach
  BY <1>1, <1>7 DEF Attach, NothingBeforeAttach
<1>8. CASE HandleCancel
  <2> DEFINE t == Head(down).task
  <2>1. UNCHANGED <<phase, conn, up>> /\ t \in Tasks
    BY <1>8, ReadDown DEF HandleCancel
  <2>2. running[t] # Idle => [running[t] EXCEPT !.cancel = TRUE] # Idle
    BY <2>1 DEF Execution, Idle
  <2>3. \A u \in Tasks : running[u] # Idle => running'[u] # Idle
    BY <1>8, <2>1, <2>2 DEF HandleCancel
  <2>4. \A i \in DOMAIN up : up[i].task \in Tasks
    BY UpFields, ElementOfSeq, LenProperties
  <2> QED BY <2>1, <2>3, <2>4 DEF AcceptedIsFollowed, Followed
<1>9. CASE HandleAssignment
  <2>1. PICK m \in UpMsg :
           /\ m.type = "task_ack" /\ m.task = Head(down).task
           /\ m.reply = "accepted" => running'[m.task] # Idle
           /\ \/ up' = ToCoordinator(<<m>>)
              \/ up' = ToCoordinator(<<m, StartedMsg(m.task)>>)
    BY <1>9, AdmissionReports
  <2>2. /\ UNCHANGED <<phase, conn>> /\ m.task \in Tasks
        /\ \A t \in Tasks : running[t] # Idle => running'[t] # Idle
    BY <1>9, <2>1, AdmissionReports
  <2>3. Followed(up, running)
    BY <2>2 DEF AcceptedIsFollowed
  <2>4. Followed(up \o <<m>>, running')
    BY <2>1, <2>2, <2>3, FollowedSent
  <2> DEFINE n == StartedMsg(m.task)
  <2>5. n \in UpMsg /\ n.type # "task_ack"
    BY <2>2 DEF UpMsg, StartedMsg
  <2>6. up' = up \o <<m>> \/ up' = up \o <<m, n>>
    BY <2>1, <2>2 DEF ToCoordinator
  <2> HIDE DEF n
  <2>7. up \o <<m, n>> = (up \o <<m>>) \o <<n>> /\ up \o <<m>> \in Seq(UpMsg)
    BY <2>5, SentInTurn
  <2>8. Followed((up \o <<m>>) \o <<n>>, running')
    <3> DEFINE q == up \o <<m>>
    <3> HIDE DEF q
    <3>1. q \in Seq(UpMsg) /\ Followed(q, running')
      BY <2>4, <2>7 DEF q
    <3>2. Followed(q \o <<n>>, running')
      BY <2>5, <3>1, FollowedSent
    <3> QED BY <3>2 DEF q
  <2> QED BY <2>4, <2>6, <2>7, <2>8
<1>10. ASSUME NEW t \in Tasks, Execute(t) PROVE Followed(up', running')
  <2>1. PICK m \in UpMsg : Ends(m, t) /\ up' = Report(m)
    BY <1>10, ExecutionReports
  <2>2. running' = [running EXCEPT ![t] = Idle] /\ UNCHANGED <<phase, conn>>
    BY <1>10, ExecutionReports
  <2>3. Followed(up, running) /\ up' = up \o <<m>>
    BY <2>1, <2>2 DEF AcceptedIsFollowed, Report, ToCoordinator
  <2>4. \A u \in Tasks : running[u] # Idle => running'[u] # Idle \/ Ends(m, u)
    BY <2>1, <2>2
  <2>5. m.type # "task_ack"
    BY <2>1 DEF Ends
  <2> QED BY <2>3, <2>4, <2>5, FollowedSent
<1>11. CASE Resubmit
  <2>1. PICK e \in Pending : Resend(e)
    BY <1>11 DEF Resubmit
  <2>2. e \in Envelope
    BY ElementOfSeq, LenProperties DEF Pending
  <2> DEFINE m == ResultMsg(e)
  <2>3. m \in UpMsg /\ m.type # "task_ack"
    BY <2>2 DEF UpMsg, ResultMsg
  <2>4. UNCHANGED <<phase, conn, running>> /\ up' = ToCoordinator(<<m>>)
    BY <2>1 DEF Resend
  <2> HIDE DEF m
  <2>5. Followed(up, running) /\ up' = up \o <<m>>
    BY <2>4 DEF AcceptedIsFollowed, ToCoordinator
  <2>6. Followed(up \o <<m>>, running)
    BY <2>3, <2>5, FollowedSent
  <2> QED BY <2>4, <2>5, <2>6
<1> QED
  BY <1>2, <1>3, <1>4, <1>5, <1>6, <1>7, <1>8, <1>9, <1>10, <1>11
  DEF Next, vars, Environment, Reclaim, OtherClaims, OtherCompletes, ForwardCancel,
      BeginDrain, AssignmentLoop, StartPass, ClaimNothing, Claim, Deliver, DeliverFails,
      WorkerReads, HandleResultAck

\* An acknowledged credit stays running, reported or refused.
LEMMA StepKeepsExplained ==
    ASSUME BaseInv, NothingBeforeAttach, AcceptedIsFollowed, AcknowledgedIsExplained,
           [Next]_vars
    PROVE  AcknowledgedIsExplained'
<1> USE DEF BaseInv, TypeOK, dbVars, coordVars, sessionVars, wireVars, workerVars, histVars
<1> DEFINE Ended(t) == \E m \in Range(up) : Ends(m, t)
<1> SUFFICES ASSUME phase' # "none", conn' = "up", NEW t \in credited' \ pendingAcks'
             PROVE  t \in refused' \/ running'[t] # Idle \/ Ended(t)'
  BY DEF AcknowledgedIsExplained
<1>1. ASSUME phase # "none", conn = "up", t \in credited \ pendingAcks,
             t \in refused => t \in refused',
             running[t] # Idle => running'[t] # Idle,
             \A m \in Range(up) : Ends(m, t) => m \in Range(up')
      PROVE  t \in refused' \/ running'[t] # Idle \/ Ended(t)'
  BY <1>1 DEF AcknowledgedIsExplained
<1>2. CASE UNCHANGED <<phase, conn, credited, pendingAcks, refused, running, up>>
  BY <1>1, <1>2
<1>3. CASE OpenSession \/ SessionEnds
  BY <1>3 DEF OpenSession, SessionEnds
<1>4. CASE RecoverLeases
  BY <1>1, <1>4 DEF RecoverLeases
<1>5. ASSUME NEW d \in pass.batch, Deliver(d)
      PROVE  t \in refused' \/ running'[t] # Idle \/ Ended(t)'
  BY <1>1, <1>5 DEF Deliver
<1>6. CASE HandleTaskAck
  <2> DEFINE m == Head(up)
  <2>1. /\ UNCHANGED <<phase, conn, running>> /\ up' = Tail(up) /\ Receives("task_ack")
        /\ up # <<>> /\ refused \subseteq refused' /\ credited' \subseteq credited
        /\ pendingAcks' = pendingAcks \ {m.task}
    BY <1>6 DEF HandleTaskAck, Receives, ReleaseCredit
  <2>2. /\ Range(up) \subseteq Range(up') \cup {m} /\ m.type = "task_ack" /\ m.reply \in Replies
    BY <2>1, ReadUp
  <2>3. CASE t \notin pendingAcks
    BY <1>1, <2>1, <2>2, <2>3 DEF Ends
  <2>4. CASE t \in pendingAcks
    <3>1. t = m.task
      BY <2>1, <2>4
    <3>2. m.reply = "at_capacity" => t \in refused'
      BY <1>6, <2>4, <3>1 DEF HandleTaskAck
    <3>3. m.reply # "unsupported_task_type"
      BY <1>6, <2>4, <3>1 DEF HandleTaskAck, ReleaseCredit
    <3>4. m.reply = "accepted" => running[t] # Idle \/ Ended(t)'
      <4>1. SUFFICES ASSUME m.reply = "accepted", running[t] = Idle PROVE Ended(t)'
        OBVIOUS
      <4>2. Len(up) \in Nat /\ DOMAIN up = 1 .. Len(up) /\ 1 \in DOMAIN up /\ m = up[1]
        BY <2>1, LenProperties, EmptySeq, HeadTailProperties
      <4>3. PICK j \in DOMAIN up : j > 1 /\ Ends(up[j], t)
        BY <2>1, <2>2, <3>1, <4>1, <4>2 DEF AcceptedIsFollowed, Followed
      <4>4. up[j] \in Range(up)
        BY DEF Range
      <4>5. up[j] # m
        BY <2>2, <4>3 DEF Ends
      <4> QED BY <2>2, <4>3, <4>4, <4>5
    <3> QED BY <2>1, <2>2, <3>2, <3>3, <3>4 DEF Replies
  <2> QED BY <2>3, <2>4
<1>7. CASE HandleTaskStarted \/ HandleCapacity \/ HandleTaskFailed \/ HandleTaskResult
  <2> DEFINE m == Head(up)
  <2>1. /\ UNCHANGED <<phase, conn, running, pendingAcks, refused>> /\ up' = Tail(up)
        /\ \E type \in {"task_started", "capacity", "task_failed", "task_result"} : Receives(type)
    BY <1>7 DEF HandleTaskStarted, HandleCapacity, HandleTaskFailed, HandleTaskResult
  <2>2. /\ Range(up) \subseteq Range(up') \cup {m}
        /\ m.type = "task_result" => m.envelope.task = m.task
    BY <2>1, ReadUp
  <2>3. credited' \subseteq credited
    BY <1>7 DEF HandleTaskStarted, HandleCapacity, HandleTaskFailed, HandleTaskResult,
       ReleaseCredit
  <2>4. ~Ends(m, t)
    <3>1. CASE HandleTaskStarted
      BY <3>1 DEF HandleTaskStarted, Receives, Ends
    <3>2. CASE HandleCapacity
      BY <3>2 DEF HandleCapacity, ReleaseCredit, Ends
    <3>3. CASE HandleTaskFailed
      BY <3>3 DEF HandleTaskFailed, ReleaseCredit, Ends
    <3>4. CASE HandleTaskResult
      <4>1. m.type = "task_result"
        BY <3>4 DEF HandleTaskResult, Receives
      <4>2. m.envelope.task \notin credited'
        BY <3>4 DEF HandleTaskResult, ReleaseCredit
      <4> QED BY <2>2, <4>1, <4>2 DEF Ends
    <3> QED BY <1>7, <3>1, <3>2, <3>3, <3>4
  <2> QED BY <1>1, <2>1, <2>2, <2>3, <2>4
<1>8. CASE Connect \/ WorkerLosesSocket \/ RestartWorker
  BY <1>8 DEF Connect, WorkerLosesSocket, RestartWorker
<1>9. CASE Attach
  BY <1>9 DEF Attach, NothingBeforeAttach
<1>10. CASE HandleCancel
  <2> DEFINE u == Head(down).task
  <2>1. UNCHANGED <<phase, conn, up, credited, pendingAcks, refused>> /\ u \in Tasks
    BY <1>10, ReadDown DEF HandleCancel
  <2>2. running[u] # Idle => [running[u] EXCEPT !.cancel = TRUE] # Idle
    BY <2>1 DEF Execution, Idle
  <2>3. running[t] # Idle => running'[t] # Idle
    BY <1>10, <2>1, <2>2 DEF HandleCancel
  <2> QED BY <1>1, <2>1, <2>3
<1>11. CASE HandleAssignment
  <2>1. PICK m \in UpMsg :
           /\ m.type = "task_ack" /\ m.task = Head(down).task
           /\ \/ up' = ToCoordinator(<<m>>)
              \/ up' = ToCoordinator(<<m, StartedMsg(m.task)>>)
    BY <1>11, AdmissionReports
  <2>2. /\ UNCHANGED <<phase, conn, credited, pendingAcks, refused>> /\ m.task \in Tasks
        /\ \A u \in Tasks : running[u] # Idle => running'[u] # Idle
    BY <1>11, <2>1, AdmissionReports
  <2>3. StartedMsg(m.task) \in UpMsg
    BY <2>2 DEF UpMsg
  <2>4. Range(up) \subseteq Range(up')
    BY <2>1, <2>2, <2>3, SentUp, BothSentUp
  <2>5. t \in Tasks
    BY <2>2
  <2> QED BY <1>1, <2>2, <2>4, <2>5
<1>12. ASSUME NEW u \in Tasks, Execute(u)
       PROVE  t \in refused' \/ running'[t] # Idle \/ Ended(t)'
  <2>1. PICK m \in UpMsg : Ends(m, u) /\ up' = Report(m)
    BY <1>12, ExecutionReports
  <2>2. /\ running' = [running EXCEPT ![u] = Idle]
        /\ UNCHANGED <<phase, conn, credited, pendingAcks, refused>>
    BY <1>12, ExecutionReports
  <2>3. Range(up') = Range(up) \cup {m}
    BY <2>1, <2>2, Reported
  <2>4. CASE t = u
    BY <2>1, <2>3, <2>4
  <2>5. CASE t # u
    BY <1>1, <2>2, <2>3, <2>5
  <2> QED BY <2>4, <2>5
<1>13. CASE Resubmit
  <2>1. PICK e \in Pending : Resend(e)
    BY <1>13 DEF Resubmit
  <2>2. e \in Envelope
    BY ElementOfSeq, LenProperties DEF Pending
  <2>3. ResultMsg(e) \in UpMsg
    BY <2>2 DEF UpMsg
  <2>4. Range(up) \subseteq Range(up')
    BY <2>1, <2>3, SentUp DEF Resend
  <2> QED BY <1>1, <2>1, <2>4 DEF Resend
<1> QED
  BY <1>2, <1>3, <1>4, <1>5, <1>6, <1>7, <1>8, <1>9, <1>10, <1>11, <1>12, <1>13
  DEF Next, vars, Environment, Reclaim, OtherClaims, OtherCompletes, ForwardCancel,
      BeginDrain, ReadLoop, AssignmentLoop, StartPass, ClaimNothing, Claim, DeliverFails,
      WorkerReads, HandleResultAck

-----------------------------------------------------------------------------
(***************************************************************************)
(* The theorems.                                                           *)
(***************************************************************************)

\* The invariant holds in every reachable state.
THEOREM Invariance == Spec => []IInv
<1>1. Init => IInv
  <2> SUFFICES ASSUME Init PROVE IInv
    OBVIOUS
  <2>1. BaseInv
    BY InitBase
  <2>2. CreditInv
    BY FS_EmptySet, SizesAssumption
    DEF Init, CreditInv, BatchIsKeyed, CreditsWithinLimit, PassIsCurrent, NoPass
  <2>3. ResultsWereExecuted /\ CompletionWasExecuted
    BY DEF Init, ResultsWereExecuted, CompletionWasExecuted, Range
  <2>4. WireInv
    BY DEF Init, WireInv, NothingBeforeAttach, AcksOnTheWay, AcceptedIsFollowed,
       AcknowledgedIsExplained
  <2> QED BY <2>1, <2>2, <2>3, <2>4 DEF IInv
<1>2. IInv /\ [Next]_vars => IInv'
  <2> SUFFICES ASSUME IInv, [Next]_vars PROVE IInv'
    OBVIOUS
  <2> USE DEF IInv
  <2>1. BaseInv' /\ CreditInv'
    BY StepBase, StepKeepsCredits
  <2>2. ResultsWereExecuted' /\ CompletionWasExecuted'
    BY StepKeepsResults, StepKeepsCompletion
  <2>3. WireInv'
    BY StepKeepsQuiet, StepKeepsAcks, StepKeepsFollowed, StepKeepsExplained DEF WireInv
  <2> QED BY <2>1, <2>2, <2>3
<1> QED
  BY <1>1, <1>2, PTL DEF Spec

\* The state is well typed: in particular attempts stay within the cap, and the
\* residue and the free slots within MAX_CONCURRENT.
THEOREM TypeCorrect == Spec => []TypeOK
<1>1. IInv => TypeOK
  BY DEF IInv, BaseInv
<1> QED BY <1>1, Invariance, PTL

\* TaskRunner neither leaks a slot of its semaphore nor hands one out twice.
THEOREM SlotsMatchRunningHolds == Spec => []SlotsMatchRunning
<1>1. IInv => SlotsMatchRunning
  BY DEF IInv, BaseInv
<1> QED BY <1>1, Invariance, PTL

\* The credit accounting never commits the worker beyond the concurrency it declared
\* in hello.
THEOREM CreditsWithinLimitHolds == Spec => []CreditsWithinLimit
<1>1. IInv => CreditsWithinLimit
  BY DEF IInv, CreditInv
<1> QED BY <1>1, Invariance, PTL

\* A task completed by this worker was executed to the end by it under the attempt
\* number the row carries.
THEOREM CompletionWasExecutedHolds == Spec => []CompletionWasExecuted
<1>1. IInv => CompletionWasExecuted
  BY DEF IInv
<1> QED BY <1>1, Invariance, PTL

\* While the socket is whole, an acknowledgement a drain waits for is still to come.
THEOREM PendingAckIsOnTheWayHolds == Spec => []PendingAckIsOnTheWay
<1>1. IInv => PendingAckIsOnTheWay
  BY DEF IInv, WireInv, AcksOnTheWay, PendingAckIsOnTheWay, Range
<1> QED BY <1>1, Invariance, PTL

\* While the socket is whole, a credit is held only as long as something that releases
\* it is still to come, or because the task was refused at capacity.
THEOREM CreditIsExplainedHolds == Spec => []CreditIsExplained
<1>1. IInv => CreditIsExplained
  <2> SUFFICES ASSUME IInv, phase # "none", conn = "up", NEW t \in credited
               PROVE  t \in refused \/ ReleaseIsComing(t)
    BY DEF CreditIsExplained
  <2> USE DEF IInv, WireInv, Range
  <2>1. up \in Seq(UpMsg) /\ DOMAIN up = 1 .. Len(up)
    BY LenProperties DEF BaseInv, TypeOK
  <2>2. CASE t \notin pendingAcks
    BY <2>2 DEF AcknowledgedIsExplained, ReleaseIsComing, Ends
  <2>3. CASE t \in pendingAcks
    <3>1. CASE \E m \in Range(down) : m.type = "task_assign" /\ m.task = t
      BY <3>1 DEF ReleaseIsComing
    <3>2. CASE \E m \in Range(up) : m.type = "task_ack" /\ m.task = t
      <4>1. PICK i \in DOMAIN up : up[i].type = "task_ack" /\ up[i].task = t
        BY <3>2
      <4>2. up[i].reply \in Replies
        BY <2>1, <4>1, ElementOfSeq, UpFields
      <4>3. CASE up[i].reply = "accepted"
        BY <4>1, <4>3 DEF AcceptedIsFollowed, Followed, ReleaseIsComing, Ends
      <4>4. CASE up[i].reply # "accepted"
        BY <4>1, <4>2, <4>4 DEF ReleaseIsComing, Replies
      <4> QED BY <4>3, <4>4
    <3> QED BY <2>3, <3>1, <3>2 DEF AcksOnTheWay
  <2> QED BY <2>2, <2>3
<1> QED BY <1>1, Invariance, PTL


=============================================================================
