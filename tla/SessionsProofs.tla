--------------------------- MODULE SessionsProofs ---------------------------
(***************************************************************************)
(* Proofs about Sessions, for any number of attempts, replicas and         *)
(* crashes.                                                                *)
(***************************************************************************)
EXTENDS Sessions, TLAPS

-----------------------------------------------------------------------------

\* The initial state is typed.
LEMMA InitTyped == Init => TypeOK
<1> SUFFICES ASSUME Init PROVE TypeOK
  OBVIOUS
<1>1. /\ open \in [Attempts -> BOOLEAN]
      /\ revoked \in BOOLEAN /\ unheard \in BOOLEAN
  BY DEF Init
<1>2. /\ stage \in [Attempts -> Stages]
      /\ write \in [Writers -> Statuses \cup {None}]
      /\ sweep \in [Replicas -> Sweepable \cup {None}]
  BY DEF Init, Stages, Ended
<1> QED
  BY <1>1, <1>2 DEF Init, TypeOK, Statuses

\* Every step keeps the types.
LEMMA StepTyped == TypeOK /\ [Next]_vars => TypeOK'
<1> SUFFICES ASSUME TypeOK, [Next]_vars PROVE TypeOK'
  OBVIOUS
<1> USE DEF TypeOK, At, Goto, idVars, socketVars, redisVars, rowVars
<1>1. CASE \E h \in Attempts : AttemptStep(h)
  <2> PICK h \in Attempts : AttemptStep(h)
    BY <1>1
  <2> USE DEF Stages, Handshaking, Serving, Closing, Ended
  <2>1. CASE Authenticate(h) BY <2>1 DEF Authenticate
  <2>2. CASE GoConnecting(h)
    BY <2>2 DEF GoConnecting, ReadForTransition, Statuses, Writers
  <2>3. CASE TakeEpoch(h) BY <2>3 DEF TakeEpoch
  <2>4. CASE Announce(h) BY <2>4 DEF Announce
  <2>5. CASE Record(h) BY <2>5 DEF Record
  <2>6. CASE GoOnline(h)
    BY <2>6 DEF GoOnline, ReadForTransition, Statuses, Writers
  <2>7. CASE Register(h) BY <2>7 DEF Register
  <2>8. CASE EnterReadLoop(h) BY <2>8 DEF EnterReadLoop
  <2>9. CASE Leave(h) BY <2>9 DEF Leave, Unregister
  <2>10. CASE CheckRegistry(h) BY <2>10 DEF CheckRegistry
  <2>11. CASE DeleteKey(h) BY <2>11 DEF DeleteKey
  <2>12. CASE GoOffline(h)
    BY <2>12 DEF GoOffline, ReadForTransition, Statuses, Writers
  <2>13. CASE ShortenLeases(h) BY <2>13 DEF ShortenLeases
  <2>14. CASE RefreshToken(h) BY <2>14 DEF RefreshToken
  <2>15. CASE Abandon(h) BY <2>15 DEF Abandon, Writers
  <2>16. CASE Subscribe(h) BY <2>16 DEF Subscribe
  <2>17. CASE Evict(h) BY <2>17 DEF Evict
  <2>18. CASE SocketEnds(h) BY <2>18 DEF SocketEnds
  <2>19. CASE Heartbeat(h)
    BY <2>19 DEF Heartbeat, ReadForTransition, Statuses, Writers
  <2>20. CASE ListenerDies(h)
    <3>1. unheard' \in BOOLEAN
      BY <2>20 DEF ListenerDies
    <3> QED BY <2>20, <3>1 DEF ListenerDies
  <2> QED
    BY <2>1, <2>2, <2>3, <2>4, <2>5, <2>6, <2>7, <2>8, <2>9, <2>10, <2>11,
       <2>12, <2>13, <2>14, <2>15, <2>16, <2>17, <2>18, <2>19, <2>20
    DEF AttemptStep, Proceed
<1>2. CASE \E r \in Sweepers : StartSweep(r) \/ JudgeWorker(r)
  <2> PICK r \in Sweepers : StartSweep(r) \/ JudgeWorker(r)
    BY <1>2
  <2>1. CASE StartSweep(r) BY <2>1, SessionsAssumption DEF StartSweep
  <2>2. CASE JudgeWorker(r)
    BY <2>2, SessionsAssumption DEF JudgeWorker, ReadForTransition, Statuses, Writers
  <2> QED BY <2>1, <2>2
<1>3. CASE \E r \in Replicas : Crash(r)
  BY <1>3 DEF Crash, Stages, Ended
<1>4. CASE \E w \in Writers : CommitStatus(w)
  <2> PICK w \in Writers : CommitStatus(w)
    BY <1>4
  <2>1. status' \in Statuses
    BY DEF CommitStatus
  <2>2. revoked' \in BOOLEAN
    BY DEF CommitStatus
  <2> QED BY <2>1, <2>2 DEF CommitStatus
<1>5. CASE Revoke
  BY <1>5 DEF Revoke, Statuses, Writers
<1>6. CASE Age \/ ExpireRegistry
  BY <1>6 DEF Age, ExpireRegistry
<1>7. CASE UNCHANGED vars
  BY <1>7 DEF vars
<1> QED
  BY <1>1, <1>2, <1>3, <1>4, <1>5, <1>6, <1>7 DEF Next

\* ws_connect, the sweep and the operator keep every variable in its type.
THEOREM TypeCorrect == Spec => []TypeOK
<1> QED
  BY InitTyped, StepTyped, PTL DEF Spec

-----------------------------------------------------------------------------
(***************************************************************************)
(* The inductive invariant.                                                *)
(***************************************************************************)

\* An attempt has an epoch exactly from INCR on, and no epoch is above the
\* counter; this is what makes a new epoch the newest.
EpochsCounted ==
    \A h \in Attempts :
        /\ epoch[h] <= lastEpoch
        /\ stage[h] \in {"idle", "token", "authenticated", "connecting"}
              => epoch[h] = 0
        /\ stage[h] \in {"numbered", "announced", "acked", "online"} \cup Serving
              => epoch[h] # 0

\* Only a serving session has a control listener, and only a session that
\* has had one can have been told.
ListenersServe ==
    \A h \in Attempts :
        /\ listener[h] # "off" => stage[h] \in Serving
        /\ stage[h] \in {"idle"} \cup Handshaking => h \notin told

\* A session that has been told is not the newest, and as long as no epoch went
\* unheard it has listened until it closed its socket.
ToldAreClosed ==
    \A h \in told :
        /\ epoch[h] < lastEpoch
        /\ (~unheard /\ stage[h] \in Serving /\ listener[h] # "subscribed") => ~open[h]

\* If no epoch went unheard, a numbered attempt that does not listen and has not
\* been told is the newest.
UnlistenedIsNewest ==
    ~unheard => \A h \in Attempts :
        (/\ epoch[h] # 0 /\ stage[h] \in Handshaking \cup Serving
         /\ listener[h] # "subscribed" /\ h \notin told)
            => epoch[h] = lastEpoch

\* If no epoch went unheard, whoever listens has heard every newer epoch that is
\* past its announcement.
ListenersHeard ==
    ~unheard => \A h, k \in Attempts :
        (/\ listener[h] = "subscribed" /\ epoch[h] < epoch[k]
         /\ stage[k] \in {"announced", "acked", "online"} \cup Serving)
            => h \in told

\* What the operator commits is the quarantine.
OperatorQuarantines == write["operator"] \in {None, "QUARANTINED"}

\* What the attempts keep among themselves.
SessionInv == /\ EpochsCounted /\ EpochsNameAttempts /\ ListenersServe
              /\ MapEntryIsAlive /\ ToldAreClosed /\ UnlistenedIsNewest
              /\ ListenersHeard /\ WinnerIsServed

IInv == TypeOK /\ SessionInv /\ OperatorQuarantines

\* INCR gives the attempt the newest epoch; either everybody numbered
\* before it is listening, or has been told, or the omission is recorded.
LEMMA TakeEpochKeepsSessions ==
    ASSUME TypeOK, SessionInv, NEW h \in Attempts, TakeEpoch(h)
    PROVE  SessionInv'
<1> USE DEF TypeOK, SessionInv, EpochsCounted, EpochsNameAttempts, At, Goto,
        ListenersServe, socketVars, Handshaking, Serving
<1>1. /\ epoch[h] = 0 /\ epoch'[h] = lastEpoch + 1 /\ lastEpoch' = lastEpoch + 1
      /\ \A k \in Attempts \ {h} : epoch'[k] = epoch[k] /\ stage'[k] = stage[k]
      /\ stage'[h] = "numbered" /\ h \notin told /\ listener[h] = "off"
      /\ UNCHANGED <<registry, listener, told, open, sessions, replica>>
  BY DEF TakeEpoch
<1>2. ~unheard' =>
        /\ ~unheard
        /\ \A k \in Attempts \ {h} :
              epoch[k] # 0 /\ stage[k] \in Handshaking \cup Serving
                  => listener[k] = "subscribed" \/ k \in told
  BY DEF TakeEpoch
<1>3. EpochsCounted' /\ ListenersServe'
  BY <1>1
<1>4. EpochsNameAttempts'
  <2>1. \A a, b \in Attempts : epoch'[a] = epoch'[b] /\ epoch'[a] # 0 => a = b
    BY <1>1
  <2>2. ASSUME registry' # 0 PROVE \E a \in Attempts : epoch'[a] = registry'
    <3>1. PICK a \in Attempts : epoch[a] = registry
      BY <1>1, <2>2
    <3> QED BY <1>1, <2>2, <3>1
  <2> QED BY <2>1, <2>2
<1>5. MapEntryIsAlive'
  BY <1>1 DEF MapEntryIsAlive, TakeEpoch
<1>6. UnlistenedIsNewest' /\ ToldAreClosed'
  BY <1>1, <1>2 DEF UnlistenedIsNewest, ToldAreClosed
<1>7. ListenersHeard'
  BY <1>1, <1>2 DEF ListenersHeard
<1>8. WinnerIsServed'
  BY <1>1, <1>2 DEF WinnerIsServed
<1> QED
  BY <1>3, <1>4, <1>5, <1>6, <1>7, <1>8

\* Every step of an attempt, of a sweep, of the operator, of time and of a
\* crash keeps what the attempts keep among themselves.
LEMMA StepKeepsSessions ==
    ASSUME TypeOK, SessionInv, [Next]_vars
    PROVE  SessionInv'
<1> USE DEF TypeOK, SessionInv, EpochsCounted, EpochsNameAttempts,
        ListenersServe, MapEntryIsAlive, ToldAreClosed, UnlistenedIsNewest,
        ListenersHeard, WinnerIsServed, At, Goto, idVars, socketVars, redisVars, rowVars,
        Handshaking, Serving, Closing, Ended
<1>1. ASSUME NEW h \in Attempts, AttemptStep(h) PROVE SessionInv'
  <2>1. CASE Authenticate(h) BY <2>1 DEF Authenticate
  <2>2. CASE GoConnecting(h) BY <2>2 DEF GoConnecting
  <2>3. CASE TakeEpoch(h) BY <2>3, TakeEpochKeepsSessions
  <2>4. CASE Announce(h) BY <2>4 DEF Announce
  <2>5. CASE Record(h) BY <2>5 DEF Record
  <2>6. CASE GoOnline(h) BY <2>6 DEF GoOnline
  <2>7. CASE Register(h) BY <2>7, SessionsAssumption DEF Register
  <2>8. CASE EnterReadLoop(h) BY <2>8 DEF EnterReadLoop
  <2>9. CASE Leave(h) BY <2>9, SessionsAssumption DEF Leave, Unregister
  <2>10. CASE CheckRegistry(h) BY <2>10 DEF CheckRegistry
  <2>11. CASE DeleteKey(h) BY <2>11 DEF DeleteKey
  <2>12. CASE GoOffline(h) BY <2>12 DEF GoOffline
  <2>13. CASE ShortenLeases(h) BY <2>13 DEF ShortenLeases
  <2>14. CASE RefreshToken(h) BY <2>14 DEF RefreshToken
  <2>15. CASE Abandon(h) BY <2>15 DEF Abandon
  <2>16. CASE Subscribe(h) BY <2>16 DEF Subscribe
  <2>17. CASE Evict(h) BY <2>17 DEF Evict
  <2>18. CASE SocketEnds(h) BY <2>18 DEF SocketEnds
  <2>19. CASE Heartbeat(h) BY <2>19 DEF Heartbeat
  <2>20. CASE ListenerDies(h)
    <3>1. /\ listener' = [listener EXCEPT ![h] = "off"]
          /\ UNCHANGED <<stage, epoch, open, told, sessions, replica, lastEpoch, registry>>
      BY <2>20 DEF ListenerDies
    <3>2. ~unheard' => ~unheard /\ epoch[h] = lastEpoch
      <4>1. unheard' = (unheard \/ epoch[h] < lastEpoch)
        BY <2>20 DEF ListenerDies
      <4>2. epoch[h] \in Nat /\ lastEpoch \in Nat /\ epoch[h] <= lastEpoch
        OBVIOUS
      <4>3. ~(epoch[h] < lastEpoch) => epoch[h] = lastEpoch
        BY ONLY <4>2
      <4> QED BY ONLY <4>1, <4>3, Zenon
    <3>3. EpochsCounted' /\ EpochsNameAttempts' /\ ListenersServe' /\ MapEntryIsAlive'
      BY <3>1
    <3>4. ToldAreClosed' /\ UnlistenedIsNewest'
      BY <3>1, <3>2
    <3>5. ListenersHeard' /\ WinnerIsServed'
      BY <3>1, <3>2
    <3> QED BY <3>3, <3>4, <3>5
  <2> QED
    BY <1>1, <2>1, <2>2, <2>3, <2>4, <2>5, <2>6, <2>7, <2>8, <2>9, <2>10,
       <2>11, <2>12, <2>13, <2>14, <2>15, <2>16, <2>17, <2>18, <2>19, <2>20
    DEF AttemptStep, Proceed
<1>2. ASSUME NEW r \in Replicas, StartSweep(r) \/ JudgeWorker(r)
      PROVE  SessionInv'
  BY <1>2 DEF StartSweep, JudgeWorker
<1>3. ASSUME NEW r \in Replicas, Crash(r) PROVE SessionInv'
  BY <1>3, SessionsAssumption DEF Crash
<1>4. ASSUME NEW w \in Writers, CommitStatus(w) PROVE SessionInv'
  BY <1>4 DEF CommitStatus
<1>5. CASE Revoke \/ Age
  BY <1>5 DEF Revoke, Age
<1>6. CASE ExpireRegistry
  BY <1>6 DEF ExpireRegistry
<1>7. CASE UNCHANGED vars
  BY <1>7 DEF vars
<1> QED
  BY <1>1, <1>2, <1>3, <1>4, <1>5, <1>6, <1>7, SessionsAssumption DEF Next

\* The writers of a step: the status an attempt or a sweep is about to
\* commit changes only by its own read, which finds nothing to write in a
\* quarantined row; the operator's is the quarantine.
LEMMA StepKeepsWrites ==
    ASSUME TypeOK, OperatorQuarantines, [Next]_vars
    PROVE  /\ OperatorQuarantines'
           /\ Settled => Settled'
<1> USE SessionsAssumption
        DEF TypeOK, OperatorQuarantines, Settled, Writers, rowVars,
            ReadForTransition
<1>1. ASSUME NEW h \in Attempts, AttemptStep(h)
      PROVE  OperatorQuarantines' /\ (Settled => Settled')
  <2>1. CASE UNCHANGED <<status, write>>
    BY <2>1
  <2>2. CASE GoConnecting(h) \/ GoOnline(h) \/ GoOffline(h) \/ Heartbeat(h)
    BY <2>2 DEF GoConnecting, GoOnline, GoOffline, Heartbeat
  <2>3. CASE Abandon(h)
    BY <2>3 DEF Abandon
  <2> QED
    BY <1>1, <2>1, <2>2, <2>3
    DEF AttemptStep, Proceed, Authenticate, TakeEpoch, Announce, Record,
        Register, EnterReadLoop, Leave, CheckRegistry, DeleteKey,
        ShortenLeases, RefreshToken, Subscribe, Evict, ListenerDies,
        SocketEnds
<1>2. ASSUME NEW r \in Replicas, StartSweep(r) \/ JudgeWorker(r)
      PROVE  OperatorQuarantines' /\ (Settled => Settled')
  BY <1>2 DEF StartSweep, JudgeWorker
<1>3. ASSUME NEW r \in Replicas, Crash(r)
      PROVE  OperatorQuarantines' /\ (Settled => Settled')
  BY <1>3 DEF Crash
<1>4. ASSUME NEW w \in Writers, CommitStatus(w)
      PROVE  OperatorQuarantines' /\ (Settled => Settled')
  BY <1>4 DEF CommitStatus
<1>5. CASE Revoke \/ Age \/ ExpireRegistry
  BY <1>5 DEF Revoke, Age, ExpireRegistry
<1>6. CASE UNCHANGED vars
  BY <1>6 DEF vars
<1> QED
  BY <1>1, <1>2, <1>3, <1>4, <1>5, <1>6 DEF Next

-----------------------------------------------------------------------------

\* The inductive invariant holds in every reachable state.
THEOREM Invariance == Spec => []IInv
<1>1. Init => IInv
  <2> SUFFICES ASSUME Init PROVE SessionInv /\ OperatorQuarantines
    BY InitTyped DEF IInv
  <2>1. SessionInv
    BY DEF Init, SessionInv, EpochsCounted, EpochsNameAttempts, ListenersServe,
        MapEntryIsAlive, ToldAreClosed, UnlistenedIsNewest, ListenersHeard,
        WinnerIsServed, Handshaking, Serving
  <2>2. OperatorQuarantines
    BY DEF Init, OperatorQuarantines, Writers
  <2> QED BY <2>1, <2>2
<1>2. IInv /\ [Next]_vars => IInv'
  BY StepTyped, StepKeepsSessions, StepKeepsWrites DEF IInv
<1> QED
  BY <1>1, <1>2, PTL DEF Spec

\* register_session, the epoch guard of unregister_session and the finally
\* block keep every entry of _local_sessions a live session of its replica,
\* for any number of attempts, replicas and crashes.
THEOREM MapEntryIsAliveHolds == Spec => []MapEntryIsAlive
<1>1. IInv => MapEntryIsAlive
  BY DEF IInv, SessionInv
<1> QED
  BY <1>1, Invariance, PTL

\* The announcement on the control channel closes every older session, or is about
\* to, as long as each was listening when the newer epoch was taken and its
\* listener did not die before it acted.
THEOREM OneWinnerHolds == Spec => []OneWinner
<1>1. IInv => OneWinner
  BY DEF IInv, TypeOK, SessionInv, EpochsCounted, ToldAreClosed, UnlistenedIsNewest,
      ListenersHeard, OneWinner, Serving
<1> QED
  BY <1>1, Invariance, PTL

\* A session that no announcement has superseded is in its replica's map.
THEOREM WinnerIsServedHolds == Spec => []WinnerIsServed
<1>1. IInv => WinnerIsServed
  BY DEF IInv, SessionInv
<1> QED
  BY <1>1, Invariance, PTL

\* INCR never hands out an epoch twice, and the registry names an epoch that
\* was handed out.
THEOREM EpochsNameAttemptsHolds == Spec => []EpochsNameAttempts
<1>1. IInv => EpochsNameAttempts
  BY DEF IInv, SessionInv
<1> QED
  BY <1>1, Invariance, PTL

\* The QUARANTINED guard of _transition_status keeps a settled quarantine.
THEOREM QuarantineSettlesHolds == Spec => QuarantineSettles
<1>1. IInv /\ [Next]_vars => [Settled => Settled']_vars
  BY StepKeepsWrites DEF IInv
<1> QED
  BY <1>1, Invariance, PTL DEF Spec, QuarantineSettles

=============================================================================
