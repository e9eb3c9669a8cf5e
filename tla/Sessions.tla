------------------------------ MODULE Sessions ------------------------------
(***************************************************************************)
(* The sessions of ONE worker id: the handshake of /ws/connect, the        *)
(* eviction of an older session through the Redis control channel, the     *)
(* connection registry, the per-replica map of live sockets, the teardown, *)
(* the worker row's status with its heartbeat sweep, token generations and *)
(* revocation (src/coordinator/app/main.py and assignment.py).             *)
(*                                                                         *)
(* A connection attempt h runs ws_connect on one replica.  Every await of  *)
(* ws_connect that reads or writes shared state ends a step, so the steps  *)
(* of two attempts, of the sweeps and of the operator interleave.          *)
(***************************************************************************)
EXTENDS Naturals

CONSTANTS
    Attempts,       \* connection attempts made with this worker's identity
    Replicas,       \* coordinator processes
    Sweepers,       \* the replicas whose heartbeat sweep is modelled
    None,           \* the absence of an attempt, a write or a snapshot
    Events,         \* what may go wrong: "abandon", "expire", "revoke", "crash",
                    \* "deaf"
    MaxCrashes      \* bound on replica crashes

ASSUME SessionsAssumption ==
    /\ MaxCrashes \in Nat
    /\ Events \subseteq {"abandon", "expire", "revoke", "crash", "deaf"}
    /\ Sweepers \subseteq Replicas
    /\ None \notin Attempts
    /\ Attempts \cap Replicas = {}
    /\ "operator" \notin Attempts \cup Replicas

Statuses == {"REGISTERED", "CONNECTING", "ONLINE", "SUSPECT", "OFFLINE",
             "QUARANTINED"}

ASSUME NoneIsNoStatus == None \notin Statuses

\* Who writes the worker row: a session, a replica's sweep, or the operator.
Writers == Attempts \cup Replicas \cup {"operator"}

\* Where ws_connect stands, named for what has been done.
Handshaking == {"token", "authenticated", "connecting", "numbered",
                "announced", "acked", "online"}
Serving     == {"registered", "reading"}
Closing     == {"unregistered", "owner", "deleted", "offline"}
Ended       == {"idle", "failed", "done"}
Stages      == Handshaking \cup Serving \cup Closing \cup Ended

VARIABLES
    stage,      \* [Attempts -> Stages]
    replica,    \* [Attempts -> Replicas]: where the attempt runs
    token,      \* [Attempts -> Nat]: the generation of its access token
    epoch,      \* [Attempts -> Nat]: its session epoch, 0 before INCR
    open,       \* [Attempts -> BOOLEAN]: the socket can still be read
    listener,   \* [Attempts -> {"off", "starting", "subscribed"}]
    told,       \* attempts whose listener received a newer epoch
    sessions,   \* [Replicas -> Attempts or None]: _local_sessions
    generation, \* Redis worker:{id}:token_gen
    lastEpoch,  \* Redis worker:{id}:session_epoch
    registry,   \* Redis worker:{id}:connection: an epoch, or 0 for no key
    heartbeat,  \* the age of last_heartbeat_at: "fresh", "late", or "lost"
                \* (older than the offline threshold, or the key is gone)
    status,     \* workers.status
    revoked,    \* workers.revoked
    write,      \* [Writers -> Statuses or None]: a status read and not
                \* yet committed
    sweep,      \* [Replicas -> Statuses or None]: the candidate's status as
                \* the sweep's SELECT returned it
    crashes,    \* crashes so far
    unheard     \* ghost: an epoch was taken while another attempt, whose
                \* epoch is older, was not listening, or that attempt's
                \* listener died before it had acted on the newer epoch

\* Redis, and the worker row.
redisVars == <<generation, lastEpoch, registry, heartbeat>>
rowVars   == <<status, revoked>>
\* The socket, its control listener and the map it is registered in.
socketVars == <<open, listener, told, sessions>>
idVars    == <<replica, token, epoch>>

vars == <<stage, idVars, socketVars, redisVars, rowVars, write, sweep,
          crashes, unheard>>

Init ==
    /\ stage = [h \in Attempts |-> "idle"]
    /\ replica \in [Attempts -> Replicas]
    /\ token = [h \in Attempts |-> 0]
    /\ epoch = [h \in Attempts |-> 0]
    /\ open = [h \in Attempts |-> FALSE]
    /\ listener = [h \in Attempts |-> "off"]
    /\ told = {}
    /\ sessions = [r \in Replicas |-> None]
    /\ generation = 0
    /\ lastEpoch = 0
    /\ registry = 0
    /\ heartbeat = "lost"
    /\ status = "REGISTERED"
    /\ revoked = FALSE
    /\ write = [w \in Writers |-> None]
    /\ sweep = [r \in Replicas |-> None]
    /\ crashes = 0
    /\ unheard = FALSE

-----------------------------------------------------------------------------
(***************************************************************************)
(* The worker row.  _transition_status reads the row, returns when it is   *)
(* already in the target state or QUARANTINED, and otherwise assigns the   *)
(* status and commits; the UPDATE does not compare the status it read.     *)
(***************************************************************************)

\* Mutant: the guard for QUARANTINED is missing.
ReadUnguarded(w, new) ==
    write' = [write EXCEPT ![w] = IF status = new THEN None ELSE new]

\* The read: what the writer will commit, if anything.
ReadForTransition(w, new) ==
    write' = [write EXCEPT ![w] =
        IF status \in {new, "QUARANTINED"} THEN None ELSE new]

\* The commit of a status read earlier, by _transition_status or by
\* revoke_worker, which also sets the revoked column.
CommitStatus(w) ==
    /\ write[w] # None
    /\ status' = write[w]
    /\ revoked' = (revoked \/ w = "operator")
    /\ write' = [write EXCEPT ![w] = None]
    /\ UNCHANGED <<stage, idVars, socketVars, redisVars, sweep, crashes, unheard>>

\* revoke_worker reads the row.  A row already QUARANTINED is left as it is.
Revoke ==
    /\ "revoke" \in Events
    /\ write["operator"] = None
    /\ status # "QUARANTINED"
    /\ write' = [write EXCEPT !["operator"] = "QUARANTINED"]
    /\ UNCHANGED <<stage, idVars, socketVars, redisVars, rowVars, sweep,
                   crashes, unheard>>

-----------------------------------------------------------------------------
(***************************************************************************)
(* The handshake.                                                          *)
(***************************************************************************)

\* h's coroutine is at stage `from`, with no transaction of its own open.
At(h, from) == stage[h] = from /\ write[h] = None

Goto(h, to) == stage' = [stage EXCEPT ![h] = to]

\* The worker mints an access token, which supersedes the earlier ones.
RefreshToken(h) ==
    /\ At(h, "idle")
    /\ ~revoked
    /\ generation' = generation + 1
    /\ token' = [token EXCEPT ![h] = generation + 1]
    /\ Goto(h, "token")
    /\ UNCHANGED <<replica, epoch, socketVars, lastEpoch, registry, heartbeat,
                   rowVars, write, sweep, crashes, unheard>>

\* The socket is accepted and the token checked: current generation, and a
\* worker that is not revoked.
Authenticate(h) ==
    /\ At(h, "token")
    /\ IF token[h] = generation /\ ~revoked
          THEN /\ Goto(h, "authenticated")
               /\ open' = [open EXCEPT ![h] = TRUE]
          ELSE /\ Goto(h, "failed")
               /\ UNCHANGED open
    /\ UNCHANGED <<idVars, listener, told, sessions, redisVars, rowVars, write,
                   sweep, crashes, unheard>>

GoConnecting(h) ==
    /\ At(h, "authenticated")
    /\ ReadForTransition(h, "CONNECTING")
    /\ Goto(h, "connecting")
    /\ UNCHANGED <<idVars, socketVars, redisVars, rowVars, sweep, crashes,
                   unheard>>

\* A valid hello was received: INCR of the session epoch.
TakeEpoch(h) ==
    /\ At(h, "connecting")
    /\ lastEpoch' = lastEpoch + 1
    /\ epoch' = [epoch EXCEPT ![h] = lastEpoch + 1]
    /\ unheard' = (unheard \/ \E k \in Attempts \ {h} :
           /\ epoch[k] # 0
           /\ stage[k] \in Handshaking \cup Serving
           /\ listener[k] # "subscribed" /\ k \notin told)
    /\ Goto(h, "numbered")
    /\ UNCHANGED <<replica, token, socketVars, generation, registry, heartbeat,
                   rowVars, write, sweep, crashes>>

\* Mutant: the announcement stays within the process that makes it.
AnnounceLocally(h) ==
    /\ At(h, "numbered")
    /\ told' = told \cup {k \in Attempts : listener[k] = "subscribed"
                                            /\ epoch[k] < epoch[h]
                                            /\ replica[k] = replica[h]}
    /\ Goto(h, "announced")
    /\ UNCHANGED <<idVars, open, listener, sessions, redisVars, rowVars, write,
                   sweep, crashes, unheard>>

\* PUBLISH reaches the listeners subscribed at that moment, on any replica;
\* a listener acts on an epoch newer than its own.
Announce(h) ==
    /\ At(h, "numbered")
    /\ told' = told \cup {k \in Attempts : listener[k] = "subscribed"
                                            /\ epoch[k] < epoch[h]}
    /\ Goto(h, "announced")
    /\ UNCHANGED <<idVars, open, listener, sessions, redisVars, rowVars, write,
                   sweep, crashes, unheard>>

\* SET of the registry key, whatever it holds, then hello_ack.
Record(h) ==
    /\ At(h, "announced")
    /\ registry' = epoch[h]
    /\ Goto(h, "acked")
    /\ UNCHANGED <<idVars, socketVars, generation, lastEpoch, heartbeat,
                   rowVars, write, sweep, crashes, unheard>>

GoOnline(h) ==
    /\ At(h, "acked")
    /\ ReadForTransition(h, "ONLINE")
    /\ Goto(h, "online")
    /\ UNCHANGED <<idVars, socketVars, redisVars, rowVars, sweep, crashes,
                   unheard>>

\* The metrics are seeded; the listener task is created, not yet run; the
\* session overwrites whatever the replica's map holds.
Register(h) ==
    /\ At(h, "online")
    /\ heartbeat' = "fresh"
    /\ listener' = [listener EXCEPT ![h] = "starting"]
    /\ sessions' = [sessions EXCEPT ![replica[h]] = h]
    /\ Goto(h, "registered")
    /\ UNCHANGED <<idVars, open, told, generation, lastEpoch, registry, rowVars,
                   write, sweep, crashes, unheard>>

\* The lease renewal on hello (TaskQueue models the rows it moves), whose
\* failure is swallowed; then the read loop.
EnterReadLoop(h) ==
    /\ At(h, "registered")
    /\ Goto(h, "reading")
    /\ UNCHANGED <<idVars, socketVars, redisVars, rowVars, write, sweep,
                   crashes, unheard>>

\* ws_connect returns or raises before the try block, or an await of the
\* finally block raises: what was already written stays.
Abandon(h) ==
    /\ "abandon" \in Events
    /\ stage[h] \in Handshaking \cup Closing
    /\ write' = [write EXCEPT ![h] = None]
    /\ open' = [open EXCEPT ![h] = FALSE]
    /\ Goto(h, "failed")
    /\ UNCHANGED <<idVars, listener, told, sessions, redisVars, rowVars, sweep,
                   crashes, unheard>>

-----------------------------------------------------------------------------
(***************************************************************************)
(* The established session.                                                *)
(***************************************************************************)

\* The event loop runs the control listener's SUBSCRIBE.
Subscribe(h) ==
    /\ listener[h] = "starting"
    /\ listener' = [listener EXCEPT ![h] = "subscribed"]
    /\ UNCHANGED <<stage, idVars, open, told, sessions, redisVars, rowVars,
                   write, sweep, crashes, unheard>>

\* The listener read a newer epoch: it closes its own socket and returns.
Evict(h) ==
    /\ h \in told
    /\ listener[h] = "subscribed"
    /\ open' = [open EXCEPT ![h] = FALSE]
    /\ listener' = [listener EXCEPT ![h] = "off"]
    /\ UNCHANGED <<stage, idVars, told, sessions, redisVars, rowVars, write,
                   sweep, crashes, unheard>>

\* The SUBSCRIBE or the read of the channel raises (a Redis error): the
\* listener task ends, nobody awaits it, and the session serves on.
ListenerDies(h) ==
    /\ "deaf" \in Events
    /\ listener[h] # "off"
    /\ listener' = [listener EXCEPT ![h] = "off"]
    /\ unheard' = (unheard \/ epoch[h] < lastEpoch)
    /\ UNCHANGED <<stage, idVars, open, told, sessions, redisVars, rowVars,
                   write, sweep, crashes>>

\* The connection breaks, the worker leaves, or nothing arrives within the
\* pong timeout.
SocketEnds(h) ==
    /\ open[h]
    /\ open' = [open EXCEPT ![h] = FALSE]
    /\ UNCHANGED <<stage, idVars, listener, told, sessions, redisVars, rowVars,
                   write, sweep, crashes, unheard>>

\* Mutant: a heartbeat clears a suspicion only.
HeartbeatClearsSuspect(h) ==
    /\ At(h, "reading")
    /\ open[h]
    /\ heartbeat' = "fresh"
    /\ IF status = "SUSPECT" THEN ReadForTransition(h, "ONLINE")
                             ELSE UNCHANGED write
    /\ UNCHANGED <<stage, idVars, socketVars, generation, lastEpoch, registry,
                   rowVars, sweep, crashes, unheard>>

\* A heartbeat is stored and asks for ONLINE.
Heartbeat(h) ==
    /\ At(h, "reading")
    /\ open[h]
    /\ heartbeat' = "fresh"
    /\ ReadForTransition(h, "ONLINE")
    /\ UNCHANGED <<stage, idVars, socketVars, generation, lastEpoch, registry,
                   rowVars, sweep, crashes, unheard>>

-----------------------------------------------------------------------------
(***************************************************************************)
(* The teardown, in the finally block.                                     *)
(***************************************************************************)

\* Mutant: the entry is removed whoever owns it.
UnregisterAny(h) == sessions' = [sessions EXCEPT ![replica[h]] = None]

\* unregister_session: only the entry of this very session is removed.
Unregister(h) ==
    sessions' = [sessions EXCEPT ![replica[h]] = IF @ = h THEN None ELSE @]

\* Mutant: the map entry is released inside the registry guard.
LeaveIfRecorded(h) ==
    /\ At(h, "reading")
    /\ ~open[h]
    /\ listener' = [listener EXCEPT ![h] = "off"]
    /\ IF registry = epoch[h] THEN Unregister(h) ELSE UNCHANGED sessions
    /\ Goto(h, "unregistered")
    /\ UNCHANGED <<idVars, open, told, redisVars, rowVars, write, sweep,
                   crashes, unheard>>

\* The read loop ends; the listener is cancelled and the map entry released.
Leave(h) ==
    /\ At(h, "reading")
    /\ ~open[h]
    /\ listener' = [listener EXCEPT ![h] = "off"]
    /\ Unregister(h)
    /\ Goto(h, "unregistered")
    /\ UNCHANGED <<idVars, open, told, redisVars, rowVars, write, sweep,
                   crashes, unheard>>

\* GET of the registry key: the rest is for the session it names.
CheckRegistry(h) ==
    /\ At(h, "unregistered")
    /\ Goto(h, IF registry = epoch[h] THEN "owner" ELSE "done")
    /\ UNCHANGED <<idVars, socketVars, redisVars, rowVars, write, sweep,
                   crashes, unheard>>

\* DELETE of the registry key, whatever it holds by now.
DeleteKey(h) ==
    /\ At(h, "owner")
    /\ registry' = 0
    /\ Goto(h, "deleted")
    /\ UNCHANGED <<idVars, socketVars, generation, lastEpoch, heartbeat,
                   rowVars, write, sweep, crashes, unheard>>

GoOffline(h) ==
    /\ At(h, "deleted")
    /\ ReadForTransition(h, "OFFLINE")
    /\ Goto(h, "offline")
    /\ UNCHANGED <<idVars, socketVars, redisVars, rowVars, sweep, crashes,
                   unheard>>

\* shorten_local_leases (TaskQueue models the rows it moves).
ShortenLeases(h) ==
    /\ At(h, "offline")
    /\ Goto(h, "done")
    /\ UNCHANGED <<idVars, socketVars, redisVars, rowVars, write, sweep,
                   crashes, unheard>>

-----------------------------------------------------------------------------
(***************************************************************************)
(* Time, the heartbeat sweep of each replica, and crashes.                 *)
(***************************************************************************)

\* last_heartbeat_at grows older, past the SUSPECT and OFFLINE thresholds.
Age ==
    /\ heartbeat # "lost"
    /\ heartbeat' = IF heartbeat = "fresh" THEN "late" ELSE "lost"
    /\ UNCHANGED <<stage, idVars, socketVars, generation, lastEpoch, registry,
                   rowVars, write, sweep, crashes, unheard>>

\* The registry key's TTL runs out; the pongs of a live session prevent it.
ExpireRegistry ==
    /\ "expire" \in Events
    /\ registry # 0
    /\ ~\E h \in Attempts : stage[h] = "reading" /\ open[h]
    /\ registry' = 0
    /\ UNCHANGED <<stage, idVars, socketVars, generation, lastEpoch, heartbeat,
                   rowVars, write, sweep, crashes, unheard>>

\* Mutant: a worker that never finished a handshake is not swept.
SweepEstablished == {"ONLINE", "SUSPECT"}

\* The statuses the sweep looks at.
Sweepable == {"CONNECTING", "ONLINE", "SUSPECT"}

\* The SELECT of _sweep_heartbeats.
StartSweep(r) ==
    /\ sweep[r] = None /\ write[r] = None
    /\ status \in Sweepable
    /\ sweep' = [sweep EXCEPT ![r] = status]
    /\ UNCHANGED <<stage, idVars, socketVars, redisVars, rowVars, write,
                   crashes, unheard>>

\* It reads the age and asks for the transition that follows from it and
\* from the status it selected.
JudgeWorker(r) ==
    /\ sweep[r] # None
    /\ \/ heartbeat = "lost" /\ ReadForTransition(r, "OFFLINE")
       \/ /\ heartbeat = "late" /\ sweep[r] # "SUSPECT"
          /\ ReadForTransition(r, "SUSPECT")
       \/ /\ heartbeat = "fresh" \/ (heartbeat = "late" /\ sweep[r] = "SUSPECT")
          /\ UNCHANGED write
    /\ sweep' = [sweep EXCEPT ![r] = None]
    /\ UNCHANGED <<stage, idVars, socketVars, redisVars, rowVars, crashes,
                   unheard>>

\* A replica dies and restarts: its sockets close, its map is empty, its
\* open transactions are rolled back, and no finally block runs.
Crash(r) ==
    LET lost == {h \in Attempts : replica[h] = r /\ stage[h] \notin Ended \cup {"token"}} IN
    /\ "crash" \in Events /\ crashes < MaxCrashes
    /\ crashes' = crashes + 1
    /\ stage' = [h \in Attempts |-> IF h \in lost THEN "failed" ELSE stage[h]]
    /\ open' = [h \in Attempts |-> h \notin lost /\ open[h]]
    /\ listener' = [h \in Attempts |-> IF h \in lost THEN "off" ELSE listener[h]]
    /\ write' = [w \in Writers |-> IF w \in lost \cup {r} THEN None ELSE write[w]]
    /\ sessions' = [sessions EXCEPT ![r] = None]
    /\ sweep' = [sweep EXCEPT ![r] = None]
    /\ UNCHANGED <<idVars, told, redisVars, rowVars, unheard>>

-----------------------------------------------------------------------------
\* The steps of ws_connect that its event loop owes an attempt.
Proceed(h) ==
    \/ Authenticate(h) \/ GoConnecting(h) \/ TakeEpoch(h) \/ Announce(h)
    \/ Record(h) \/ GoOnline(h) \/ Register(h) \/ EnterReadLoop(h)
    \/ Leave(h) \/ CheckRegistry(h) \/ DeleteKey(h) \/ GoOffline(h)
    \/ ShortenLeases(h)

AttemptStep(h) ==
    \/ Proceed(h) \/ RefreshToken(h) \/ Abandon(h) \/ Subscribe(h) \/ Evict(h)
    \/ ListenerDies(h) \/ SocketEnds(h) \/ Heartbeat(h)

Next ==
    \/ \E h \in Attempts : AttemptStep(h)
    \/ \E r \in Sweepers : StartSweep(r) \/ JudgeWorker(r)
    \/ \E r \in Replicas : Crash(r)
    \/ \E w \in Writers : CommitStatus(w)
    \/ Revoke \/ Age \/ ExpireRegistry

Spec == Init /\ [][Next]_vars

\* The event loop runs every coroutine that can run; a worker with an open
\* socket heartbeats; every replica sweeps for ever; time passes.
Fairness ==
    /\ \A h \in Attempts : /\ WF_vars(Proceed(h))
                           /\ WF_vars(Subscribe(h))
                           /\ WF_vars(Evict(h))
                           /\ WF_vars(Heartbeat(h))
    /\ \A r \in Sweepers : WF_vars(StartSweep(r)) /\ WF_vars(JudgeWorker(r))
    /\ \A w \in Writers : WF_vars(CommitStatus(w))
    /\ WF_vars(Age)

FairSpec == Spec /\ Fairness

-----------------------------------------------------------------------------
(***************************************************************************)
(* Properties.                                                             *)
(***************************************************************************)

\* The state ranges over what ws_connect, Redis and the worker row hold.
TypeOK ==
    /\ stage \in [Attempts -> Stages]
    /\ replica \in [Attempts -> Replicas]
    /\ token \in [Attempts -> Nat] /\ epoch \in [Attempts -> Nat]
    /\ open \in [Attempts -> BOOLEAN]
    /\ listener \in [Attempts -> {"off", "starting", "subscribed"}]
    /\ told \subseteq Attempts
    /\ sessions \in [Replicas -> Attempts \cup {None}]
    /\ generation \in Nat /\ lastEpoch \in Nat /\ registry \in Nat
    /\ heartbeat \in {"fresh", "late", "lost"}
    /\ status \in Statuses
    /\ revoked \in BOOLEAN /\ unheard \in BOOLEAN
    /\ write \in [Writers -> Statuses \cup {None}]
    /\ sweep \in [Replicas -> Sweepable \cup {None}]
    /\ crashes \in Nat

\* The assignment engine never holds a socket that has been torn down: an
\* entry of _local_sessions is a session of this replica still between
\* register_session and the end of its read loop, however attempts overlap,
\* fail half-way or lose their registry key.
MapEntryIsAlive ==
    \A r \in Replicas : sessions[r] # None =>
        /\ stage[sessions[r]] \in Serving
        /\ replica[sessions[r]] = r

\* One winner: unless some newer epoch went unheard, because it was taken
\* while an older session was not yet listening or because that session's
\* listener died, of two serving sessions the older one is closed, or its
\* listener holds the newer epoch and is about to close it.
OneWinner ==
    ~unheard => \A h, k \in Attempts :
        (/\ stage[h] \in Serving /\ stage[k] \in Serving
         /\ epoch[h] < epoch[k])
            => ~open[h] \/ (listener[h] = "subscribed" /\ h \in told)

\* Under the same condition the teardown of an older session, which runs
\* after the newer one has registered, leaves the newer one in its replica's
\* map: a session that no announcement has superseded is offered work.
WinnerIsServed ==
    ~unheard => \A k \in Attempts :
        stage[k] \in Serving /\ k \notin told => sessions[replica[k]] = k

\* A session epoch belongs to one attempt, and the registry never names an
\* epoch that no attempt took: the guards of the teardown, which compare
\* epochs, tell sessions apart.
EpochsNameAttempts ==
    /\ \A h, k \in Attempts : epoch[h] = epoch[k] /\ epoch[h] # 0 => h = k
    /\ registry # 0 => \E h \in Attempts : epoch[h] = registry

\* The worker is quarantined and nobody but the operator holds a status
\* that was read earlier.
Settled ==
    /\ status = "QUARANTINED"
    /\ \A w \in Writers \ {"operator"} : write[w] = None

\* Once the transitions that were under way when the operator revoked a
\* worker have committed and left it quarantined, it stays quarantined, for
\* all the heartbeats, handshakes, disconnects and sweeps that follow.
QuarantineSettles == [][Settled => Settled']_vars

\* A worker none of whose attempts is under way any more, whether they
\* failed, were torn down or died with their replica, ends up shown neither
\* CONNECTING, ONLINE nor SUSPECT.
GoneWorkerGoesOffline ==
    <>[](\A h \in Attempts : stage[h] \in Ended)
        => <>[](status \notin {"CONNECTING", "ONLINE", "SUSPECT"})

\* A worker that is not revoked and keeps one session open is shown ONLINE
\* again and again, whatever older sessions' teardowns and stale sweeps
\* write over it.
LiveWorkerIsOnline ==
    \A h \in Attempts :
        <>[](stage[h] = "reading" /\ open[h] /\ ~revoked)
            => []<>(status = "ONLINE")

-----------------------------------------------------------------------------
(***************************************************************************)
(* What comments of the code say and the code does not keep.               *)
(***************************************************************************)

\* "QUARANTINED is sticky: nothing here can transition a worker back out of
\* it" (_transition_status).
QuarantineIsSticky ==
    [][status = "QUARANTINED" => status' = "QUARANTINED"]_vars

=============================================================================
