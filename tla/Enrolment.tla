----------------------------- MODULE Enrolment ------------------------------
(***************************************************************************)
(* How a worker process comes up: the single-instance lock, the identity   *)
(* file, registration or reaffirmation, the duplicate-use claim, the rate  *)
(* limiter, the access token and the release at shutdown (worker.py and    *)
(* the enrolment endpoints of coordinator/app/main.py).                    *)
(*                                                                         *)
(* A process waits for the answer of the one request it has made; the      *)
(* request is served step by step, and goes on when the process that made  *)
(* it is killed.  A slot of Processes is started again once its last       *)
(* request is over; another slot of the same machine need not wait.        *)
(* Redis keys with a TTL go at any moment after they are set.              *)
(***************************************************************************)
EXTENDS Naturals, FiniteSets

CONSTANTS
    Machines,       \* hosts: one lock file, identity file and address each
    Processes,      \* process slots of the supervisor
    Host,           \* the machine of a slot
    Workers,        \* the worker ids the database may generate
    None,
    RateLimit,      \* REGISTER_RATE_LIMIT_PER_MINUTE
    MaxFaults,      \* bound on kills and on requests lost by the coordinator
    MaxSignals      \* bound on SIGTERMs

\* What the identity file holds while write_text has truncated it.
Torn == "torn"

ASSUME ConstantsAssumption ==
    /\ Host \in [Processes -> Machines]
    /\ None \notin Machines \cup Processes \cup Workers \cup {Torn}
    /\ Torn \notin Workers
    /\ IsFiniteSet(Processes) /\ IsFiniteSet(Workers)
    /\ RateLimit \in Nat \ {0}
    /\ MaxFaults \in Nat
    /\ MaxSignals \in Nat

VARIABLES
    lock,       \* per machine: the process that holds the lock file
    file,       \* per machine: the identity file
    pc,         \* per process: where it is
    identity,   \* per process: the identity it has loaded or been given
    request,    \* per process: how far its request has been served
    subject,    \* per process: the worker its request is about
    rows,       \* the workers table: absent, enrolled or revoked
    made,       \* registration_metadata: the machine that enrolled the worker
    claim,      \* worker:<id>:claim, by whom it was set
    count,      \* register:ratelimit:<address>, capped at RateLimit + 1
    expires,    \* that key has an expiry
    newest,     \* per worker: whose refresh took the newest token generation
    refused,    \* history: processes answered 409
    faults,     \* kills and lost requests so far
    signals     \* SIGTERMs so far

local == <<lock, file, pc, identity>>
redis == <<claim, count, expires, newest>>
history == <<refused, faults, signals>>
vars == <<local, request, subject, rows, made, redis, history>>

Here(m) == {p \in Processes : Host[p] = m}

TypeOK ==
    /\ lock \in [Machines -> Processes \cup {None}]
    /\ file \in [Machines -> Workers \cup {None, Torn}]
    /\ pc \in [Processes -> {"down", "locked", "registering", "enrolled", "saving",
                             "up", "refreshing", "token", "connected", "releasing"}]
    /\ identity \in [Processes -> Workers \cup {None}]
    /\ request \in [Processes -> {"none", "register", "expire", "admit", "created",
                                  "refresh", "minted", "release"}]
    /\ subject \in [Processes -> Workers \cup {None}]
    /\ rows \in [Workers -> {"absent", "enrolled", "revoked"}]
    /\ made \in [Workers -> Machines \cup {None}]
    /\ claim \in [Workers -> Processes \cup {None}]
    /\ count \in [Machines -> 0..(RateLimit + 1)]
    /\ expires \in [Machines -> BOOLEAN]
    /\ newest \in [Workers -> Processes \cup {None}]
    /\ refused \subseteq Processes
    /\ faults \in 0..MaxFaults
    /\ signals \in 0..MaxSignals

Init ==
    /\ lock = [m \in Machines |-> None]
    /\ file = [m \in Machines |-> None]
    /\ pc = [p \in Processes |-> "down"]
    /\ identity = [p \in Processes |-> None]
    /\ request = [p \in Processes |-> "none"]
    /\ subject = [p \in Processes |-> None]
    /\ rows = [w \in Workers |-> "absent"]
    /\ made = [w \in Workers |-> None]
    /\ claim = [w \in Workers |-> None]
    /\ count = [m \in Machines |-> 0]
    /\ expires = [m \in Machines |-> FALSE]
    /\ newest = [w \in Workers |-> None]
    /\ refused = {} /\ faults = 0 /\ signals = 0

-----------------------------------------------------------------------------
(* The process *)

\* The process is gone, and the operating system frees its lock.
Exit(p) ==
    /\ pc' = [pc EXCEPT ![p] = "down"]
    /\ lock' = [lock EXCEPT ![Host[p]] = IF @ = p THEN None ELSE @]
    /\ identity' = [identity EXCEPT ![p] = None]
    /\ UNCHANGED file

\* The process that waits at one point goes on; one that is dead does not.
Answer(p, from, to) ==
    /\ pc' = [pc EXCEPT ![p] = IF @ = from THEN to ELSE @]
    /\ UNCHANGED <<lock, file>>

\* sys.exit(1) on the answer, if anyone waits for it.
Rejected(p) ==
    IF pc[p] = "registering" THEN Exit(p) ELSE UNCHANGED local

\* Mutated form of Start: the lock is not taken exclusively.
StartUnlocked(p) ==
    /\ pc[p] = "down" /\ request[p] = "none"
    /\ lock' = [lock EXCEPT ![Host[p]] = p]
    /\ pc' = [pc EXCEPT ![p] = "locked"]
    /\ UNCHANGED <<file, identity, request, subject, rows, made, redis, history>>

\* main: _acquire_single_instance_lock.  A process that finds the lock taken
\* exits at once.
Start(p) ==
    /\ pc[p] = "down" /\ request[p] = "none"
    /\ lock[Host[p]] = None
    /\ lock' = [lock EXCEPT ![Host[p]] = p]
    /\ pc' = [pc EXCEPT ![p] = "locked"]
    /\ UNCHANGED <<file, identity, request, subject, rows, made, redis, history>>

\* Mutated form of Register: whatever the file holds is taken for an identity.
RegisterUnparsed(p) ==
    /\ pc[p] = "locked"
    /\ pc' = [pc EXCEPT ![p] = "registering"]
    /\ identity' = [identity EXCEPT ![p] = file[Host[p]]]
    /\ subject' = [subject EXCEPT ![p] = file[Host[p]]]
    /\ request' = [request EXCEPT ![p] = "register"]
    /\ UNCHANGED <<lock, file, rows, made, redis, history>>

\* _register_or_reaffirm: load the identity file, and post what it says.
Register(p) ==
    /\ pc[p] = "locked"
    /\ file[Host[p]] # Torn
    /\ pc' = [pc EXCEPT ![p] = "registering"]
    /\ identity' = [identity EXCEPT ![p] = file[Host[p]]]
    /\ subject' = [subject EXCEPT ![p] = file[Host[p]]]
    /\ request' = [request EXCEPT ![p] = "register"]
    /\ UNCHANGED <<lock, file, rows, made, redis, history>>

\* _load_identity of a file cut short: the parse error ends the process.
LoadFails(p) ==
    /\ pc[p] = "locked"
    /\ file[Host[p]] = Torn
    /\ Exit(p)
    /\ UNCHANGED <<request, subject, rows, made, redis, history>>

\* _save_identity: write_text truncates the file, then fills it.
SaveBegins(p) ==
    /\ pc[p] = "enrolled"
    /\ pc' = [pc EXCEPT ![p] = "saving"]
    /\ file' = [file EXCEPT ![Host[p]] = Torn]
    /\ UNCHANGED <<lock, identity, request, subject, rows, made, redis, history>>

SaveEnds(p) ==
    /\ pc[p] = "saving"
    /\ pc' = [pc EXCEPT ![p] = "up"]
    /\ file' = [file EXCEPT ![Host[p]] = identity[p]]
    /\ UNCHANGED <<lock, identity, request, subject, rows, made, redis, history>>

\* _run_ws_forever: every attempt to connect begins with a token refresh.
AskToken(p) ==
    /\ pc[p] = "up"
    /\ pc' = [pc EXCEPT ![p] = "refreshing"]
    /\ subject' = [subject EXCEPT ![p] = identity[p]]
    /\ request' = [request EXCEPT ![p] = "refresh"]
    /\ UNCHANGED <<lock, file, identity, rows, made, redis, history>>

\* The session ends for whatever reason; the loop backs off and tries again.
SessionEnds(p) ==
    /\ pc[p] = "connected"
    /\ pc' = [pc EXCEPT ![p] = "up"]
    /\ UNCHANGED <<lock, file, identity, request, subject, rows, made, redis, history>>

\* _on_sigterm, once the process is up: _release_claim, then the exit.  It is
\* taken between requests.
SigTerm(p) ==
    /\ pc[p] \in {"up", "token", "connected"}
    /\ signals < MaxSignals
    /\ signals' = signals + 1
    /\ pc' = [pc EXCEPT ![p] = "releasing"]
    /\ subject' = [subject EXCEPT ![p] = identity[p]]
    /\ request' = [request EXCEPT ![p] = "release"]
    /\ UNCHANGED <<lock, file, identity, rows, made, redis, refused, faults>>

\* SIGKILL, a power cut, or a SIGTERM before the handler is installed.
Kill(p) ==
    /\ pc[p] # "down"
    /\ faults < MaxFaults
    /\ faults' = faults + 1
    /\ Exit(p)
    /\ UNCHANGED <<request, subject, rows, made, redis, refused, signals>>

-----------------------------------------------------------------------------
(* Registration, at the coordinator *)

Served(p) ==
    /\ request' = [request EXCEPT ![p] = "none"]
    /\ subject' = [subject EXCEPT ![p] = None]

\* _fixed_window_limited: INCR.  The first of a window goes on to set the
\* expiry; a later one is judged at once.
Count(p) ==
    /\ request[p] = "register"
    /\ LET m == Host[p]
           n == IF count[m] > RateLimit THEN count[m] ELSE count[m] + 1
       IN  /\ count' = [count EXCEPT ![m] = n]
           /\ \/ /\ n = 1
                 /\ request' = [request EXCEPT ![p] = "expire"]
                 /\ UNCHANGED <<subject, local>>
              \/ /\ n \in 2..RateLimit
                 /\ request' = [request EXCEPT ![p] = "admit"]
                 /\ UNCHANGED <<subject, local>>
              \/ /\ n > RateLimit
                 /\ Served(p)
                 /\ Rejected(p)
    /\ UNCHANGED <<rows, made, claim, expires, newest, history>>

\* EXPIRE, on a key another request's window may have taken with it since.
SetExpiry(p) ==
    /\ request[p] = "expire"
    /\ expires' = [expires EXCEPT ![Host[p]] = count[Host[p]] > 0]
    /\ request' = [request EXCEPT ![p] = "admit"]
    /\ UNCHANGED <<subject, local, rows, made, claim, count, newest, history>>

\* register_worker, the reaffirmation: the row and its credential, then the
\* claim with NX.
Reaffirm(p) ==
    /\ request[p] = "admit" /\ subject[p] # None
    /\ LET w == subject[p]
       IN  \/ /\ rows[w] = "enrolled" /\ claim[w] = None
              /\ claim' = [claim EXCEPT ![w] = p]
              /\ Answer(p, "registering", "up")
              /\ UNCHANGED <<identity, refused>>
           \/ /\ rows[w] = "enrolled" /\ claim[w] # None
              /\ refused' = refused \cup {p}
              /\ Rejected(p)
              /\ UNCHANGED claim
           \/ /\ rows[w] # "enrolled"
              /\ Rejected(p)
              /\ UNCHANGED <<claim, refused>>
    /\ Served(p)
    /\ UNCHANGED <<rows, made, count, expires, newest, faults, signals>>

\* Mutated form of Enrol: the commit is left to the end of the request.
EnrolUncommitted(p) ==
    /\ request[p] = "admit" /\ subject[p] = None
    /\ \E v \in Workers : rows[v] = "absent"
    /\ subject' = [subject EXCEPT ![p] = CHOOSE w \in Workers : rows[w] = "absent"]
    /\ request' = [request EXCEPT ![p] = "created"]
    /\ UNCHANGED <<rows, made, local, redis, history>>

\* register_worker, a new worker: the row is committed first.
Enrol(p) ==
    /\ request[p] = "admit" /\ subject[p] = None
    /\ LET w == CHOOSE w \in Workers : rows[w] = "absent"
       IN  /\ \E v \in Workers : rows[v] = "absent"
           /\ rows' = [rows EXCEPT ![w] = "enrolled"]
           /\ made' = [made EXCEPT ![w] = Host[p]]
           /\ subject' = [subject EXCEPT ![p] = w]
    /\ request' = [request EXCEPT ![p] = "created"]
    /\ UNCHANGED <<local, redis, history>>

\* Then the claim, without NX, and the answer with the credential.
ClaimNew(p) ==
    /\ request[p] = "created"
    /\ claim' = [claim EXCEPT ![subject[p]] = p]
    /\ identity' = [identity EXCEPT ![p] =
                       IF pc[p] = "registering" THEN subject[p] ELSE @]
    /\ Answer(p, "registering", "enrolled")
    /\ Served(p)
    /\ UNCHANGED <<rows, made, count, expires, newest, history>>

\* Mutated form of Release: the claim is left to expire.
ReleaseKeeping(p) ==
    /\ request[p] = "release"
    /\ Served(p)
    /\ IF pc[p] = "releasing" THEN Exit(p) ELSE UNCHANGED local
    /\ UNCHANGED <<rows, made, redis, history>>

\* release_worker: DEL, whoever set the claim; the process exits on the answer.
Release(p) ==
    /\ request[p] = "release"
    /\ claim' = [claim EXCEPT ![subject[p]] = None]
    /\ Served(p)
    /\ IF pc[p] = "releasing" THEN Exit(p) ELSE UNCHANGED local
    /\ UNCHANGED <<rows, made, count, expires, newest, history>>

-----------------------------------------------------------------------------
(* Tokens *)

\* refresh_token: the row and its credential, then INCR of the generation.
Mint(p) ==
    /\ request[p] = "refresh"
    /\ \/ /\ rows[subject[p]] = "enrolled"
          /\ newest' = [newest EXCEPT ![subject[p]] = p]
          /\ request' = [request EXCEPT ![p] = "minted"]
          /\ UNCHANGED <<subject, local>>
       \/ /\ rows[subject[p]] # "enrolled"
          /\ Served(p)
          /\ Answer(p, "refreshing", "up")
          /\ UNCHANGED <<identity, newest>>
    /\ UNCHANGED <<rows, made, claim, count, expires, history>>

\* refresh_token: the record of the token, and the answer.
StoreToken(p) ==
    /\ request[p] = "minted"
    /\ Served(p)
    /\ Answer(p, "refreshing", "token")
    /\ UNCHANGED <<identity, rows, made, redis, history>>

\* verify_token and _authenticate_ws_token: the generation is still the newest
\* and the worker is not revoked.
TokenValid(p) == newest[identity[p]] = p /\ rows[identity[p]] = "enrolled"

\* Mutated form of Connect: a refused handshake is tried again with the token the
\* process has.
ConnectKeepingToken(p) ==
    /\ pc[p] = "token"
    /\ pc' = [pc EXCEPT ![p] = IF TokenValid(p) THEN "connected" ELSE "token"]
    /\ UNCHANGED <<lock, file, identity, request, subject, rows, made, redis, history>>

\* The handshake with the token: a session, or another round of backoff.
Connect(p) ==
    /\ pc[p] = "token"
    /\ pc' = [pc EXCEPT ![p] = IF TokenValid(p) THEN "connected" ELSE "up"]
    /\ UNCHANGED <<lock, file, identity, request, subject, rows, made, redis, history>>

-----------------------------------------------------------------------------
(* Time and faults *)

\* WORKER_CLAIM_TTL_SECONDS after it was set.
ClaimExpires(w) ==
    /\ claim[w] # None
    /\ claim' = [claim EXCEPT ![w] = None]
    /\ UNCHANGED <<local, request, subject, rows, made, count, expires, newest, history>>

\* RATE_LIMIT_WINDOW_SECONDS after the expiry was set.
WindowEnds(m) ==
    /\ expires[m]
    /\ count' = [count EXCEPT ![m] = 0]
    /\ expires' = [expires EXCEPT ![m] = FALSE]
    /\ UNCHANGED <<local, request, subject, rows, made, claim, newest, history>>

\* The replica that serves a request dies, or Redis or the database fails it:
\* what it has written stays.  _post raises; at start that ends the process, the
\* connection loop backs off, and the release swallows it and exits.  A request
\* goes on after a process that is gone, not after a call that timed out.
RequestLost(p) ==
    /\ request[p] # "none"
    /\ faults < MaxFaults
    /\ faults' = faults + 1
    /\ Served(p)
    /\ \/ /\ pc[p] \in {"registering", "releasing"}
          /\ Exit(p)
       \/ /\ pc[p] \notin {"registering", "releasing"}
          /\ Answer(p, "refreshing", "up")
          /\ UNCHANGED identity
    /\ UNCHANGED <<rows, made, redis, refused, signals>>

\* revoke_worker
Revoke(w) ==
    /\ rows[w] = "enrolled"
    /\ rows' = [rows EXCEPT ![w] = "revoked"]
    /\ UNCHANGED <<local, request, subject, made, redis, history>>

Process(p) ==
    \/ Register(p) \/ LoadFails(p) \/ SaveBegins(p) \/ SaveEnds(p)
    \/ AskToken(p) \/ Connect(p)

Coordinator(p) ==
    \/ Count(p) \/ SetExpiry(p) \/ Reaffirm(p) \/ Enrol(p) \/ ClaimNew(p)
    \/ Release(p) \/ Mint(p) \/ StoreToken(p)

Next ==
    \/ \E p \in Processes : \/ Start(p) \/ Process(p) \/ Coordinator(p)
                            \/ SessionEnds(p) \/ SigTerm(p) \/ Kill(p)
                            \/ RequestLost(p)
    \/ \E w \in Workers : ClaimExpires(w) \/ Revoke(w)
    \/ \E m \in Machines : WindowEnds(m)

Spec == Init /\ [][Next]_vars

\* The supervisor starts a machine's worker again whenever it is down, a process
\* and the coordinator get on with what they are doing, and TTLs run out.
Fairness ==
    /\ \A m \in Machines : /\ WF_vars(\E p \in Here(m) : Start(p))
                           /\ WF_vars(WindowEnds(m))
    /\ \A p \in Processes : /\ WF_vars(Process(p))
                            /\ WF_vars(Coordinator(p))
    /\ \A w \in Workers : WF_vars(ClaimExpires(w))

FairSpec == Spec /\ Fairness

-----------------------------------------------------------------------------
(* Properties *)

\* _acquire_single_instance_lock before _load_identity: two processes started on
\* one machine do not both find no identity file and enrol.  Only an enrolment
\* cut short, by the process or by the coordinator, leaves a worker behind that
\* nobody speaks for.
EnrolsOnce ==
    \A m \in Machines : Cardinality({w \in Workers : made[w] = m}) <= 1 + faults

\* register_worker commits the row before the answer that carries the credential:
\* an identity a process uses, and one it has saved, is always one the database
\* knows; and a process that is up speaks for the identity its machine keeps.
IdentityIsKnown ==
    /\ \A p \in Processes : identity[p] # None => rows[identity[p]] # "absent"
    /\ \A m \in Machines : file[m] \in Workers => rows[file[m]] # "absent"
    /\ \A p \in Processes :
          pc[p] \in {"up", "refreshing", "token", "connected", "releasing"}
              => identity[p] = file[Host[p]]

\* release_worker: "so a normal restart never trips the duplicate-use check in
\* register_worker".  Without kills and lost requests no start is answered 409,
\* however starts and SIGTERMs of the slots follow each other (a SIGTERM before
\* the handler is installed is a kill).
RestartIsNotADuplicate == faults = 0 => refused = {}

\* What a restart does not repair: an identity file torn by a process that is
\* gone, a rate counter whose request was lost before the expiry was set, and a
\* revoked worker.
Broken(m) ==
    \/ file[m] = Torn /\ \A p \in Here(m) : pc[p] # "saving"
    \/ count[m] > 0 /\ ~expires[m] /\ \A p \in Here(m) : request[p] # "expire"
    \/ file[m] \in Workers /\ rows[file[m]] = "revoked"

\* A worker whose supervisor keeps starting it gets a session again and again,
\* through claims it left behind, used-up rate windows, lost requests and tokens
\* that a request of its dead predecessor supersedes, unless its machine is
\* Broken.
WorkerComesUp ==
    \A m \in Machines :
        []<>(Broken(m) \/ \E p \in Here(m) : pc[p] = "connected")

=============================================================================
