-------------------------- MODULE EnrolmentProofs ---------------------------
(***************************************************************************)
(* Proofs about Enrolment, for any number of machines, process slots,      *)
(* worker ids, kills, lost requests and signals.                           *)
(***************************************************************************)
EXTENDS Enrolment, FiniteSetTheorems, TLAPS

-----------------------------------------------------------------------------
(***************************************************************************)
(* Types, the lock and the names.                                          *)
(***************************************************************************)

\* The initial state is typed.
LEMMA InitTyped == Init => TypeOK
<1> SUFFICES ASSUME Init PROVE TypeOK
  OBVIOUS
<1>1. expires \in [Machines -> BOOLEAN]
  BY DEF Init
<1> QED
  BY <1>1, ConstantsAssumption DEF Init, TypeOK

\* Every step keeps the types.
LEMMA StepTyped == TypeOK /\ [Next]_vars => TypeOK'
<1> SUFFICES ASSUME TypeOK, [Next]_vars PROVE TypeOK'
  OBVIOUS
<1> USE ConstantsAssumption
        DEF TypeOK, local, redis, history, Exit, Answer, Rejected, Served
<1>1. ASSUME NEW p \in Processes, Process(p) PROVE TypeOK'
  <2>1. CASE Register(p) BY <2>1 DEF Register
  <2>2. CASE LoadFails(p) BY <2>2 DEF LoadFails
  <2>3. CASE SaveBegins(p) BY <2>3 DEF SaveBegins
  <2>4. CASE SaveEnds(p) BY <2>4 DEF SaveEnds
  <2>5. CASE AskToken(p) BY <2>5 DEF AskToken
  <2>6. CASE Connect(p) BY <2>6 DEF Connect
  <2> QED BY <1>1, <2>1, <2>2, <2>3, <2>4, <2>5, <2>6 DEF Process
<1>2. ASSUME NEW p \in Processes, Coordinator(p) PROVE TypeOK'
  <2>1. CASE Count(p) BY <2>1 DEF Count
  <2>2. CASE SetExpiry(p)
    <3>1. expires' \in [Machines -> BOOLEAN] BY <2>2 DEF SetExpiry
    <3> QED BY <2>2, <3>1 DEF SetExpiry
  <2>3. CASE Reaffirm(p) BY <2>3 DEF Reaffirm
  <2>4. CASE Enrol(p) BY <2>4 DEF Enrol
  <2>5. CASE ClaimNew(p) BY <2>5 DEF ClaimNew
  <2>6. CASE Release(p)
    <3>1. CASE pc[p] = "releasing"
      <4>1. claim' \in [Workers -> Processes \cup {None}]
        BY <2>6 DEF Release
      <4>2. /\ lock' \in [Machines -> Processes \cup {None}]
            /\ pc' = [pc EXCEPT ![p] = "down"]
            /\ identity' = [identity EXCEPT ![p] = None]
        BY <2>6, <3>1 DEF Release
      <4> QED BY <2>6, <3>1, <4>1, <4>2 DEF Release
    <3>2. CASE pc[p] # "releasing" BY <2>6, <3>2 DEF Release
    <3> QED BY <3>1, <3>2
  <2>7. CASE Mint(p) BY <2>7 DEF Mint
  <2>8. CASE StoreToken(p) BY <2>8 DEF StoreToken
  <2> QED BY <1>2, <2>1, <2>2, <2>3, <2>4, <2>5, <2>6, <2>7, <2>8 DEF Coordinator
<1>3. ASSUME NEW p \in Processes,
             Start(p) \/ SessionEnds(p) \/ SigTerm(p) \/ Kill(p) \/ RequestLost(p)
      PROVE  TypeOK'
  <2>1. CASE Start(p) BY <2>1 DEF Start
  <2>2. CASE SessionEnds(p) BY <2>2 DEF SessionEnds
  <2>3. CASE SigTerm(p) BY <2>3 DEF SigTerm
  <2>4. CASE Kill(p) BY <2>4 DEF Kill
  <2>5. CASE RequestLost(p) BY <2>5 DEF RequestLost
  <2> QED BY <1>3, <2>1, <2>2, <2>3, <2>4, <2>5
<1>4. ASSUME NEW w \in Workers, ClaimExpires(w) \/ Revoke(w) PROVE TypeOK'
  BY <1>4 DEF ClaimExpires, Revoke
<1>5. ASSUME NEW m \in Machines, WindowEnds(m) PROVE TypeOK'
  BY <1>5 DEF WindowEnds
<1>6. CASE UNCHANGED vars
  BY <1>6 DEF vars
<1> QED
  BY <1>1, <1>2, <1>3, <1>4, <1>5, <1>6 DEF Next

\* worker.py and the enrolment endpoints keep every variable in its type.
THEOREM TypeCorrect == Spec => []TypeOK
<1> QED
  BY InitTyped, StepTyped, PTL DEF Spec

-----------------------------------------------------------------------------
(***************************************************************************)
(* The inductive invariant.                                                *)
(***************************************************************************)

Registering == {"register", "expire", "admit"}
UpStages == {"up", "refreshing", "token", "connected", "releasing"}

\* The lock file: a process that runs holds the lock of its machine, and so is
\* the only one of its machine that runs.
LockHeld == \A p \in Processes : pc[p] # "down" => lock[Host[p]] = p

\* Which request a process waits for.  The request of a process that is gone may
\* still be served.
WaitsForOwnRequest ==
    \A p \in Processes :
        /\ pc[p] = "registering" => request[p] \in Registering \cup {"created"}
        /\ pc[p] \in {"locked", "enrolled", "saving", "up", "token", "connected"}
              => request[p] = "none"
        /\ request[p] = "created" => subject[p] # None

\* The identity a process uses is the one its file holds, from the load on,
\* unless it is saving a new one; and it is never lost again.
IdentityIsFile ==
    \A p \in Processes :
        /\ pc[p] \in UpStages \cup {"registering"} => identity[p] = file[Host[p]]
        /\ pc[p] \in UpStages \cup {"enrolled", "saving"} => identity[p] # None
        /\ pc[p] = "registering" /\ request[p] \in Registering
              => subject[p] = identity[p]

\* Whoever is named in a process, a request or a file is a committed row of the
\* machine that names it.
NamesAreCommitted ==
    /\ \A p \in Processes :
          /\ identity[p] # None
                => rows[identity[p]] # "absent" /\ made[identity[p]] = Host[p]
          /\ subject[p] # None
                => rows[subject[p]] # "absent" /\ made[subject[p]] = Host[p]
    /\ \A m \in Machines : file[m] \in Workers
          => rows[file[m]] # "absent" /\ made[file[m]] = m

\* Before the first fault no request outlives its process, a torn file is being
\* written, and a claim on the identity of a machine belongs to a process that is
\* up there.
QuietUntilFault ==
    faults = 0 =>
        /\ refused = {}
        /\ \A p \in Processes :
              /\ request[p] \in Registering \cup {"created"} => pc[p] = "registering"
              /\ request[p] \in {"refresh", "minted"} => pc[p] = "refreshing"
              /\ request[p] = "release" =>
                    pc[p] = "releasing" /\ subject[p] = identity[p]
              /\ request[p] = "created" => identity[p] = None
        /\ \A m \in Machines :
              /\ file[m] = Torn => \E p \in Here(m) : pc[p] = "saving"
              /\ file[m] \in Workers /\ claim[file[m]] # None =>
                    \E p \in Here(m) : pc[p] \in UpStages

\* The workers a machine has enrolled, the requests under way that may enrol one
\* more, and whether the next start may ask for one.
Enrolled(m) == {w \in Workers : made[w] = m}
Openings(m) == {p \in Processes : /\ Host[p] = m /\ subject[p] = None
                                  /\ request[p] \in Registering}
MayOpen(m) == file[m] = None /\ \A p \in Here(m) : pc[p] \in {"down", "locked"}

\* Only a fault makes room for one more.
EnrolmentsCounted ==
    \A m \in Machines :
        Cardinality(Enrolled(m)) + Cardinality(Openings(m))
            + (IF MayOpen(m) THEN 1 ELSE 0) <= 1 + faults

BaseInv == /\ TypeOK /\ LockHeld /\ WaitsForOwnRequest /\ IdentityIsFile
           /\ NamesAreCommitted
IInv == BaseInv /\ QuietUntilFault /\ EnrolmentsCounted

\* Every step keeps the lock, the waiting, the file and the names.
LEMMA StepKeepsNames ==
    ASSUME BaseInv, [Next]_vars
    PROVE  (LockHeld /\ WaitsForOwnRequest /\ IdentityIsFile /\ NamesAreCommitted)'
<1> DEFINE Goal == LockHeld /\ WaitsForOwnRequest /\ IdentityIsFile /\ NamesAreCommitted
<1> USE ConstantsAssumption
        DEF BaseInv, TypeOK, LockHeld, WaitsForOwnRequest, IdentityIsFile,
            NamesAreCommitted, UpStages, Registering, Torn,
            local, redis, history, Exit, Answer, Rejected, Served
<1>1. ASSUME NEW p \in Processes, Process(p) PROVE Goal'
  <2>1. CASE Register(p) BY <2>1 DEF Register
  <2>2. CASE LoadFails(p) BY <2>2 DEF LoadFails
  <2>3. CASE SaveBegins(p) BY <2>3 DEF SaveBegins
  <2>4. CASE SaveEnds(p) BY <2>4 DEF SaveEnds
  <2>5. CASE AskToken(p) BY <2>5 DEF AskToken
  <2>6. CASE Connect(p) BY <2>6 DEF Connect
  <2> QED BY <1>1, <2>1, <2>2, <2>3, <2>4, <2>5, <2>6 DEF Process
<1>2. ASSUME NEW p \in Processes, Coordinator(p) PROVE Goal'
  <2>1. CASE Count(p) BY <2>1 DEF Count
  <2>2. CASE SetExpiry(p) BY <2>2 DEF SetExpiry
  <2>3. CASE Reaffirm(p) BY <2>3 DEF Reaffirm
  <2>4. CASE Enrol(p) BY <2>4 DEF Enrol
  <2>5. CASE ClaimNew(p) BY <2>5 DEF ClaimNew
  <2>6. CASE Release(p) BY <2>6 DEF Release
  <2>7. CASE Mint(p) BY <2>7 DEF Mint
  <2>8. CASE StoreToken(p) BY <2>8 DEF StoreToken
  <2> QED BY <1>2, <2>1, <2>2, <2>3, <2>4, <2>5, <2>6, <2>7, <2>8 DEF Coordinator
<1>3. ASSUME NEW p \in Processes,
             Start(p) \/ SessionEnds(p) \/ SigTerm(p) \/ Kill(p) \/ RequestLost(p)
      PROVE  Goal'
  <2>1. CASE Start(p) BY <2>1 DEF Start
  <2>2. CASE SessionEnds(p) BY <2>2 DEF SessionEnds
  <2>3. CASE SigTerm(p) BY <2>3 DEF SigTerm
  <2>4. CASE Kill(p) BY <2>4 DEF Kill
  <2>5. CASE RequestLost(p) BY <2>5 DEF RequestLost
  <2> QED BY <1>3, <2>1, <2>2, <2>3, <2>4, <2>5
<1>4. ASSUME NEW w \in Workers, ClaimExpires(w) \/ Revoke(w) PROVE Goal'
  BY <1>4 DEF ClaimExpires, Revoke
<1>5. ASSUME NEW m \in Machines, WindowEnds(m) PROVE Goal'
  BY <1>5 DEF WindowEnds
<1>6. CASE UNCHANGED vars
  BY <1>6 DEF vars
<1> QED
  BY <1>1, <1>2, <1>3, <1>4, <1>5, <1>6 DEF Next

-----------------------------------------------------------------------------
(***************************************************************************)
(* Before the first fault.                                                 *)
(***************************************************************************)

\* A start finds no claim on its identity, since the process that set it has
\* either released it or is still up and holds the lock.
LEMMA StepKeepsQuiet ==
    ASSUME BaseInv, QuietUntilFault, [Next]_vars
    PROVE  QuietUntilFault'
<1> USE ConstantsAssumption
        DEF BaseInv, TypeOK, LockHeld, WaitsForOwnRequest, IdentityIsFile,
            NamesAreCommitted, QuietUntilFault, UpStages, Registering, Torn, Here,
            local, redis, history, Exit, Answer, Rejected, Served
<1>1. ASSUME NEW p \in Processes, Process(p) PROVE QuietUntilFault'
  <2>1. CASE Register(p) BY <2>1 DEF Register
  <2>2. CASE LoadFails(p) BY <2>2 DEF LoadFails
  <2>3. CASE SaveBegins(p) BY <2>3 DEF SaveBegins
  <2>4. CASE SaveEnds(p) BY <2>4 DEF SaveEnds
  <2>5. CASE AskToken(p) BY <2>5 DEF AskToken
  <2>6. CASE Connect(p) BY <2>6 DEF Connect
  <2> QED BY <1>1, <2>1, <2>2, <2>3, <2>4, <2>5, <2>6 DEF Process
<1>2. ASSUME NEW p \in Processes, Coordinator(p) PROVE QuietUntilFault'
  <2>1. CASE Count(p) BY <2>1 DEF Count
  <2>2. CASE SetExpiry(p) BY <2>2 DEF SetExpiry
  <2>3. CASE Reaffirm(p) BY <2>3 DEF Reaffirm
  <2>4. CASE Enrol(p) BY <2>4 DEF Enrol
  <2>5. CASE ClaimNew(p) BY <2>5 DEF ClaimNew
  <2>6. CASE Release(p) BY <2>6 DEF Release
  <2>7. CASE Mint(p) BY <2>7 DEF Mint
  <2>8. CASE StoreToken(p) BY <2>8 DEF StoreToken
  <2> QED BY <1>2, <2>1, <2>2, <2>3, <2>4, <2>5, <2>6, <2>7, <2>8 DEF Coordinator
<1>3. ASSUME NEW p \in Processes,
             Start(p) \/ SessionEnds(p) \/ SigTerm(p) \/ Kill(p) \/ RequestLost(p)
      PROVE  QuietUntilFault'
  <2>1. CASE Start(p) BY <2>1 DEF Start
  <2>2. CASE SessionEnds(p) BY <2>2 DEF SessionEnds
  <2>3. CASE SigTerm(p) BY <2>3 DEF SigTerm
  <2>4. CASE Kill(p) BY <2>4 DEF Kill
  <2>5. CASE RequestLost(p) BY <2>5 DEF RequestLost
  <2> QED BY <1>3, <2>1, <2>2, <2>3, <2>4, <2>5
<1>4. ASSUME NEW w \in Workers, ClaimExpires(w) \/ Revoke(w) PROVE QuietUntilFault'
  BY <1>4 DEF ClaimExpires, Revoke
<1>5. ASSUME NEW m \in Machines, WindowEnds(m) PROVE QuietUntilFault'
  BY <1>5 DEF WindowEnds
<1>6. CASE UNCHANGED vars
  BY <1>6 DEF vars
<1> QED
  BY <1>1, <1>2, <1>3, <1>4, <1>5, <1>6 DEF Next

-----------------------------------------------------------------------------
(***************************************************************************)
(* Counting the enrolments.                                                *)
(***************************************************************************)

\* Cardinalities of a set that shrinks, gains or loses an element.
LEMMA CardinalityBounds ==
    ASSUME NEW S, IsFiniteSet(S), NEW T
    PROVE  /\ Cardinality(S) \in Nat
           /\ T \subseteq S => Cardinality(T) \in Nat /\ Cardinality(T) <= Cardinality(S)
           /\ \A x : T \subseteq S \cup {x} =>
                 Cardinality(T) \in Nat /\ Cardinality(T) <= Cardinality(S) + 1
           /\ \A x \in S : T \subseteq S \ {x} =>
                 Cardinality(T) \in Nat /\ Cardinality(T) <= Cardinality(S) - 1
<1>1. Cardinality(S) \in Nat
  BY FS_CardinalityType
<1>2. ASSUME NEW U, IsFiniteSet(U), T \subseteq U
      PROVE  Cardinality(T) \in Nat /\ Cardinality(T) <= Cardinality(U)
  BY <1>2, FS_Subset, FS_CardinalityType
<1>3. ASSUME NEW x, T \subseteq S \cup {x}
      PROVE  Cardinality(T) \in Nat /\ Cardinality(T) <= Cardinality(S) + 1
  <2>1. /\ IsFiniteSet(S \cup {x})
        /\ Cardinality(S \cup {x}) \in {Cardinality(S), Cardinality(S) + 1}
    BY FS_AddElement
  <2> QED BY <1>1, <1>2, <1>3, <2>1
<1>4. ASSUME NEW x \in S, T \subseteq S \ {x}
      PROVE  Cardinality(T) \in Nat /\ Cardinality(T) <= Cardinality(S) - 1
  <2>1. /\ IsFiniteSet(S \ {x})
        /\ Cardinality(S \ {x}) = Cardinality(S) - 1
    BY FS_RemoveElement
  <2> QED BY <1>1, <1>2, <1>4, <2>1
<1> QED
  BY <1>1, <1>2, <1>3, <1>4

\* What a step may do to the enrolments of one machine: nothing more than take
\* away; anything to MayOpen, at the price of a fault; turn the right of the next
\* start into a request; turn a request into an enrolment; or give it back.
Takes(m) == /\ Enrolled(m)' \subseteq Enrolled(m) /\ Openings(m)' \subseteq Openings(m)
            /\ MayOpen(m)' => MayOpen(m)
            /\ faults' >= faults
Faults(m) == /\ Enrolled(m)' \subseteq Enrolled(m) /\ Openings(m)' \subseteq Openings(m)
             /\ faults' = faults + 1
Asks(m) == /\ Enrolled(m)' \subseteq Enrolled(m)
           /\ \E p : Openings(m)' \subseteq Openings(m) \cup {p}
           /\ MayOpen(m) /\ ~MayOpen(m)'
           /\ faults' = faults
Enrols(m) == /\ \E w : Enrolled(m)' \subseteq Enrolled(m) \cup {w}
             /\ \E p \in Openings(m) : Openings(m)' \subseteq Openings(m) \ {p}
             /\ MayOpen(m)' => MayOpen(m)
             /\ faults' = faults
GivesBack(m) == /\ Enrolled(m)' \subseteq Enrolled(m)
                /\ \E p \in Openings(m) : Openings(m)' \subseteq Openings(m) \ {p}
                /\ faults' = faults
Accounted(m) == Takes(m) \/ Faults(m) \/ Asks(m) \/ Enrols(m) \/ GivesBack(m)

\* None of them exceeds the count.
LEMMA AccountedKeepsCount ==
    ASSUME TypeOK, TypeOK', EnrolmentsCounted, \A m \in Machines : Accounted(m)
    PROVE  EnrolmentsCounted'
<1> SUFFICES ASSUME NEW m \in Machines
             PROVE  (Cardinality(Enrolled(m)) + Cardinality(Openings(m))
                        + (IF MayOpen(m) THEN 1 ELSE 0) <= 1 + faults)'
  BY DEF EnrolmentsCounted
<1> DEFINE E == Enrolled(m)
           O == Openings(m)
           c == Cardinality(E)
           d == Cardinality(O)
<1>1. /\ Cardinality(E) + Cardinality(O) + (IF MayOpen(m) THEN 1 ELSE 0) <= 1 + faults
      /\ faults \in Nat /\ faults' \in Nat
  BY ConstantsAssumption DEF EnrolmentsCounted, TypeOK
<1>2. IsFiniteSet(E) /\ IsFiniteSet(O)
  BY ConstantsAssumption, FS_Subset DEF Enrolled, Openings
<1>3. c \in Nat /\ d \in Nat
  BY <1>2, CardinalityBounds
<1>4. CASE Takes(m)
  <2>1. c' \in Nat /\ c' <= c /\ d' \in Nat /\ d' <= d
    BY <1>2, <1>4, CardinalityBounds DEF Takes
  <2> QED BY <1>1, <1>3, <1>4, <2>1 DEF Takes
<1>5. CASE Faults(m)
  <2>1. c' \in Nat /\ c' <= c /\ d' \in Nat /\ d' <= d
    BY <1>2, <1>5, CardinalityBounds DEF Faults
  <2> QED BY <1>1, <1>3, <1>5, <2>1 DEF Faults
<1>6. CASE Asks(m)
  <2>1. c' \in Nat /\ c' <= c /\ d' \in Nat /\ d' <= d + 1
    BY <1>2, <1>6, CardinalityBounds DEF Asks
  <2> QED BY <1>1, <1>3, <1>6, <2>1 DEF Asks
<1>7. CASE Enrols(m)
  <2>1. c' \in Nat /\ c' <= c + 1 /\ d' \in Nat /\ d' <= d - 1
    BY <1>2, <1>7, CardinalityBounds DEF Enrols
  <2> QED BY <1>1, <1>3, <1>7, <2>1 DEF Enrols
<1>8. CASE GivesBack(m)
  <2>1. c' \in Nat /\ c' <= c /\ d' \in Nat /\ d' <= d - 1
    BY <1>2, <1>8, CardinalityBounds DEF GivesBack
  <2> QED BY <1>1, <1>3, <1>8, <2>1 DEF GivesBack
<1> QED
  BY <1>4, <1>5, <1>6, <1>7, <1>8 DEF Accounted

\* Every step is one of them, for every machine.
LEMMA StepIsAccounted ==
    ASSUME BaseInv, [Next]_vars, NEW m \in Machines
    PROVE  Accounted(m)
<1> USE ConstantsAssumption
        DEF BaseInv, TypeOK, LockHeld, WaitsForOwnRequest, IdentityIsFile,
            UpStages, Registering, Torn, Here, Enrolled, Openings, MayOpen,
            local, redis, history, Exit, Answer, Rejected, Served
<1>1. ASSUME NEW p \in Processes, Process(p) PROVE Accounted(m)
  <2>1. CASE Register(p)
    <3>1. CASE Host[p] = m /\ file[m] = None
      <4>1. Openings(m)' \subseteq Openings(m) \cup {p}
        BY <2>1, <3>1 DEF Register
      <4>2. MayOpen(m) /\ ~MayOpen(m)'
        BY <2>1, <3>1 DEF Register
      <4>3. Enrolled(m)' \subseteq Enrolled(m) /\ faults' = faults
        BY <2>1 DEF Register
      <4> HIDE DEF Openings, MayOpen, Enrolled
      <4> QED BY <4>1, <4>2, <4>3 DEF Asks, Accounted
    <3>2. CASE Host[p] # m \/ file[m] # None
      BY <2>1, <3>2 DEF Register, Takes, Accounted
    <3> QED BY <3>1, <3>2
  <2>2. CASE LoadFails(p) BY <2>2 DEF LoadFails, Takes, Accounted
  <2>3. CASE SaveBegins(p) BY <2>3 DEF SaveBegins, Takes, Accounted
  <2>4. CASE SaveEnds(p) BY <2>4 DEF SaveEnds, Takes, Accounted
  <2>5. CASE AskToken(p) BY <2>5 DEF AskToken, Takes, Accounted
  <2>6. CASE Connect(p) BY <2>6 DEF Connect, Takes, Accounted
  <2> QED BY <1>1, <2>1, <2>2, <2>3, <2>4, <2>5, <2>6 DEF Process
<1>2. ASSUME NEW p \in Processes, Coordinator(p) PROVE Accounted(m)
  <2>1. CASE Count(p)
    <3>1. CASE Host[p] = m /\ subject[p] = None /\ request'[p] = "none"
      BY <2>1, <3>1 DEF Count, GivesBack, Accounted
    <3>2. CASE Host[p] # m \/ subject[p] # None \/ request'[p] # "none"
      BY <2>1, <3>2 DEF Count, Takes, Accounted
    <3> QED BY <3>1, <3>2
  <2>2. CASE SetExpiry(p) BY <2>2 DEF SetExpiry, Takes, Accounted
  <2>3. CASE Reaffirm(p) BY <2>3 DEF Reaffirm, Takes, Accounted
  <2>4. CASE Enrol(p)
    <3>1. CASE Host[p] = m
      <4> DEFINE w == CHOOSE w \in Workers : rows[w] = "absent"
      <4>1. Enrolled(m)' \subseteq Enrolled(m) \cup {w}
        BY <2>4 DEF Enrol
      <4>2. p \in Openings(m) /\ Openings(m)' \subseteq Openings(m) \ {p}
        BY <2>4, <3>1 DEF Enrol
      <4>3. (MayOpen(m)' => MayOpen(m)) /\ faults' = faults
        BY <2>4 DEF Enrol
      <4> HIDE DEF Openings, MayOpen, Enrolled
      <4> QED BY <4>1, <4>2, <4>3 DEF Enrols, Accounted
    <3>2. CASE Host[p] # m BY <2>4, <3>2 DEF Enrol, Takes, Accounted
    <3> QED BY <3>1, <3>2
  <2>5. CASE ClaimNew(p) BY <2>5 DEF ClaimNew, Takes, Accounted
  <2>6. CASE Release(p) BY <2>6 DEF Release, Takes, Accounted
  <2>7. CASE Mint(p) BY <2>7 DEF Mint, Takes, Accounted
  <2>8. CASE StoreToken(p) BY <2>8 DEF StoreToken, Takes, Accounted
  <2> QED BY <1>2, <2>1, <2>2, <2>3, <2>4, <2>5, <2>6, <2>7, <2>8 DEF Coordinator
<1>3. ASSUME NEW p \in Processes,
             Start(p) \/ SessionEnds(p) \/ SigTerm(p) \/ Kill(p) \/ RequestLost(p)
      PROVE  Accounted(m)
  <2>1. CASE Start(p) BY <2>1 DEF Start, Takes, Accounted
  <2>2. CASE SessionEnds(p) BY <2>2 DEF SessionEnds, Takes, Accounted
  <2>3. CASE SigTerm(p) BY <2>3 DEF SigTerm, Takes, Accounted
  <2>4. CASE Kill(p) BY <2>4 DEF Kill, Faults, Accounted
  <2>5. CASE RequestLost(p) BY <2>5 DEF RequestLost, Faults, Accounted
  <2> QED BY <1>3, <2>1, <2>2, <2>3, <2>4, <2>5
<1>4. ASSUME NEW w \in Workers, ClaimExpires(w) \/ Revoke(w) PROVE Accounted(m)
  BY <1>4 DEF ClaimExpires, Revoke, Takes, Accounted
<1>5. ASSUME NEW n \in Machines, WindowEnds(n) PROVE Accounted(m)
  BY <1>5 DEF WindowEnds, Takes, Accounted
<1>6. CASE UNCHANGED vars
  BY <1>6 DEF vars, Takes, Accounted
<1> QED
  BY <1>1, <1>2, <1>3, <1>4, <1>5, <1>6 DEF Next

-----------------------------------------------------------------------------

\* The inductive invariant holds in every reachable state.
THEOREM Invariance == Spec => []IInv
<1>1. Init => IInv
  <2> SUFFICES ASSUME Init PROVE IInv
    OBVIOUS
  <2>1. BaseInv /\ QuietUntilFault
    BY InitTyped, ConstantsAssumption
    DEF Init, BaseInv, LockHeld, WaitsForOwnRequest, IdentityIsFile, UpStages,
        NamesAreCommitted, QuietUntilFault, Registering
  <2>2. ASSUME NEW m \in Machines PROVE Enrolled(m) = {} /\ Openings(m) = {}
    BY ConstantsAssumption DEF Init, Enrolled, Openings, Registering
  <2>3. EnrolmentsCounted
    BY <2>2, FS_EmptySet DEF EnrolmentsCounted, Init
  <2> QED BY <2>1, <2>3 DEF IInv
<1>2. IInv /\ [Next]_vars => IInv'
  <2> SUFFICES ASSUME IInv, [Next]_vars PROVE IInv'
    OBVIOUS
  <2>1. BaseInv' /\ QuietUntilFault'
    BY StepTyped, StepKeepsNames, StepKeepsQuiet DEF IInv, BaseInv
  <2>2. EnrolmentsCounted'
    BY <2>1, StepIsAccounted, AccountedKeepsCount DEF IInv, BaseInv
  <2> QED BY <2>1, <2>2 DEF IInv
<1> QED
  BY <1>1, <1>2, PTL DEF Spec

\* register_worker commits before it answers, and the lock keeps every other
\* process of the machine away from the identity file: an identity in use or on
\* disk is one the database knows, and the one its machine keeps.
THEOREM IdentityIsKnownHolds == Spec => []IdentityIsKnown
<1>1. IInv => IdentityIsKnown
  BY ConstantsAssumption
  DEF IInv, BaseInv, IdentityIsFile, NamesAreCommitted, IdentityIsKnown, UpStages
<1> QED
  BY <1>1, Invariance, PTL

\* release_worker: as long as nothing is killed or lost, no start is refused as a
\* duplicate, whatever the order of starts, signals, expiries and answers.
THEOREM RestartIsNotADuplicateHolds == Spec => []RestartIsNotADuplicate
<1>1. IInv => RestartIsNotADuplicate
  BY DEF IInv, QuietUntilFault, RestartIsNotADuplicate
<1> QED
  BY <1>1, Invariance, PTL

\* A machine enrols once, and once more for every kill or lost request at most.
THEOREM EnrolsOnceHolds == Spec => []EnrolsOnce
<1>1. IInv => EnrolsOnce
  <2> SUFFICES ASSUME IInv, NEW m \in Machines
               PROVE  Cardinality(Enrolled(m)) <= 1 + faults
    BY DEF EnrolsOnce, Enrolled
  <2>1. IsFiniteSet(Enrolled(m)) /\ IsFiniteSet(Openings(m))
    BY ConstantsAssumption, FS_Subset DEF Enrolled, Openings
  <2>2. Cardinality(Enrolled(m)) \in Nat /\ Cardinality(Openings(m)) \in Nat
    BY <2>1, FS_CardinalityType
  <2>3. faults \in Nat
    BY ConstantsAssumption DEF IInv, BaseInv, TypeOK
  <2> QED BY <2>2, <2>3 DEF IInv, EnrolmentsCounted
<1> QED
  BY <1>1, Invariance, PTL

=============================================================================
