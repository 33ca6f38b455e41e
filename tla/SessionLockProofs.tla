------------------------- MODULE SessionLockProofs -------------------------
(***************************************************************************)
(* What SessionLock promises, for any number of sessions and managers and  *)
(* for any time constants that leave the room TimingAssumption asks for.   *)
(***************************************************************************)
EXTENDS SessionLock, TLAPS

USE SessionsAssumption, TimingAssumption

\* Nothing is held and nobody runs when the system starts.
LEMMA InitIInv == Init => IInv
BY DEF Init, IInv, TypeOK, Shape, HealthyHoldsKey, HealthyKeyFresh, PCs,
       Loops, Judging, Gone

-----------------------------------------------------------------------------
(***************************************************************************)
(* One lemma per action.                                                   *)
(***************************************************************************)

\* Taking the key: it was free, so no healthy session believed it had it.
LEMMA TryLockIInv ==
  ASSUME IInv, NEW s \in Sessions, TryLock(s) \/ TryLockFails(s)
  PROVE  IInv'
<1>1. TypeOK'
  BY DEF IInv, TypeOK, TryLock, TryLockFails, PCs, Loops
<1>2. Shape'
  BY DEF IInv, TypeOK, Shape, TryLock, TryLockFails, PCs, Loops
<1>3. HealthyHoldsKey'
  BY DEF IInv, TypeOK, Shape, HealthyHoldsKey, TryLock, TryLockFails,
         Judging, Gone, PCs, Loops
<1>4. HealthyKeyFresh'
  BY DEF IInv, TypeOK, Shape, HealthyKeyFresh, HealthyHoldsKey, TryLock,
         TryLockFails, Judging, Gone, PCs, Loops
<1> QED
  BY <1>1, <1>2, <1>3, <1>4 DEF IInv

\* lockLoop's own steps only ever push the expiry out.
LEMMA LockLoopIInv ==
  ASSUME IInv, NEW s \in Sessions,
         StartTicker(s) \/ Refresh(s) \/ RefreshFails(s)
  PROVE  IInv'
<1>1. TypeOK'
  <2>1. CASE StartTicker(s)
    BY <2>1 DEF IInv, TypeOK, StartTicker, Loops
  <2>2. CASE Refresh(s)
    BY <2>2 DEF IInv, TypeOK, Refresh, Loops
  <2>3. CASE RefreshFails(s)
    BY <2>3 DEF IInv, TypeOK, RefreshFails, Loops
  <2> QED
    BY <2>1, <2>2, <2>3
<1>2. Shape'
  BY DEF IInv, TypeOK, Shape, StartTicker, Refresh, RefreshFails, PCs, Loops
<1>3. HealthyHoldsKey'
  BY DEF IInv, TypeOK, Shape, HealthyHoldsKey, StartTicker, Refresh,
         RefreshFails, Judging, Gone, PCs, Loops
<1>4. HealthyKeyFresh'
  <2>1. CASE StartTicker(s)
    BY <2>1 DEF IInv, TypeOK, Shape, HealthyKeyFresh, StartTicker, PCs, Loops
  <2>2. CASE Refresh(s)
    BY <2>2 DEF IInv, TypeOK, Shape, HealthyKeyFresh, Refresh, PCs, Loops
  <2>3. CASE RefreshFails(s)
    BY <2>3 DEF IInv, TypeOK, Shape, HealthyKeyFresh, RefreshFails, PCs, Loops
  <2> QED
    BY <2>1, <2>2, <2>3
<1> QED
  BY <1>1, <1>2, <1>3, <1>4 DEF IInv

\* From the end of the judge run to the release of the key.  The session
\* that releases it is healthy, so the key is its own.
LEMMA CleanupIInv ==
  ASSUME IInv, NEW s \in Sessions,
         \/ RunReturns(s) \/ Close(s)
         \/ ReleaseGet(s) \/ ReleaseDel(s) \/ ReleaseFails(s)
  PROVE  IInv'
<1> USE DEF IInv, TypeOK, Shape, PCs, Loops
<1>1. TypeOK'
  <2>1. CASE RunReturns(s)
    BY <2>1 DEF RunReturns
  <2>2. CASE Close(s)
    BY <2>2 DEF Close
  <2>3. CASE ReleaseGet(s)
    BY <2>3 DEF ReleaseGet
  <2>4. CASE ReleaseDel(s)
    BY <2>4 DEF ReleaseDel
  <2>5. CASE ReleaseFails(s)
    BY <2>5 DEF ReleaseFails
  <2> QED
    BY <2>1, <2>2, <2>3, <2>4, <2>5
<1>2. Shape'
  BY DEF RunReturns, Close, ReleaseGet, ReleaseDel, ReleaseFails
<1>3. HealthyHoldsKey'
  BY DEF RunReturns, Close, ReleaseGet, ReleaseDel, ReleaseFails,
         HealthyHoldsKey, Judging, Gone
<1>4. HealthyKeyFresh'
  <2>1. CASE RunReturns(s)
    BY <2>1 DEF RunReturns, HealthyKeyFresh
  <2>2. CASE Close(s)
    BY <2>2 DEF Close, HealthyKeyFresh
  <2>3. CASE ReleaseGet(s)
    BY <2>3 DEF ReleaseGet, HealthyKeyFresh
  <2>4. CASE ReleaseDel(s) \/ ReleaseFails(s)
    BY <2>4 DEF ReleaseDel, ReleaseFails, HealthyKeyFresh, HealthyHoldsKey,
                Judging, Gone
  <2> QED
    BY <2>1, <2>2, <2>3, <2>4
<1> QED
  BY <1>1, <1>2, <1>3, <1>4

\* A crash leaves the key alone.
LEMMA CrashIInv ==
  ASSUME IInv, NEW m \in Managers, Crash(m)
  PROVE  IInv'
BY DEF IInv, TypeOK, Shape, HealthyHoldsKey, HealthyKeyFresh, Crash, Judging,
       Gone, PCs, Loops

\* A unit of time never takes the key of a healthy session away.
LEMMA TickIInv ==
  ASSUME IInv, Tick
  PROVE  IInv'
<1> USE DEF IInv, TypeOK, Shape, Tick, Due
<1>1. ASSUME NEW s \in Sessions, Judging(s), ~Gone(s)
      PROVE  ttl > 1
  BY <1>1 DEF HealthyKeyFresh, Judging, Gone, PCs, Loops
<1>2. TypeOK'
  BY DEF PCs, Loops
<1>3. Shape'
  OBVIOUS
<1>4. HealthyHoldsKey'
  BY <1>1 DEF HealthyHoldsKey, Judging, Gone
<1>5. HealthyKeyFresh'
  <2> SUFFICES ASSUME NEW s \in Sessions
               PROVE  /\ (loop[s] = "starting" => ttl >= TTL - late[s])'
                      /\ (loop[s] = "beating" /\ ~pend[s] =>
                            ttl >= TTL - MaxLag - phase[s])'
                      /\ (loop[s] = "beating" /\ pend[s] =>
                            ttl >= TTL - MaxLag - Interval - late[s])'
                      /\ (pc[s] \in {"cleanup", "del"} =>
                            ttl >= TTL - 2 * MaxLag - Interval - late[s])'
    BY DEF HealthyKeyFresh
  <2>1. (loop[s] = "starting" => ttl >= TTL - late[s])'
    BY DEF HealthyKeyFresh
  <2>2. (loop[s] = "beating" /\ ~pend[s] => ttl >= TTL - MaxLag - phase[s])'
    BY DEF HealthyKeyFresh
  <2>3. (loop[s] = "beating" /\ pend[s] =>
           ttl >= TTL - MaxLag - Interval - late[s])'
    BY DEF HealthyKeyFresh
  <2>4. (pc[s] \in {"cleanup", "del"} =>
           ttl >= TTL - 2 * MaxLag - Interval - late[s])'
    BY DEF HealthyKeyFresh
  <2> QED
    BY <2>1, <2>2, <2>3, <2>4
<1> QED
  BY <1>2, <1>3, <1>4, <1>5

\* Every step keeps the invariant.
LEMMA NextIInv == IInv /\ [Next]_vars => IInv'
<1> SUFFICES ASSUME IInv, [Next]_vars
             PROVE  IInv'
  OBVIOUS
<1>1. CASE \E s \in Sessions : Step(s) \/ Fails(s)
  <2> PICK s \in Sessions : Step(s) \/ Fails(s)
    BY <1>1
  <2> QED
    BY TryLockIInv, LockLoopIInv, CleanupIInv DEF Step, Fails
<1>2. CASE \E m \in Managers : Crash(m)
  BY <1>2, CrashIInv
<1>3. CASE Tick
  BY <1>3, TickIInv
<1>4. CASE UNCHANGED vars
  BY <1>4 DEF IInv, TypeOK, Shape, HealthyHoldsKey, HealthyKeyFresh, Judging,
              Gone, vars
<1> QED
  BY <1>1, <1>2, <1>3, <1>4 DEF Next

-----------------------------------------------------------------------------
\* The inductive invariant of the sessions holds throughout.
THEOREM Invariance == Spec => []IInv
BY InitIInv, NextIInv, PTL DEF Spec

\* Type correctness.
THEOREM TypeCorrect == Spec => []TypeOK
<1>1. IInv => TypeOK
  BY DEF IInv
<1> QED
  BY <1>1, Invariance, PTL

\* A healthy session that believes it has the key has it.
THEOREM HealthyHolds == Spec => []HealthyHoldsKey
<1>1. IInv => HealthyHoldsKey
  BY DEF IInv
<1> QED
  BY <1>1, Invariance, PTL

\* The expiry of a healthy session's key never comes closer than this.
THEOREM HealthyFresh == Spec => []HealthyKeyFresh
<1>1. IInv => HealthyKeyFresh
  BY DEF IInv
<1> QED
  BY <1>1, Invariance, PTL

\* No two healthy sessions judge the solution at the same time.
THEOREM Exclusion == Spec => []MutualExclusion
<1>1. IInv => MutualExclusion
  BY DEF IInv, HealthyHoldsKey, MutualExclusion
<1> QED
  BY <1>1, Invariance, PTL

\* Only the session that created a key deletes it while it lives.
THEOREM OwnerDeletes == Spec => OnlyOwnerDeletes
<1>1. ASSUME IInv, [Next]_vars, owner # None, ttl > 1, owner' # owner
      PROVE  pc[owner] = "del" /\ pc'[owner] = "done"
  <2> USE <1>1 DEF IInv, TypeOK, Shape
  <2>1. CASE \E s \in Sessions : Step(s) \/ Fails(s)
    <3> PICK s \in Sessions : Step(s) \/ Fails(s)
      BY <2>1
    <3>1. ReleaseDel(s) \/ ReleaseFails(s)
      BY DEF Step, Fails, TryLock, TryLockFails, StartTicker, Refresh,
             RefreshFails, RunReturns, Close, ReleaseGet
    <3>2. pc[s] = "del" /\ pc'[s] = "done"
      BY <3>1 DEF ReleaseDel, ReleaseFails
    <3>3. s = owner
      BY <3>2 DEF HealthyHoldsKey, Judging, Gone
    <3> QED
      BY <3>2, <3>3
  <2>2. CASE \E m \in Managers : Crash(m)
    BY <2>2 DEF Crash
  <2>3. CASE Tick
    BY <2>3 DEF Tick
  <2>4. CASE UNCHANGED vars
    BY <2>4 DEF vars
  <2> QED
    BY <2>1, <2>2, <2>3, <2>4 DEF Next
<1>2. IInv /\ [Next]_vars
        => [owner # None /\ ttl > 1 /\ owner' # owner
              => pc[owner] = "del" /\ pc'[owner] = "done"]_vars
  BY <1>1
<1> QED
  BY <1>2, Invariance, PTL DEF Spec, OnlyOwnerDeletes

-----------------------------------------------------------------------------
(***************************************************************************)
(* The lock implements the lease: every step of the lock is a step of the  *)
(* lease or leaves the lease alone.                                        *)
(***************************************************************************)
GoneSet == {s \in Sessions : Gone(s)}

\* The steps of one session.
LEMMA SessionStepRefines ==
  ASSUME IInv, NEW s \in Sessions, Step(s) \/ Fails(s)
  PROVE  TheLease!Next \/ UNCHANGED <<owner, GoneSet>>
<1> USE DEF IInv, TypeOK, Shape, GoneSet, Gone
<1>1. CASE TryLock(s) \/ TryLockFails(s)
  <2>1. CASE owner' # owner
    <3>1. owner = None /\ owner' = s /\ s \notin GoneSet
      BY <1>1, <2>1 DEF TryLock, TryLockFails
    <3>2. UNCHANGED GoneSet \/ GoneSet' = GoneSet \union {s}
      BY <1>1 DEF TryLock, TryLockFails
    <3> QED
      BY <3>1, <3>2 DEF TheLease!Next, TheLease!Acquire,
                        TheLease!AcquireUnaware
  <2>2. CASE owner' = owner
    <3>1. GoneSet' = GoneSet \union {s}
      BY <1>1, <2>2 DEF TryLock, TryLockFails
    <3> QED
      BY <2>2, <3>1 DEF TheLease!Next, TheLease!Leave
  <2> QED
    BY <2>1, <2>2
<1>2. CASE StartTicker(s) \/ RunReturns(s) \/ Close(s)
  BY <1>2 DEF StartTicker, RunReturns, Close
<1>3. CASE Refresh(s) \/ RefreshFails(s) \/ ReleaseGet(s)
  <2>1. UNCHANGED GoneSet \/ GoneSet' = GoneSet \union {s}
    BY <1>3 DEF Refresh, RefreshFails, ReleaseGet
  <2>2. UNCHANGED owner
    BY <1>3 DEF Refresh, RefreshFails, ReleaseGet
  <2> QED
    BY <2>1, <2>2 DEF TheLease!Next, TheLease!Leave
<1>4. CASE ReleaseDel(s) \/ ReleaseFails(s)
  <2>1. s \notin GoneSet /\ owner = s
    BY <1>4 DEF ReleaseDel, ReleaseFails, HealthyHoldsKey, Judging
  <2>2. GoneSet' = GoneSet \union {s}
    BY <1>4 DEF ReleaseDel, ReleaseFails
  <2>3. UNCHANGED owner \/ owner' = None
    BY <1>4 DEF ReleaseDel, ReleaseFails
  <2> QED
    BY <2>1, <2>2, <2>3 DEF TheLease!Next, TheLease!Leave, TheLease!Release
<1> QED
  BY <1>1, <1>2, <1>3, <1>4 DEF Step, Fails

\* All sessions of a manager that dies leave at once.
LEMMA CrashRefines ==
  ASSUME IInv, NEW m \in Managers, Crash(m)
  PROVE  TheLease!Next \/ UNCHANGED <<owner, GoneSet>>
<1>1. GoneSet' = GoneSet \union {s \in Sessions : Mgr[s] = m}
  BY DEF IInv, TypeOK, Shape, GoneSet, Gone, Crash
<1>2. {s \in Sessions : Mgr[s] = m} \in SUBSET Sessions
  OBVIOUS
<1>3. UNCHANGED owner
  BY DEF Crash
<1> QED
  BY <1>1, <1>2, <1>3 DEF TheLease!Next, TheLease!Leave, GoneSet

\* A key expires only under a session that is gone.
LEMMA TickRefines ==
  ASSUME IInv, Tick
  PROVE  TheLease!Next \/ UNCHANGED <<owner, GoneSet>>
<1> USE DEF IInv, TypeOK, Shape
<1>1. UNCHANGED GoneSet
  BY DEF GoneSet, Gone, Tick
<1>2. CASE owner' # owner
  <2>1. owner \in Sessions /\ owner' = None /\ ttl <= 1
    BY <1>2 DEF Tick
  <2>2. Gone(owner)
    <3> SUFFICES ASSUME ~Gone(owner)
                 PROVE  FALSE
      OBVIOUS
    <3>1. pc[owner] \in {"critical", "close", "cleanup", "del"}
      BY <2>1 DEF Gone, PCs
    <3> QED
      BY <2>1, <3>1 DEF Tick, Due, HealthyKeyFresh, Gone, Loops
  <2> QED
    BY <1>1, <2>1, <2>2 DEF TheLease!Next, TheLease!Lapse, GoneSet
<1> QED
  BY <1>1, <1>2

\* The lock of SessionLock is an exclusive lease.
THEOREM Refinement == Spec => LeaseSpec
<1>1. Init => TheLease!Init
  BY DEF Init, TheLease!Init, Gone
<1>2. IInv /\ [Next]_vars => [TheLease!Next]_(TheLease!vars)
  <2> SUFFICES ASSUME IInv, [Next]_vars
               PROVE  TheLease!Next \/ UNCHANGED <<owner, GoneSet>>
    BY DEF TheLease!vars, GoneSet
  <2>1. CASE UNCHANGED vars
    BY <2>1 DEF vars, GoneSet, Gone
  <2> QED
    BY <2>1, SessionStepRefines, CrashRefines, TickRefines DEF Next
<1> QED
  BY <1>1, <1>2, Invariance, PTL DEF Spec, LeaseSpec, TheLease!Spec

-----------------------------------------------------------------------------
(***************************************************************************)
(* The lease of one solution is an entry of the table of leases, whose     *)
(* keeper is the holder as long as it is not gone.  With LocksAreLeases of *)
(* JudgeManagerProofs, both models of the lock implement one and the same  *)
(* promise: the timed one by its expiry, the untimed one by the guard of   *)
(* LockExpires.                                                            *)
(***************************************************************************)
TakenHere == IF owner = None THEN {} ELSE {"solution"}
KeptHere  == [i \in {"solution"} |-> {s \in Sessions : s = owner /\ ~Gone(s)}]

\* A step of the lease is a step of the table.
LEMMA LeaseStepRefines ==
  ASSUME IInv, IInv', TheLease!Next
  PROVE  TheLeases!Next
<1> DEFINE here == "solution"
           Keeps(S) == [i \in {"solution"} |-> S]
<1>1. /\ KeptHere = Keeps({owner} \ (GoneSet \union {None}))
      /\ KeptHere' = Keeps({owner'} \ (GoneSet' \union {None}))
      /\ owner \in Sessions \union {None} /\ owner' \in Sessions \union {None}
  BY DEF KeptHere, GoneSet, IInv, TypeOK
<1>2. ASSUME NEW c \in Sessions, TheLease!Acquire(c)
      PROVE  TheLeases!Next
  <2>1. owner = None /\ owner' = c /\ c \notin GoneSet'
    BY <1>2 DEF TheLease!Acquire, GoneSet
  <2>2. TheLeases!Acquire(here, c)
    BY <1>1, <2>1 DEF TheLeases!Acquire, TakenHere, KeptHere, GoneSet
  <2> QED
    BY <2>2 DEF TheLeases!Next
<1>3. ASSUME NEW c \in Sessions, TheLease!AcquireUnaware(c)
      PROVE  TheLeases!Next
  <2>1. owner = None /\ owner' = c /\ c \in GoneSet'
    BY <1>3 DEF TheLease!AcquireUnaware, GoneSet
  <2>2. TheLeases!AcquireUnaware(here)
    BY <1>1, <2>1 DEF TheLeases!AcquireUnaware, KeptHere, GoneSet
  <2> QED
    BY <2>2 DEF TheLeases!Next
<1>4. ASSUME NEW c \in Sessions, TheLease!Release(c)
      PROVE  TheLeases!Next
  <2>1. owner = c /\ c \notin GoneSet /\ owner' = None
    BY <1>4 DEF TheLease!Release, GoneSet
  <2>2. TheLeases!Release(here, c)
    BY <1>1, <2>1 DEF TheLeases!Release, KeptHere, GoneSet
  <2> QED
    BY <2>2 DEF TheLeases!Next
<1>5. ASSUME NEW c \in Sessions, TheLease!Lapse(c)
      PROVE  TheLeases!Next
  <2>1. owner = c /\ c \in GoneSet /\ owner' = None
    BY <1>5 DEF TheLease!Lapse, GoneSet
  <2>2. TheLeases!Lapse(here)
    BY <1>1, <2>1 DEF TheLeases!Lapse, KeptHere, GoneSet
  <2> QED
    BY <2>2 DEF TheLeases!Next
<1>6. ASSUME NEW C \in SUBSET Sessions, TheLease!Leave(C)
      PROVE  TheLeases!Next
  <2>1. owner' = owner /\ GoneSet' = GoneSet \union C
    BY <1>6 DEF TheLease!Leave, GoneSet
  <2>2. TheLeases!Abandon(C)
    BY <1>1, <2>1 DEF TheLeases!Abandon, KeptHere, GoneSet
  <2> QED
    BY <2>2 DEF TheLeases!Next
<1> QED
  BY <1>2, <1>3, <1>4, <1>5, <1>6 DEF TheLease!Next

\* The lock of SessionLock, in time, is an entry of the table of leases.
THEOREM LockIsALease == Spec => LeasesSpec
<1>1. Init => TheLeases!Init
  BY DEF Init, TheLeases!Init
<1>2. IInv /\ IInv' /\ [TheLease!Next]_(TheLease!vars)
        => [TheLeases!Next]_(TheLeases!vars)
  <2>1. IInv /\ IInv' /\ UNCHANGED TheLease!vars => UNCHANGED TheLeases!vars
    <3> SUFFICES ASSUME IInv, IInv', owner' = owner, GoneSet' = GoneSet
                 PROVE  UNCHANGED <<TakenHere, KeptHere>>
      BY DEF TheLease!vars, TheLeases!vars, TakenHere, KeptHere, GoneSet
    <3>1. KeptHere = [i \in {"solution"} |-> {owner} \ (GoneSet \union {None})]
      BY DEF KeptHere, GoneSet, IInv, TypeOK
    <3>2. KeptHere' = [i \in {"solution"} |-> {owner'} \ (GoneSet' \union {None})]
      BY DEF KeptHere, GoneSet, IInv, TypeOK
    <3> QED
      BY <3>1, <3>2 DEF TakenHere
  <2> QED
    BY <2>1, LeaseStepRefines
<1> QED
  BY <1>1, <1>2, Refinement, Invariance, PTL
     DEF Spec, LeaseSpec, TheLease!Spec, LeasesSpec, TheLeases!Spec

=============================================================================
