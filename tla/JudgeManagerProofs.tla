------------------------- MODULE JudgeManagerProofs -------------------------
(***************************************************************************)
(* What JudgeManager promises for any number of managers, solutions and    *)
(* runs.                                                                   *)
(***************************************************************************)
EXTENDS JudgeManager, SetSizes, FiniteSetTheorems, TLAPS

USE ManagerAssumption
USE DEF Goto, After, Faulty, RequestSlot, Freed, HandsOut, Completes, Spawn,
        FailTask, Loses, Live, RunPCs, LockPCs, PollPCs, Tasks, vars, redis,
        pollVars, runVars, session, ending

TypeInv == TypeOK /\ Shape

\* The manager starts with every variable in its type.
LEMMA InitTypeInv == Init => TypeInv
BY DEF Init, TypeInv, TypeOK, Shape

\* The poll loop's steps.
LEMMA PollerTypeInv ==
  ASSUME TypeInv, NEW m \in Managers, Poller(m)
  PROVE  TypeInv'
<1> USE DEF TypeInv, TypeOK, Shape
<1>1. CASE PollRequest(m)
  BY <1>1 DEF PollRequest
<1>2. CASE PollAoi(m)
  BY <1>2 DEF PollAoi
<1>3. CASE Admit(m)
  BY <1>3 DEF Admit
<1>4. CASE AdmitFails(m)
  BY <1>4 DEF AdmitFails
<1>5. CASE Refuse(m)
  BY <1>5 DEF Refuse
<1>6. CASE GiveBack(m)
  BY <1>6 DEF GiveBack
<1> QED
  BY <1>1, <1>2, <1>3, <1>4, <1>5, <1>6 DEF Poller

\* The janitor's steps.
LEMMA JanitorTypeInv ==
  ASSUME TypeInv, NEW m \in Managers,
         JanitorList(m) \/ \E s \in Solutions : JanitorCheck(m, s)
  PROVE  TypeInv'
<1> USE DEF TypeInv, TypeOK, Shape
<1>1. CASE JanitorList(m)
  BY <1>1 DEF JanitorList
<1>2. ASSUME NEW s \in Solutions, JanitorCheck(m, s)
      PROVE  TypeInv'
  <2>1. jan' \in [Managers -> SUBSET Solutions]
    BY <1>2 DEF JanitorCheck
  <2>2. UNCHANGED runVars \/ Spawn(m, s)
    BY <1>2 DEF JanitorCheck
  <2>3. UNCHANGED <<redis, task, pollVars, ending>>
    BY <1>2 DEF JanitorCheck
  <2>4. TypeOK'
    <3>1. CASE UNCHANGED runVars
      BY <3>1, <2>1, <2>3
    <3>2. CASE Spawn(m, s)
      BY <3>2, <2>1, <2>3
    <3> QED
      BY <2>2, <3>1, <3>2
  <2>5. Shape'
    <3>1. CASE UNCHANGED runVars
      BY <3>1, <2>3
    <3>2. CASE Spawn(m, s)
      BY <3>2, <2>3
    <3> QED
      BY <2>2, <3>1, <3>2
  <2> QED
    BY <2>4, <2>5
<1> QED
  BY <1>1, <1>2

\* A manager's death: its loops and runs are over, the others untouched.
LEMMA DiesTypeInv ==
  ASSUME TypeInv, NEW m \in Managers, Dies(m), UNCHANGED <<soln, task>>,
         current' \in 0 .. RateLimit,
         crashes' \in {crashes, crashes + 1}, crashes' \in 0 .. MaxCrashes
  PROVE  TypeInv'
<1> USE DEF TypeInv, TypeOK, Shape, Dies, AboutToFail
<1>1. lost' \subseteq Solutions
  BY DEF Dies
<1>2. TypeOK'
  BY <1>1
<1>3. ASSUME NEW n \in Managers
      PROVE  (ppc[n] \in {"polled", "refuse"} <=> psol[n] # None)'
  OBVIOUS
<1>4. ASSUME NEW r \in Runs
      PROVE  (Live(r) <=> rmgr[r] # None)' /\ (Live(r) <=> rsol[r] # None)'
  OBVIOUS
<1>5. ASSUME NEW r \in Runs
      PROVE  /\ rpc'[r] = "fail" => failed'[r]
             /\ failed'[r] => rpc'[r] \notin {"idle", "new", "trylock", "judge"}
  OBVIOUS
<1>6. ASSUME NEW r \in Runs, r \in panics'
      PROVE  /\ rpc'[r] = rpc[r] /\ rsol'[r] = rsol[r] /\ ~failed'[r]
             /\ r \in panics /\ rsol[r] \in lost'
             /\ crashes' > 0
  BY <1>6
<1>7. Shape'
  <2> SUFFICES ASSUME NEW r \in Runs, r \in panics'
               PROVE  rpc'[r] \in {"close", "delsoln", "unlock", "unlockdel",
                                   "release"}
    BY <1>3, <1>4, <1>5, <1>6
  <2> QED
    BY <1>6
<1> QED
  BY <1>2, <1>7

\* The steps of a run, those with a fault included.
LEMMA RunTypeInv ==
  ASSUME TypeInv, NEW r \in Runs, Run(r) \/ Disturbed(r)
  PROVE  TypeInv'
<1>0. Live(r) => rmgr[r] \in Managers /\ rsol[r] \in Solutions
  BY DEF TypeInv, TypeOK, Shape
<1> USE <1>0 DEF TypeInv, TypeOK, Shape
<1>1. CASE RunNew(r)
  BY <1>1 DEF RunNew
<1>2. CASE TryLock(r)
  <2>1. TypeOK'
    <3>1. lock' \in [Solutions -> Managers \union {None, Orphan}]
      BY <1>2 DEF TryLock
    <3>2. rpc' \in [Runs -> RunPCs]
      BY <1>2 DEF TryLock
    <3>3. beat' \in [Runs -> BOOLEAN]
      <4>1. beat' = [beat EXCEPT ![r] = TRUE] \/ beat' = beat
        BY <1>2 DEF TryLock
      <4>2. beat \in [Runs -> BOOLEAN]
        OBVIOUS
      <4> HIDE DEF TypeInv, TypeOK, Shape
      <4> QED
        BY <4>1, <4>2
    <3> QED
      BY <1>2, <3>1, <3>2, <3>3 DEF TryLock
  <2>2. Shape'
    BY <1>2 DEF TryLock
  <2> QED
    BY <2>1, <2>2
<1>3. CASE TryLockFails(r)
  <2>1. TypeOK'
    BY <1>3 DEF TryLockFails
  <2>2. Shape'
    BY <1>3 DEF TryLockFails
  <2> QED
    BY <2>1, <2>2
<1>4. CASE JudgeCompletes(r)
  BY <1>4 DEF JudgeCompletes
<1>5. CASE JudgeOk(r)
  BY <1>5 DEF JudgeOk
<1>6. CASE JudgeErr(r)
  BY <1>6 DEF JudgeErr
<1>7. CASE BeatFails(r)
  BY <1>7 DEF BeatFails
<1>8. CASE Close(r)
  BY <1>8 DEF Close
<1>9. CASE DelSoln(r)
  BY <1>9 DEF DelSoln
<1>10. CASE Unlock(r)
  BY <1>10 DEF Unlock
<1>11. CASE UnlockDel(r)
  BY <1>11 DEF UnlockDel
<1>12. CASE Fail(r)
  BY <1>12 DEF Fail
<1>13. CASE Release(r)
  BY <1>13 DEF Release
<1>14. CASE JudgePanics(r)
  <2>1. TypeOK'
    BY <1>0, <1>14 DEF JudgePanics
  <2>2. Shape'
    BY <1>0, <1>14 DEF JudgePanics
  <2> QED
    BY <2>1, <2>2
<1>15. CASE PanicKills(r)
  <2>1. rmgr[r] \in Managers /\ Dies(rmgr[r])
    BY <1>0, <1>15 DEF PanicKills
  <2>2. current' \in 0 .. RateLimit /\ UNCHANGED <<soln, task, crashes>>
    BY <1>15 DEF PanicKills
  <2> QED
    BY <2>1, <2>2, DiesTypeInv
<1> QED
  BY <1>1, <1>2, <1>3, <1>4, <1>5, <1>6, <1>7, <1>8, <1>9, <1>10, <1>11,
     <1>12, <1>13, <1>14, <1>15 DEF Run, Disturbed, Judge, Cleanup

\* Expiries and crashes.
LEMMA EnvTypeInv ==
  ASSUME TypeInv,
         \/ \E s \in Solutions : LockExpires(s)
         \/ \E m \in Managers : Crash(m)
  PROVE  TypeInv'
<1> USE DEF TypeInv, TypeOK, Shape
<1>1. ASSUME NEW s \in Solutions, LockExpires(s)
      PROVE  TypeInv'
  BY <1>1 DEF LockExpires
<1>2. ASSUME NEW m \in Managers, Crash(m)
      PROVE  TypeInv'
  <2>1. Dies(m) /\ UNCHANGED <<soln, current, task>>
    BY <1>2 DEF Crash
  <2>2. crashes' = crashes + 1 /\ crashes' \in 0 .. MaxCrashes
    BY <1>2 DEF Crash
  <2> QED
    BY <2>1, <2>2, DiesTypeInv
<1> QED
  BY <1>1, <1>2

\* No step of poll loop, janitor, run or environment leaves the types.
LEMMA NextTypeInv == TypeInv /\ [Next]_vars => TypeInv'
<1> SUFFICES ASSUME TypeInv, [Next]_vars
             PROVE  TypeInv'
  OBVIOUS
<1>1. CASE UNCHANGED vars
  BY <1>1 DEF TypeInv, TypeOK, Shape
<1> QED
  BY <1>1, PollerTypeInv, JanitorTypeInv, RunTypeInv, EnvTypeInv DEF Next

\* The inductive type invariant of the manager holds throughout.
THEOREM TypeInvariance == Spec => []TypeInv
BY InitTypeInv, NextTypeInv, PTL DEF Spec

\* Type correctness; in particular the counter of the rate limiter never
\* exceeds the limit and never becomes negative.
THEOREM TypeCorrect == Spec => []TypeOK
<1>1. TypeInv => TypeOK
  BY DEF TypeInv
<1> QED
  BY <1>1, TypeInvariance, PTL

-----------------------------------------------------------------------------
(***************************************************************************)
(* Mutual exclusion, as long as goroutines are served in time.  What makes *)
(* it inductive is that a run's own lockLoop has outlived the judging of a *)
(* run that gets to release the lock: cleanup's rendezvous with it.        *)
(***************************************************************************)
Released == \A r \in Runs : rpc[r] \in {"delsoln", "unlock", "unlockdel"} => beat[r]

LockInv == Released /\ KeeperHoldsLock /\ MutualExclusion

\* No lock is taken when the manager starts.
LEMMA InitLockInv == Init => LockInv
BY DEF Init, LockInv, Released, KeeperHoldsLock, MutualExclusion, KeepsAlive,
       InLock

\* Steps that touch neither a lock nor a run that has one.
LEMMA OtherLockInv ==
  ASSUME TypeInv, LockInv, UNCHANGED lock,
         UNCHANGED runVars \/ \E m \in Managers, s \in Solutions : Spawn(m, s)
  PROVE  LockInv'
BY DEF TypeInv, TypeOK, Shape, LockInv, Released, KeeperHoldsLock,
       MutualExclusion, KeepsAlive, InLock

\* A manager's death: its locks become orphans, its runs keep none alive.
LEMMA DiesLockInv ==
  ASSUME TypeInv, LockInv, NEW m \in Managers, Dies(m)
  PROVE  LockInv'
BY DEF Dies, TypeInv, TypeOK, Shape, LockInv, Released, KeeperHoldsLock,
       MutualExclusion, KeepsAlive, InLock

\* A run's steps: it takes a free lock, keeps it, and releases only its own.
LEMMA RunLockInv ==
  ASSUME TypeInv, LockInv, NEW r \in Runs, Run(r) \/ Disturbed(r)
  PROVE  LockInv'
<1> USE DEF TypeInv, TypeOK, Shape, LockInv, Released, KeeperHoldsLock,
            MutualExclusion, KeepsAlive, InLock
<1>1. CASE TryLock(r)
  BY <1>1 DEF TryLock
<1>2. CASE TryLockFails(r)
  BY <1>2 DEF TryLockFails
<1>3. CASE UnlockDel(r)
  BY <1>3 DEF UnlockDel
<1>4. CASE RunNew(r)
  BY <1>4 DEF RunNew
<1>5. CASE JudgeOk(r) \/ JudgeErr(r) \/ JudgeCompletes(r)
  BY <1>5 DEF JudgeOk, JudgeErr, JudgeCompletes
<1>6. CASE BeatFails(r)
  BY <1>6 DEF BeatFails
<1>7. CASE Close(r)
  BY <1>7 DEF Close
<1>8. CASE DelSoln(r) \/ Unlock(r)
  BY <1>8 DEF DelSoln, Unlock
<1>9. CASE Fail(r) \/ Release(r)
  BY <1>9 DEF Fail, Release
<1>10. CASE JudgePanics(r)
  BY <1>10 DEF JudgePanics
<1>11. CASE PanicKills(r)
  <2>1. rmgr[r] \in Managers /\ Dies(rmgr[r])
    BY <1>11 DEF PanicKills
  <2> QED
    BY <2>1, DiesLockInv
<1> QED
  BY <1>1, <1>2, <1>3, <1>4, <1>5, <1>6, <1>7, <1>8, <1>9, <1>10, <1>11
     DEF Run, Disturbed, Judge, Cleanup

\* No step takes a lock from a run whose lockLoop still refreshes it.
LEMMA NextLockInv ==
  ASSUME "stall" \notin Faults
  PROVE  TypeInv /\ LockInv /\ [Next]_vars => LockInv'
<1> SUFFICES ASSUME TypeInv, LockInv, [Next]_vars
             PROVE  LockInv'
  OBVIOUS
<1>1. CASE UNCHANGED vars
  BY <1>1, OtherLockInv
<1>2. ASSUME NEW m \in Managers, Poller(m)
      PROVE  LockInv'
  <2>1. UNCHANGED lock
    BY <1>2 DEF Poller, PollRequest, PollAoi, Admit, AdmitFails, Refuse,
                GiveBack
  <2>2. UNCHANGED runVars \/ \E s \in Solutions : Spawn(m, s)
    <3>1. CASE Admit(m)
      <4>1. psol[m] \in Solutions
        BY <3>1 DEF Admit, TypeInv, TypeOK, Shape
      <4>2. Spawn(m, psol[m])
        BY <3>1 DEF Admit
      <4> QED
        BY <4>1, <4>2
    <3>2. CASE ~Admit(m)
      BY <1>2, <3>2 DEF Poller, PollRequest, PollAoi, AdmitFails, Refuse,
                        GiveBack
    <3> QED
      BY <3>1, <3>2
  <2> QED
    BY <2>1, <2>2, OtherLockInv
<1>3. ASSUME NEW m \in Managers,
             JanitorList(m) \/ \E s \in Solutions : JanitorCheck(m, s)
      PROVE  LockInv'
  <2>1. UNCHANGED lock
    BY <1>3 DEF JanitorList, JanitorCheck
  <2>2. UNCHANGED runVars \/ \E s \in Solutions : Spawn(m, s)
    BY <1>3 DEF JanitorList, JanitorCheck
  <2> QED
    BY <2>1, <2>2, OtherLockInv
<1>4. ASSUME NEW m \in Managers, Crash(m)
      PROVE  LockInv'
  BY <1>4, DiesLockInv DEF Crash
<1>5. ASSUME NEW s \in Solutions, LockExpires(s)
      PROVE  LockInv'
  BY <1>5 DEF LockExpires, TypeInv, TypeOK, Shape, LockInv, Released,
              KeeperHoldsLock, MutualExclusion, KeepsAlive, InLock
<1> QED
  BY <1>1, <1>2, <1>3, <1>4, <1>5, RunLockInv DEF Next

\* While goroutines are served in time, a run that keeps its lock alive has
\* the lock: through crashes, Redis errors and the janitor's runs.
THEOREM KeepersHold ==
  ASSUME "stall" \notin Faults
  PROVE  Spec => []KeeperHoldsLock
<1>1. TypeInv /\ LockInv /\ [Next]_vars => LockInv'
  BY NextLockInv
<1>2. LockInv => KeeperHoldsLock
  BY DEF LockInv
<1> QED
  BY <1>1, <1>2, InitLockInv, TypeInvariance, PTL DEF Spec

\* Under the same assumption no two such runs have the same solution.
THEOREM Exclusion ==
  ASSUME "stall" \notin Faults
  PROVE  Spec => []MutualExclusion
<1>1. TypeInv /\ LockInv /\ [Next]_vars => LockInv'
  BY NextLockInv
<1>2. LockInv => MutualExclusion
  BY DEF LockInv
<1> QED
  BY <1>1, <1>2, InitLockInv, TypeInvariance, PTL DEF Spec

-----------------------------------------------------------------------------
(***************************************************************************)
(* The locks are leases.  A step either moves the one lease of the run     *)
(* that takes it, or leaves every lease taken or free as it was and at     *)
(* most ends the keeping of some runs.                                     *)
(***************************************************************************)
Taken == {s \in Solutions : lock[s] # None}
Kept  == [s \in Solutions |-> Keepers(s)]

\* The runs in C keep nothing any more; nothing else changes for a lease.
OnlyLeave(C) ==
  /\ Taken' = Taken
  /\ \A q \in Runs :
       /\ KeepsAlive(q)' <=> KeepsAlive(q) /\ q \notin C
       /\ KeepsAlive(q)' => rsol'[q] = rsol[q]

\* Such a step abandons what these runs kept.
LEMMA LeavingRefines ==
  ASSUME NEW C \in SUBSET Runs, OnlyLeave(C)
  PROVE  TheLeases!Next
<1>1. ASSUME NEW s \in Solutions
      PROVE  Keepers(s)' = Keepers(s) \ C
  BY DEF OnlyLeave, Keepers
<1>2. Kept' = [s \in Solutions |-> Kept[s] \ C]
  BY <1>1 DEF Kept
<1>3. TheLeases!Abandon(C)
  BY <1>2 DEF OnlyLeave, TheLeases!Abandon, Taken, Kept
<1> QED
  BY <1>3 DEF TheLeases!Next

\* A run that gets the lock takes a free lease.
LEMMA TryLockRefines ==
  ASSUME TypeInv, LockInv, NEW r \in Runs, TryLock(r) \/ TryLockFails(r)
  PROVE  TheLeases!Next
<1> DEFINE s == rsol[r]
<1> USE DEF TypeInv, TypeOK, Shape
<1>0. s \in Solutions /\ rmgr[r] \in Managers /\ ~KeepsAlive(r)
  BY DEF TryLock, TryLockFails, KeepsAlive, InLock
<1>1. CASE TryLock(r) /\ lock[s] = None
  <2>1. s \notin Taken /\ Taken' = Taken \union {s}
    BY <1>0, <1>1 DEF TryLock, Taken
  <2>2. ASSUME NEW q \in Runs
        PROVE  /\ KeepsAlive(q)' <=> KeepsAlive(q) \/ q = r
               /\ rsol'[q] = rsol[q]
    BY <1>1 DEF TryLock, KeepsAlive, InLock
  <2>3. ASSUME NEW q \in Runs, KeepsAlive(q)
        PROVE  rsol[q] # s
    BY <1>0, <1>1, <2>3 DEF LockInv, KeeperHoldsLock, KeepsAlive, InLock
  <2>4. ASSUME NEW t \in Solutions
        PROVE  Keepers(t)' = IF t = s THEN {r} ELSE Keepers(t)
    BY <2>2, <2>3 DEF Keepers
  <2>5. Kept' = [Kept EXCEPT ![s] = {r}]
    BY <2>4 DEF Kept
  <2>6. TheLeases!Acquire(s, r)
    BY <2>1, <2>5 DEF TheLeases!Acquire, Taken, Kept
  <2> QED
    BY <1>0, <2>6 DEF TheLeases!Next
<1>2. CASE TryLockFails(r) /\ lock' # lock
  <2>1. s \notin Taken /\ Taken' = Taken \union {s}
    BY <1>0, <1>2 DEF TryLockFails, Taken
  <2>2. ASSUME NEW q \in Runs
        PROVE  (KeepsAlive(q)' <=> KeepsAlive(q)) /\ rsol'[q] = rsol[q]
    BY <1>2 DEF TryLockFails, KeepsAlive, InLock
  <2>3. Kept' = Kept
    BY <2>2 DEF Kept, Keepers
  <2>4. PICK i \in Solutions : i = s
    BY <1>0
  <2>5. TheLeases!AcquireUnaware(i)
    BY <2>1, <2>3, <2>4 DEF TheLeases!AcquireUnaware, Taken, Kept
  <2> QED
    BY <2>5 DEF TheLeases!Next
<1>3. CASE \/ TryLock(r) /\ lock[s] # None
           \/ TryLockFails(r) /\ lock' = lock
  <2>1. OnlyLeave({})
    BY <1>3 DEF TryLock, TryLockFails, OnlyLeave, Taken, KeepsAlive, InLock
  <2> QED
    BY <2>1, LeavingRefines
<1> QED
  BY <1>1, <1>2, <1>3

\* A run that deletes its lock gives its lease back, and it was its only
\* keeper; if the DEL is not done, or the GET saw no reason for it, the run
\* abandons the lease.
LEMMA UnlockRefines ==
  ASSUME TypeInv, LockInv, NEW r \in Runs,
         DelSoln(r) \/ Unlock(r) \/ UnlockDel(r)
  PROVE  TheLeases!Next
<1> DEFINE s == rsol[r]
<1> USE DEF TypeInv, TypeOK, Shape
<1>0. s \in Solutions /\ KeepsAlive(r) /\ lock[s] = rmgr[r] /\ lock[s] # None
  <2>1. rpc[r] \in {"delsoln", "unlock", "unlockdel"}
    BY DEF DelSoln, Unlock, UnlockDel
  <2>2. KeepsAlive(r)
    BY <2>1 DEF LockInv, Released, KeepsAlive, InLock
  <2> QED
    BY <2>1, <2>2 DEF LockInv, KeeperHoldsLock
<1>1. CASE UnlockDel(r) /\ lock' # lock
  <2>1. s \in Taken /\ Taken' = Taken \ {s}
    BY <1>0, <1>1 DEF UnlockDel, Taken
  <2>2. ASSUME NEW q \in Runs
        PROVE  /\ KeepsAlive(q)' <=> KeepsAlive(q) /\ q # r
               /\ rsol'[q] = rsol[q]
    BY <1>1 DEF UnlockDel, KeepsAlive, InLock
  <2>3. ASSUME NEW q \in Runs, KeepsAlive(q), q # r
        PROVE  rsol[q] # s
    BY <1>0, <2>3 DEF LockInv, MutualExclusion
  <2>4. Keepers(s) = {r}
    BY <1>0, <2>3 DEF Keepers
  <2>5. ASSUME NEW t \in Solutions
        PROVE  Keepers(t)' = IF t = s THEN {} ELSE Keepers(t)
    BY <2>2, <2>3 DEF Keepers
  <2>6. Kept' = [Kept EXCEPT ![s] = {}]
    BY <2>5 DEF Kept
  <2>7. Kept[s] = {r}
    BY <1>0, <2>4 DEF Kept
  <2>8. TheLeases!Release(s, r)
    BY <2>1, <2>6, <2>7 DEF TheLeases!Release, Taken, Kept
  <2> QED
    BY <1>0, <2>8 DEF TheLeases!Next
<1>2. CASE UnlockDel(r) /\ lock' = lock
  <2>1. OnlyLeave({r})
    BY <1>2 DEF UnlockDel, OnlyLeave, Taken, KeepsAlive, InLock
  <2> QED
    BY <2>1, LeavingRefines
<1>3. CASE DelSoln(r) \/ Unlock(r)
  <2>1. OnlyLeave({}) \/ OnlyLeave({r})
    BY <1>3 DEF DelSoln, Unlock, OnlyLeave, Taken, KeepsAlive, InLock
  <2> QED
    BY <2>1, LeavingRefines
<1> QED
  BY <1>1, <1>2, <1>3

\* A manager's death abandons all that its runs kept; its locks stay taken.
LEMMA DiesRefines ==
  ASSUME TypeInv, NEW m \in Managers, Dies(m)
  PROVE  TheLeases!Next
<1> DEFINE C == {r \in Runs : rmgr[r] = m}
<1>1. OnlyLeave(C)
  <2>1. Taken' = Taken
    BY DEF Dies, Taken, TypeInv, TypeOK
  <2>2. ASSUME NEW q \in Runs
        PROVE  /\ KeepsAlive(q)' <=> KeepsAlive(q) /\ q \notin C
               /\ KeepsAlive(q)' => rsol'[q] = rsol[q]
    BY DEF Dies, KeepsAlive, InLock, TypeInv, TypeOK
  <2> QED
    BY <2>1, <2>2 DEF OnlyLeave
<1> QED
  BY <1>1, LeavingRefines

\* All the steps of a run.
LEMMA RunRefines ==
  ASSUME TypeInv, LockInv, NEW r \in Runs, Run(r) \/ Disturbed(r)
  PROVE  TheLeases!Next
<1> USE DEF TypeInv, TypeOK, Shape
<1>1. CASE \/ RunNew(r) \/ JudgeOk(r) \/ JudgeErr(r) \/ JudgeCompletes(r)
           \/ JudgePanics(r) \/ Close(r) \/ Fail(r) \/ Release(r)
  <2>1. OnlyLeave({})
    BY <1>1 DEF RunNew, JudgeOk, JudgeErr, JudgeCompletes, JudgePanics, Close,
                Fail, Release, OnlyLeave, Taken, KeepsAlive, InLock
  <2> QED
    BY <2>1, LeavingRefines
<1>2. CASE BeatFails(r)
  <2>1. OnlyLeave({r})
    BY <1>2 DEF BeatFails, OnlyLeave, Taken, KeepsAlive, InLock
  <2> QED
    BY <2>1, LeavingRefines
<1>3. CASE PanicKills(r)
  <2>1. rmgr[r] \in Managers /\ Dies(rmgr[r])
    BY <1>3 DEF PanicKills
  <2> QED
    BY <2>1, DiesRefines
<1> QED
  BY <1>1, <1>2, <1>3, TryLockRefines, UnlockRefines
     DEF Run, Disturbed, Judge, Cleanup

\* A lock that expires is kept by nobody: its lease lapses.
LEMMA ExpiryRefines ==
  ASSUME "stall" \notin Faults, TypeInv, NEW s \in Solutions, LockExpires(s)
  PROVE  TheLeases!Next
<1>1. s \in Taken /\ Taken' = Taken \ {s}
  BY DEF LockExpires, Taken, TypeInv, TypeOK
<1>2. Keepers(s) = {}
  BY DEF LockExpires, Keepers
<1>3. Kept' = Kept /\ Kept[s] = {}
  BY <1>2 DEF LockExpires, Kept, Keepers, KeepsAlive, InLock
<1>4. TheLeases!Lapse(s)
  BY <1>1, <1>3 DEF TheLeases!Lapse, Taken, Kept
<1> QED
  BY <1>4 DEF TheLeases!Next

\* While goroutines are served in time, the locks of any number of managers
\* are a table of exclusive leases: every step of poll loops, janitors, runs,
\* crashes and expiries is a step of the table, or leaves it as it is.
THEOREM LocksAreLeases ==
  ASSUME "stall" \notin Faults
  PROVE  Spec => LeasesSpec
<1>1. Init => TheLeases!Init
  BY DEF Init, TheLeases!Init, Keepers, KeepsAlive, InLock
<1>2. TypeInv /\ LockInv /\ [Next]_vars => [TheLeases!Next]_(TheLeases!vars)
  <2> SUFFICES ASSUME TypeInv, LockInv, [Next]_vars
               PROVE  TheLeases!Next \/ UNCHANGED <<Taken, Kept>>
    BY DEF TheLeases!vars, Taken, Kept
  <2>1. CASE UNCHANGED vars
    BY <2>1 DEF Taken, Kept, Keepers, KeepsAlive, InLock
  <2>2. ASSUME NEW m \in Managers,
               \/ Poller(m) \/ JanitorList(m)
               \/ \E s \in Solutions : JanitorCheck(m, s)
        PROVE  TheLeases!Next
    <3>1. UNCHANGED lock
      BY <2>2 DEF Poller, PollRequest, PollAoi, Admit, AdmitFails, Refuse,
                  GiveBack, JanitorList, JanitorCheck
    <3>2. UNCHANGED runVars \/ \E s : Spawn(m, s)
      BY <2>2 DEF Poller, PollRequest, PollAoi, Admit, AdmitFails, Refuse,
                  GiveBack, JanitorList, JanitorCheck
    <3>3. OnlyLeave({})
      BY <3>1, <3>2 DEF OnlyLeave, Taken, KeepsAlive, InLock, TypeInv, TypeOK
    <3> QED
      BY <3>3, LeavingRefines
  <2>3. ASSUME NEW m \in Managers, Crash(m)
        PROVE  TheLeases!Next
    BY <2>3, DiesRefines DEF Crash
  <2> QED
    BY <2>1, <2>2, <2>3, RunRefines, ExpiryRefines DEF Next
<1>3. TypeInv /\ LockInv /\ [Next]_vars => LockInv'
  BY NextLockInv
<1> QED
  BY <1>1, <1>2, <1>3, InitLockInv, TypeInvariance, PTL
     DEF Spec, LeasesSpec, TheLeases!Spec

\* Under the same assumption a stored solution is removed only by a run that
\* keeps its lock.
THEOREM HolderRemoves ==
  ASSUME "stall" \notin Faults
  PROVE  Spec => OnlyHolderRemoves
<1> DEFINE Removes(s) ==
      \E r \in Keepers(s) : rpc[r] = "delsoln" /\ lock[s] = rmgr[r]
<1>1. TypeInv /\ LockInv /\ [Next]_vars
        => [\A s \in soln \ soln' : Removes(s)]_vars
  <2> SUFFICES ASSUME TypeInv, LockInv, Next, NEW s \in soln \ soln'
               PROVE  Removes(s)
    OBVIOUS
  <2>1. ~ \E m \in Managers :
            \/ Poller(m) \/ JanitorList(m) \/ Crash(m)
            \/ \E t \in Solutions : JanitorCheck(m, t)
    BY DEF Poller, PollRequest, PollAoi, Admit, AdmitFails, Refuse, GiveBack,
           JanitorList, JanitorCheck, Crash
  <2>2. ~ \E t \in Solutions : LockExpires(t)
    BY DEF LockExpires
  <2>3. PICK r \in Runs : Run(r) \/ Disturbed(r)
    BY <2>1, <2>2 DEF Next
  <2>4. DelSoln(r)
    BY <2>3 DEF Run, Disturbed, Judge, Cleanup, RunNew, TryLock, TryLockFails,
                JudgeOk, JudgeErr, JudgeCompletes, JudgePanics, BeatFails, Close,
                Unlock, UnlockDel, Fail, Release, PanicKills
  <2>5. s = rsol[r] /\ rpc[r] = "delsoln"
    BY <2>4 DEF DelSoln
  <2>6. KeepsAlive(r)
    BY <2>5 DEF LockInv, Released, KeepsAlive, InLock
  <2> QED
    BY <2>5, <2>6 DEF LockInv, KeeperHoldsLock, Keepers
<1>2. TypeInv /\ LockInv /\ [Next]_vars => LockInv'
  BY NextLockInv
<1> QED
  BY <1>1, <1>2, InitLockInv, TypeInvariance, PTL DEF Spec, OnlyHolderRemoves

-----------------------------------------------------------------------------
(***************************************************************************)
(* No assigned task is out of sight but for what NoOrphanTask names.  The  *)
(* invariant needs to know that a session without an error has completed   *)
(* its task before its solution leaves the store, or has lost it: with the *)
(* last Complete or in a panic.                                            *)
(***************************************************************************)
Cleaning == {"close", "delsoln", "unlock", "unlockdel"}

UnfailedIsThrough ==
  \A r \in Runs :
    rpc[r] \in Cleaning /\ ~failed[r] =>
      task[rsol[r]] = "completed" \/ rsol[r] \in lost

TaskInv == NoOrphanTask /\ UnfailedIsThrough

\* No task is assigned when the manager starts.
LEMMA InitTaskInv == Init => TaskInv
BY DEF Init, TaskInv, NoOrphanTask, UnfailedIsThrough, Cleaning

\* A manager's death loses what its poll loop had in hand and what its runs
\* were about to fail, and no other task.
LEMMA DiesTaskInv ==
  ASSUME TypeInv, TaskInv, NEW m \in Managers, Dies(m), UNCHANGED <<soln, task>>
  PROVE  TaskInv'
<1> USE DEF TypeInv, TypeOK, Shape, TaskInv, NoOrphanTask, UnfailedIsThrough,
            Cleaning, AboutToFail, Dies
<1>1. NoOrphanTask'
  <2> SUFFICES ASSUME NEW s \in Solutions, task[s] = "assigned", s \notin soln,
                      s \notin lost'
               PROVE  \/ \E n \in Managers : psol'[n] = s
                      \/ \E r \in AboutToFail' : rsol'[r] = s
    BY DEF NoOrphanTask
  <2>1. CASE \E n \in Managers : psol[n] = s
    <3>1. PICK n \in Managers : psol[n] = s
      BY <2>1
    <3>2. n # m
      BY <3>1 DEF Dies
    <3> QED
      BY <3>1, <3>2 DEF Dies
  <2>2. CASE \E r \in AboutToFail : rsol[r] = s
    <3>1. PICK r \in AboutToFail : rsol[r] = s
      BY <2>2
    <3>2. rmgr[r] # m
      BY <3>1 DEF Dies
    <3> QED
      BY <3>1, <3>2 DEF Dies
  <2>3. s \notin lost
    BY DEF Dies
  <2> QED
    BY <2>1, <2>2, <2>3 DEF NoOrphanTask
<1>2. UnfailedIsThrough'
  BY DEF Dies
<1> QED
  BY <1>1, <1>2

\* The poll loop's steps.
LEMMA PollerTaskInv ==
  ASSUME TypeInv, TaskInv, NEW m \in Managers, Poller(m)
  PROVE  TaskInv'
<1> USE DEF TypeInv, TypeOK, Shape, TaskInv, NoOrphanTask, UnfailedIsThrough,
            Cleaning, AboutToFail
<1>1. CASE PollRequest(m)
  BY <1>1 DEF PollRequest
<1>2. CASE PollAoi(m)
  BY <1>2 DEF PollAoi
<1>3. CASE Admit(m)
  BY <1>3 DEF Admit
<1>4. CASE AdmitFails(m)
  BY <1>4 DEF AdmitFails
<1>5. CASE Refuse(m)
  BY <1>5 DEF Refuse
<1>6. CASE GiveBack(m)
  BY <1>6 DEF GiveBack
<1> QED
  BY <1>1, <1>2, <1>3, <1>4, <1>5, <1>6 DEF Poller

\* The steps of a run.
LEMMA RunTaskInv ==
  ASSUME TypeInv, TaskInv, NEW r \in Runs, Run(r) \/ Disturbed(r)
  PROVE  TaskInv'
<1> USE DEF TypeInv, TypeOK, Shape, TaskInv, NoOrphanTask, UnfailedIsThrough,
            Cleaning, AboutToFail
<1>0. Live(r) => rsol[r] \in Solutions /\ rmgr[r] \in Managers
  OBVIOUS
<1>1. CASE RunNew(r)
  BY <1>1 DEF RunNew
<1>2. CASE TryLock(r)
  BY <1>2 DEF TryLock
<1>3. CASE TryLockFails(r)
  BY <1>3 DEF TryLockFails
<1>4. CASE JudgeCompletes(r)
  BY <1>0, <1>4 DEF JudgeCompletes
<1>5. CASE JudgeOk(r)
  BY <1>0, <1>5 DEF JudgeOk
<1>6. CASE JudgeErr(r)
  BY <1>6 DEF JudgeErr
<1>7. CASE BeatFails(r)
  BY <1>7 DEF BeatFails
<1>8. CASE Close(r)
  BY <1>8 DEF Close
<1>9. CASE DelSoln(r)
  BY <1>0, <1>9 DEF DelSoln
<1>10. CASE Unlock(r)
  BY <1>10 DEF Unlock
<1>11. CASE UnlockDel(r)
  BY <1>11 DEF UnlockDel
<1>12. CASE Fail(r)
  BY <1>0, <1>12 DEF Fail
<1>13. CASE Release(r)
  BY <1>13 DEF Release
<1>14. CASE JudgePanics(r)
  BY <1>0, <1>14 DEF JudgePanics
<1>15. CASE PanicKills(r)
  <2>1. rmgr[r] \in Managers /\ Dies(rmgr[r]) /\ UNCHANGED <<soln, task>>
    BY <1>0, <1>15 DEF PanicKills
  <2> QED
    BY <2>1, DiesTaskInv
<1> QED
  BY <1>1, <1>2, <1>3, <1>4, <1>5, <1>6, <1>7, <1>8, <1>9, <1>10, <1>11,
     <1>12, <1>13, <1>14, <1>15 DEF Run, Disturbed, Judge, Cleanup

\* No step of anyone leaves an assigned task to nobody, unless it is one of
\* those that NoOrphanTask names.
LEMMA NextTaskInv == TypeInv /\ TaskInv /\ [Next]_vars => TaskInv'
<1> SUFFICES ASSUME TypeInv, TaskInv, [Next]_vars
             PROVE  TaskInv'
  OBVIOUS
<1>1. CASE UNCHANGED vars
  BY <1>1 DEF TaskInv, NoOrphanTask, UnfailedIsThrough, AboutToFail
<1>2. ASSUME NEW m \in Managers, JanitorList(m)
      PROVE  TaskInv'
  BY <1>2 DEF JanitorList, TaskInv, NoOrphanTask, UnfailedIsThrough, AboutToFail
<1>3. ASSUME NEW m \in Managers, NEW s \in Solutions, JanitorCheck(m, s)
      PROVE  TaskInv'
  BY <1>3 DEF JanitorCheck, TypeInv, TypeOK, Shape, TaskInv, NoOrphanTask,
              UnfailedIsThrough, AboutToFail, Cleaning
<1>4. ASSUME NEW m \in Managers, Crash(m)
      PROVE  TaskInv'
  BY <1>4, DiesTaskInv DEF Crash
<1>5. ASSUME NEW s \in Solutions, LockExpires(s)
      PROVE  TaskInv'
  BY <1>5 DEF LockExpires, TaskInv, NoOrphanTask, UnfailedIsThrough, AboutToFail
<1> QED
  BY <1>1, <1>2, <1>3, <1>4, <1>5, PollerTaskInv, RunTaskInv DEF Next

\* Through crashes, panics and faults of Redis and of the AOI server, and
\* however late locks are refreshed: what takes an assigned task out of sight
\* is one of the steps that NoOrphanTask names, and nothing else.
THEOREM NoTaskLost == Spec => []NoOrphanTask
<1>1. TaskInv => NoOrphanTask
  BY DEF TaskInv
<1> QED
  BY <1>1, InitTaskInv, NextTaskInv, TypeInvariance, PTL DEF Spec

NothingLost == lost = {}

\* Requests that are answered and managers that live lose no task.
LEMMA NextNothingLost ==
  ASSUME "aoi" \notin Faults, MaxCrashes = 0
  PROVE  TypeInv /\ NothingLost /\ [Next]_vars => NothingLost'
<1> SUFFICES ASSUME TypeInv, NothingLost, [Next]_vars
             PROVE  UNCHANGED lost
  BY DEF NothingLost
<1> USE DEF TypeInv, TypeOK, Shape
<1>1. ASSUME NEW m \in Managers, Poller(m)
      PROVE  UNCHANGED lost
  BY <1>1 DEF Poller, PollRequest, PollAoi, Admit, AdmitFails, Refuse, GiveBack
<1>2. ASSUME NEW m \in Managers, JanitorList(m) \/ Crash(m)
      PROVE  UNCHANGED lost
  BY <1>2 DEF JanitorList, Crash
<1>3. ASSUME NEW m \in Managers, NEW s \in Solutions, JanitorCheck(m, s)
      PROVE  UNCHANGED lost
  BY <1>3 DEF JanitorCheck
<1>4. ASSUME NEW r \in Runs, Run(r)
      PROVE  UNCHANGED lost
  <2>1. ~PanicKills(r)
    BY DEF PanicKills
  <2> QED
    BY <1>4, <2>1 DEF Run, Judge, Cleanup, RunNew, TryLock, JudgeOk, JudgeErr,
                      Close, DelSoln, Unlock, UnlockDel, Fail, Release
<1>5. ASSUME NEW r \in Runs, Disturbed(r)
      PROVE  UNCHANGED lost
  BY <1>5 DEF Disturbed, TryLockFails, JudgeCompletes, JudgePanics, BeatFails
<1>6. ASSUME NEW s \in Solutions, LockExpires(s)
      PROVE  UNCHANGED lost
  BY <1>6 DEF LockExpires
<1> QED
  BY <1>1, <1>2, <1>3, <1>4, <1>5, <1>6 DEF Next

\* Without crashes and with an AOI server that answers, the last Complete is
\* done: only its lost errors make the comment of pullJobLogs untrue.
THEOREM UnfailedCompletes ==
  ASSUME "aoi" \notin Faults, MaxCrashes = 0
  PROVE  Spec => []UnfailedRunCompletes
<1>1. Init => NothingLost
  BY DEF Init, NothingLost
<1>2. TypeInv /\ NothingLost /\ [Next]_vars => NothingLost'
  BY NextNothingLost
<1>3. TaskInv /\ NothingLost => UnfailedRunCompletes
  BY DEF TaskInv, UnfailedIsThrough, Cleaning, NothingLost, UnfailedRunCompletes
<1> QED
  BY <1>1, <1>2, <1>3, InitTaskInv, NextTaskInv, TypeInvariance, PTL DEF Spec

-----------------------------------------------------------------------------
(***************************************************************************)
(* The slots of the rate limiter.  Every step moves at most one poll loop  *)
(* or one run in or out of the sets that hold slots.                       *)
(***************************************************************************)
Awake == {m \in Managers : ppc[m] # "sleep"}
LiveRuns == {r \in Runs : Live(r)}

\* The poll loop: a slot comes with waking up, leaves with falling asleep,
\* and is handed over to the run that is started.
LEMMA PollerSlots ==
  ASSUME TypeInv, "redis" \notin Faults, NEW m \in Managers, Poller(m)
  PROVE  \/ /\ Same(LiveRuns, LiveRuns')
            /\ \/ Same(Awake, Awake') /\ current' = current
               \/ Joins(m, Awake, Awake') /\ current' = current + 1
               \/ Parts(m, Awake, Awake') /\ current' = Freed
         \/ /\ Parts(m, Awake, Awake') /\ current' = current
            /\ \E r \in Runs : Joins(r, LiveRuns, LiveRuns')
<1> USE DEF TypeInv, TypeOK, Awake, LiveRuns, Same, Joins, Parts
<1>1. CASE PollRequest(m)
  BY <1>1 DEF PollRequest
<1>2. CASE PollAoi(m)
  BY <1>2 DEF PollAoi
<1>3. CASE Admit(m)
  BY <1>3 DEF Admit
<1>4. CASE AdmitFails(m) \/ Refuse(m)
  BY <1>4 DEF AdmitFails, Refuse
<1>5. CASE GiveBack(m)
  BY <1>5 DEF GiveBack
<1> QED
  BY <1>1, <1>2, <1>3, <1>4, <1>5 DEF Poller

\* Janitors and runs: only Release takes a run out, and it frees a slot.
LEMMA RunSlots ==
  ASSUME TypeInv, "redis" \notin Faults, crashes = 0, crashes' = 0,
         \/ \E m \in Managers :
              JanitorList(m) \/ \E s \in Solutions : JanitorCheck(m, s)
         \/ \E r \in Runs : Run(r) \/ Disturbed(r)
         \/ \E s \in Solutions : LockExpires(s)
  PROVE  /\ Same(Awake, Awake')
         /\ \/ Same(LiveRuns, LiveRuns') /\ current' = current
            \/ \E r \in Runs :
                 \/ Joins(r, LiveRuns, LiveRuns') /\ current' = current
                 \/ Parts(r, LiveRuns, LiveRuns') /\ current' = Freed
<1> USE DEF TypeInv, TypeOK, Awake, LiveRuns, Same, Joins, Parts
<1>1. ASSUME NEW m \in Managers, JanitorList(m)
      PROVE  UNCHANGED <<Awake, LiveRuns, current>>
  BY <1>1 DEF JanitorList
<1>2. ASSUME NEW m \in Managers, NEW s \in Solutions, JanitorCheck(m, s)
      PROVE  /\ UNCHANGED <<Awake, current>>
             /\ \/ UNCHANGED LiveRuns
                \/ \E r \in Runs : Joins(r, LiveRuns, LiveRuns')
  BY <1>2 DEF JanitorCheck
<1>3. ASSUME NEW r \in Runs, Release(r)
      PROVE  /\ UNCHANGED Awake /\ current' = Freed
             /\ Parts(r, LiveRuns, LiveRuns')
  BY <1>3 DEF Release
<1>4. ASSUME NEW r \in Runs, ~Release(r), Run(r) \/ Disturbed(r)
      PROVE  UNCHANGED <<Awake, LiveRuns, current>>
  <2>0. ~JudgePanics(r) /\ ~PanicKills(r)
    BY DEF JudgePanics, PanicKills, Shape
  <2>1. UNCHANGED <<ppc, current>>
    BY <1>4, <2>0 DEF Run, Disturbed, Judge, Cleanup, RunNew, TryLock, TryLockFails, JudgeOk,
                JudgeErr, JudgeCompletes, BeatFails, Close, DelSoln, Unlock,
                UnlockDel, Fail
  <2>2. \/ UNCHANGED rpc
        \/ /\ rpc[r] # "idle"
           /\ \E label \in RunPCs \ {"idle"} : rpc' = [rpc EXCEPT ![r] = label]
    BY <1>4, <2>0 DEF Run, Disturbed, Judge, Cleanup, RunNew, TryLock,
                TryLockFails, JudgeOk, JudgeErr, JudgeCompletes, BeatFails, Close,
                DelSoln, Unlock, UnlockDel, Fail
  <2> QED
    BY <2>1, <2>2
<1>5. ASSUME NEW s \in Solutions, LockExpires(s)
      PROVE  UNCHANGED <<Awake, LiveRuns, current>>
  BY <1>5 DEF LockExpires
<1> QED
  BY <1>1, <1>2, <1>3, <1>4, <1>5

SlotsFit ==
  /\ IsFiniteSet(Awake) /\ IsFiniteSet(LiveRuns)
  /\ current <= Cardinality(Awake) + Cardinality(LiveRuns)

SlotInv == crashes = 0 => SlotsFit

\* Without faults, every step takes and gives back slots one for one.
LEMMA NextSlotInv ==
  ASSUME "redis" \notin Faults
  PROVE  TypeInv /\ SlotInv /\ [Next]_vars => SlotInv'
<1> SUFFICES ASSUME TypeInv, SlotInv, [Next]_vars, crashes' = 0
             PROVE  SlotsFit'
  BY DEF SlotInv
<1>0. crashes = 0 /\ ~ \E m \in Managers : Crash(m)
  <2>1. crashes \in Nat /\ crashes' \in {crashes, crashes + 1}
    <3>1. CASE UNCHANGED vars
      BY <3>1 DEF TypeInv, TypeOK
    <3>2. CASE \E m \in Managers : Poller(m)
      BY <3>2 DEF TypeInv, TypeOK, Poller, PollRequest, PollAoi, Admit,
                  AdmitFails, Refuse, GiveBack
    <3>3. CASE \E m \in Managers : JanitorList(m) \/ Crash(m)
      BY <3>3 DEF TypeInv, TypeOK, JanitorList, Crash
    <3>4. CASE \E m \in Managers, s \in Solutions : JanitorCheck(m, s)
      BY <3>4 DEF TypeInv, TypeOK, JanitorCheck
    <3>5. CASE \E r \in Runs : Run(r)
      BY <3>5 DEF TypeInv, TypeOK, Run, Judge, Cleanup, RunNew, TryLock,
                  JudgeOk, JudgeErr, Close, DelSoln, Unlock, UnlockDel, Fail,
                  Release, PanicKills
    <3>6. CASE \E r \in Runs : Disturbed(r)
      BY <3>6 DEF TypeInv, TypeOK, Disturbed, TryLockFails, JudgeCompletes,
                  JudgePanics, BeatFails
    <3>7. CASE \E s \in Solutions : LockExpires(s)
      BY <3>7 DEF TypeInv, TypeOK, LockExpires
    <3> QED
      BY <3>1, <3>2, <3>3, <3>4, <3>5, <3>6, <3>7 DEF Next
  <2> QED
    BY <2>1 DEF Crash
<1> USE <1>0
<1>10. SlotsFit
  BY DEF SlotInv
<1>1. current \in Nat /\ current' \in Nat
  BY NextTypeInv DEF TypeInv, TypeOK
<1>2. PICK m, r :
        \/ Same(Awake, Awake') /\ Same(LiveRuns, LiveRuns') /\ current' = current
        \/ /\ Same(LiveRuns, LiveRuns')
           /\ \/ Joins(m, Awake, Awake') /\ current' = current + 1
              \/ Parts(m, Awake, Awake') /\ current' = Freed
        \/ /\ Parts(m, Awake, Awake') /\ current' = current
           /\ Joins(r, LiveRuns, LiveRuns')
        \/ /\ Same(Awake, Awake')
           /\ \/ Joins(r, LiveRuns, LiveRuns') /\ current' = current
              \/ Parts(r, LiveRuns, LiveRuns') /\ current' = Freed
  <2>1. CASE UNCHANGED vars
    BY <2>1 DEF Same, Awake, LiveRuns
  <2>3. CASE \E m \in Managers : Poller(m)
    BY <2>3, PollerSlots
  <2>4. CASE ~ \E m \in Managers : Poller(m)
    BY <2>1, <2>4, RunSlots DEF Next
  <2> QED
    BY <2>3, <2>4
<1>3. /\ Cardinality(Awake) \in Nat
      /\ Same(Awake, Awake') =>
           IsFiniteSet(Awake') /\ Cardinality(Awake') = Cardinality(Awake)
      /\ Joins(m, Awake, Awake') =>
           IsFiniteSet(Awake') /\ Cardinality(Awake') = Cardinality(Awake) + 1
      /\ Parts(m, Awake, Awake') =>
           IsFiniteSet(Awake') /\ Cardinality(Awake') = Cardinality(Awake) - 1
  BY <1>10, SizeChange DEF SlotsFit
<1>4. /\ Cardinality(LiveRuns) \in Nat
      /\ Same(LiveRuns, LiveRuns') =>
           /\ IsFiniteSet(LiveRuns')
           /\ Cardinality(LiveRuns') = Cardinality(LiveRuns)
      /\ Joins(r, LiveRuns, LiveRuns') =>
           /\ IsFiniteSet(LiveRuns')
           /\ Cardinality(LiveRuns') = Cardinality(LiveRuns) + 1
      /\ Parts(r, LiveRuns, LiveRuns') =>
           /\ IsFiniteSet(LiveRuns')
           /\ Cardinality(LiveRuns') = Cardinality(LiveRuns) - 1
  BY <1>10, SizeChange DEF SlotsFit
<1>5. IsFiniteSet(Awake') /\ IsFiniteSet(LiveRuns')
  BY <1>2, <1>3, <1>4
<1>6. Cardinality(Awake') \in Nat /\ Cardinality(LiveRuns') \in Nat
  BY <1>5, FS_CardinalityType
<1>7. current' <= Cardinality(Awake') + Cardinality(LiveRuns')
  <2> HIDE DEF Same, Joins, Parts, Awake, LiveRuns
  <2> QED
    BY <1>10, <1>1, <1>2, <1>3, <1>4, <1>6 DEF SlotsFit
<1> QED
  BY <1>5, <1>7 DEF SlotsFit

\* While no manager dies and Redis answers, no slot leaks.
THEOREM SlotsDoNotLeak ==
  ASSUME "redis" \notin Faults
  PROVE  Spec => []NoSlotLeak
<1>1. Init => SlotInv
  <2> SUFFICES ASSUME Init
               PROVE  SlotsFit
    BY DEF SlotInv
  <2>1. Awake = {} /\ LiveRuns = {} /\ current = 0
    BY DEF Init, Awake, LiveRuns
  <2> QED
    BY <2>1, FS_EmptySet DEF SlotsFit
<1>2. TypeInv /\ SlotInv /\ [Next]_vars => SlotInv'
  BY NextSlotInv
<1>3. SlotInv => NoSlotLeak
  BY DEF SlotInv, SlotsFit, NoSlotLeak, Awake, LiveRuns
<1> QED
  BY <1>1, <1>2, <1>3, TypeInvariance, PTL DEF Spec

=============================================================================
