-------------------------- MODULE ThreadPoolProofs --------------------------
(***************************************************************************)
(* What the thread pool promises for any number of jobs and workers.       *)
(***************************************************************************)
EXTENDS ThreadPool, SetSizes, FiniteSetTheorems, TLAPS

USE PoolAssumption

\* Where the dispatcher is goes with what is left to hand out, and with
\* whether a job can still be handed out after Cancel.
DispatcherInv ==
  /\ dispatcher = "new" => next = 0
  /\ dispatcher = "send" => next < N /\ late = 0
  /\ dispatcher \in {"wait", "finished"} => next = N
  /\ ~cancelled => late = 0
  /\ late <= 1
  /\ dispatcher = "gone" => cancelled

\* The wait group counts the busy workers, and the job that the dispatcher
\* holds, or held when it saw cancelCh closed.
Held == IF dispatcher \in {"send", "gone"} THEN 1 ELSE 0

WgInv == IsFiniteSet(Busy) /\ wg = Cardinality(Busy) + Held

PoolInv ==
  /\ PoolTypeOK /\ DispatcherInv /\ HandedOutOnce /\ WgInv /\ FinishedIsComplete

\* A worker whose turn it is is a worker.
LEMMA TurnIsWorker ==
  ASSUME PoolTypeOK, next < N
  PROVE  Turn \in Workers
<1>1. next \in Nat /\ N > 0
  BY DEF PoolTypeOK
<1>2. W \in Nat /\ W > 0
  BY <1>1
<1>3. next % W \in 0 .. W - 1
  BY <1>1, <1>2
<1> QED
  BY <1>3 DEF Turn, Workers

\* The pool as it is created.
LEMMA InitPoolInv == PoolInit => PoolInv
<1> SUFFICES ASSUME PoolInit
             PROVE  PoolInv
  OBVIOUS
<1>1. Busy = {}
  BY DEF PoolInit, Busy
<1>2. WgInv
  BY <1>1, FS_EmptySet DEF PoolInit, WgInv, Held
<1>3. PoolTypeOK /\ DispatcherInv /\ FinishedIsComplete
  <2>1. PoolTypeOK
    <3>1. hand \in [Workers -> Jobs \union {NoJob}]
      BY DEF PoolInit
    <3>2. next \in 0 .. N /\ wg \in Nat /\ late \in Nat
      BY DEF PoolInit
    <3>3. dispatcher \in DispatcherPCs /\ exited \subseteq Workers
          /\ cancelled \in BOOLEAN /\ done \subseteq Jobs
      BY DEF PoolInit, DispatcherPCs
    <3> QED
      BY <3>1, <3>2, <3>3 DEF PoolTypeOK
  <2>2. DispatcherInv
    BY DEF PoolInit, DispatcherInv
  <2>3. FinishedIsComplete
    BY DEF PoolInit, FinishedIsComplete, Finished
  <2> QED
    BY <2>1, <2>2, <2>3
<1>4. HandedOutOnce
  <2>1. \A j \in Jobs : ~(j < next) /\ j # NoJob
    BY DEF PoolInit, Jobs
  <2>2. done = {} /\ \A w \in Workers : hand[w] = NoJob
    BY DEF PoolInit
  <2> QED
    BY <2>1, <2>2 DEF HandedOutOnce
<1> QED
  BY <1>2, <1>3, <1>4 DEF PoolInv

\* How a step changes the set of busy workers.
LEMMA BusyChange ==
  ASSUME PoolInv, [PoolNext]_poolVars
  PROVE  \/ Same(Busy, Busy') /\ UNCHANGED <<hand, done>> /\ late' = late
         \/ Send /\ Joins(Turn, Busy, Busy')
         \/ \E w \in Workers : JobReturns(w) /\ Parts(w, Busy, Busy')
<1> USE DEF Same, Joins, Parts, Busy, poolVars, workerVars
<1>1. CASE Send
  <2>1. Turn \in Workers /\ next \in Jobs /\ next # NoJob
    BY <1>1, TurnIsWorker DEF Send, PoolInv, PoolTypeOK, DispatcherInv, Jobs
  <2> QED
    BY <1>1, <2>1 DEF Send, PoolInv, PoolTypeOK
<1>2. ASSUME NEW w \in Workers, JobReturns(w)
      PROVE  Parts(w, Busy, Busy')
  BY <1>2 DEF JobReturns, PoolInv, PoolTypeOK
<1>3. CASE UNCHANGED <<hand, done, late>>
  BY <1>3
<1> QED
  BY <1>1, <1>2, <1>3 DEF PoolNext, Dispatch, Start, NextJob, CloseWorkers,
                          Finish, Cancel, WorkerExits

\* The wait group keeps counting right.
LEMMA NextWgInv ==
  ASSUME PoolInv, [PoolNext]_poolVars
  PROVE  WgInv' /\ wg' \in Nat
<1>1. IsFiniteSet(Busy) /\ wg = Cardinality(Busy) + Held /\ wg \in Nat
  BY DEF PoolInv, WgInv, PoolTypeOK
<1>2. Cardinality(Busy) \in Nat /\ Held \in {0, 1} /\ Held' \in {0, 1}
  BY <1>1, FS_CardinalityType DEF Held
<1>3. CASE Send /\ Joins(Turn, Busy, Busy')
  <2>1. IsFiniteSet(Busy') /\ Cardinality(Busy') = Cardinality(Busy) + 1
    BY <1>1, <1>3, SizeChange
  <2>2. wg' = wg /\ Held = 1 /\ Held' = 0
    BY <1>3 DEF Send, Held
  <2> QED
    BY <1>1, <1>2, <2>1, <2>2 DEF WgInv
<1>4. ASSUME NEW w \in Workers, JobReturns(w), Parts(w, Busy, Busy')
      PROVE  WgInv' /\ wg' \in Nat
  <2>1. /\ IsFiniteSet(Busy') /\ Cardinality(Busy') = Cardinality(Busy) - 1
        /\ Cardinality(Busy') \in Nat
    BY <1>1, <1>4, SizeChange, FS_CardinalityType
  <2>2. wg' = wg - 1 /\ Held' = Held
    BY <1>4 DEF JobReturns, Held
  <2> QED
    BY <1>1, <1>2, <2>1, <2>2 DEF WgInv
<1>5. CASE Same(Busy, Busy') /\ UNCHANGED <<hand, done>> /\ late' = late
  <2>1. Busy' = Busy
    BY <1>5 DEF Same
  <2>2. wg' - Held' = wg - Held
    <3>1. CASE NextJob
      BY <1>1, <3>1 DEF NextJob, Held
    <3>2. CASE UNCHANGED poolVars
      BY <3>2 DEF poolVars, Held
    <3>3. CASE Send \/ \E w \in Workers : JobReturns(w)
      <4>1. ~Send
        <5> SUFFICES ASSUME Send
                     PROVE  FALSE
          OBVIOUS
        <5>1. Turn \in Workers /\ next \in Jobs /\ next # NoJob
          BY TurnIsWorker DEF Send, PoolInv, PoolTypeOK, DispatcherInv, Jobs
        <5> QED
          BY <1>5, <5>1 DEF Send, PoolInv, PoolTypeOK
      <4>2. ASSUME NEW w \in Workers
            PROVE  ~JobReturns(w)
        BY <1>5 DEF JobReturns, PoolInv, PoolTypeOK
      <4> QED
        BY <3>3, <4>1, <4>2
    <3>4. CASE Start \/ CloseWorkers \/ Finish \/ Cancel
               \/ \E w \in Workers : WorkerExits(w)
      BY <1>1, <3>4 DEF Start, CloseWorkers, Finish, Cancel, WorkerExits, Held
    <3> QED
      BY <3>1, <3>2, <3>3, <3>4 DEF PoolNext, Dispatch
  <2>3. wg' \in Int
    BY <1>1, <1>2 DEF PoolNext, Dispatch, Start, NextJob, Send, CloseWorkers,
       Finish, Cancel, WorkerExits, JobReturns, poolVars
  <2> QED
    BY <1>1, <1>2, <2>1, <2>2, <2>3 DEF WgInv
<1> QED
  BY <1>3, <1>4, <1>5, BusyChange

\* The types, the dispatcher's place, and what is handed out.
LEMMA NextPoolInv == PoolInv /\ [PoolNext]_poolVars => PoolInv'
<1> SUFFICES ASSUME PoolInv, [PoolNext]_poolVars
             PROVE  PoolInv'
  OBVIOUS
<1>1. WgInv' /\ wg' \in Nat
  BY NextWgInv
<1>2. PoolTypeOK /\ DispatcherInv /\ HandedOutOnce /\ FinishedIsComplete
  BY DEF PoolInv
<1>3. CASE Send
  <2>1. /\ Turn \in Workers /\ next \in Jobs /\ next # NoJob /\ hand[Turn] = NoJob
        /\ hand' = [hand EXCEPT ![Turn] = next] /\ next' = next + 1
    BY <1>2, <1>3, TurnIsWorker DEF Send, PoolTypeOK, DispatcherInv, Jobs
  <2>2. PoolTypeOK'
    BY <1>1, <1>2, <1>3, <2>1 DEF Send, PoolTypeOK, DispatcherPCs, Jobs
  <2>3. DispatcherInv'
    BY <1>2, <1>3 DEF Send, DispatcherInv, PoolTypeOK
  <2>4. HandedOutOnce'
    BY <1>2, <1>3, <2>1 DEF Send, HandedOutOnce, PoolTypeOK, Jobs
  <2>5. FinishedIsComplete'
    BY <1>3 DEF Send, FinishedIsComplete, Finished
  <2> QED
    BY <1>1, <2>2, <2>3, <2>4, <2>5 DEF PoolInv
<1>4. ASSUME NEW w \in Workers, JobReturns(w)
      PROVE  PoolInv'
  <2>1. hand[w] \in Jobs
    BY <1>2, <1>4 DEF JobReturns, PoolTypeOK
  <2>2. PoolTypeOK'
    BY <1>1, <1>2, <1>4, <2>1 DEF JobReturns, PoolTypeOK
  <2>3. DispatcherInv'
    BY <1>2, <1>4 DEF JobReturns, DispatcherInv
  <2>4. HandedOutOnce'
    <3>1. /\ hand' = [hand EXCEPT ![w] = NoJob] /\ done' = done \union {hand[w]}
          /\ next' = next /\ hand[w] # NoJob
          /\ hand \in [Workers -> Jobs \union {NoJob}]
      BY <1>2, <1>4 DEF JobReturns, PoolTypeOK
    <3>2. NoJob \notin Jobs
      BY DEF Jobs
    <3>3. ASSUME NEW j \in Jobs
          PROVE  j < next <=> j \in done' \/ \E v \in Workers : hand'[v] = j
      BY <1>2, <3>1, <3>2 DEF HandedOutOnce
    <3>4. ASSUME NEW v \in Workers
          PROVE  hand'[v] \notin done'
      <4>1. NoJob \notin done'
        BY <1>2, <3>1, <3>2, <2>1 DEF PoolTypeOK
      <4> QED
        BY <1>2, <3>1, <4>1 DEF HandedOutOnce
    <3>5. ASSUME NEW u \in Workers, NEW v \in Workers, hand'[u] = hand'[v], u # v
          PROVE  hand'[u] = NoJob
      BY <1>2, <3>1, <3>5 DEF HandedOutOnce
    <3> QED
      BY <3>1, <3>3, <3>4, <3>5 DEF HandedOutOnce
  <2>5. FinishedIsComplete'
    BY <1>2, <1>4, <2>1 DEF JobReturns, FinishedIsComplete, Finished
  <2> QED
    BY <1>1, <2>2, <2>3, <2>4, <2>5 DEF PoolInv
<1>5. CASE UNCHANGED <<hand, done, late, next>>
  <2>1. HandedOutOnce'
    BY <1>2, <1>5 DEF HandedOutOnce
  <2>2. PoolTypeOK'
    BY <1>1, <1>2, <1>5 DEF PoolNext, Dispatch, Start, NextJob, Send,
       CloseWorkers, Finish, Cancel, WorkerExits, JobReturns, poolVars,
       workerVars, PoolTypeOK, DispatcherPCs
  <2>3. DispatcherInv'
    <3>1. CASE NextJob
      BY <1>2, <3>1 DEF NextJob, DispatcherInv, PoolTypeOK
    <3>2. CASE ~NextJob
      BY <1>2, <1>5, <3>2 DEF PoolNext, Dispatch, Start, Send, CloseWorkers,
         Finish, Cancel, WorkerExits, JobReturns, poolVars, DispatcherInv,
         PoolTypeOK
    <3> QED
      BY <3>1, <3>2
  <2>4. FinishedIsComplete'
    <3>1. CASE Finish
      <4>1. Cardinality(Busy) = 0
        <5>1. Cardinality(Busy) \in Nat
          BY FS_CardinalityType DEF PoolInv, WgInv
        <5> QED
          BY <3>1, <5>1 DEF Finish, PoolInv, WgInv, Held
      <4>2. Busy = {}
        BY <4>1, FS_EmptySet DEF PoolInv, WgInv
      <4>3. next = N
        BY <1>2, <3>1 DEF Finish, DispatcherInv
      <4>4. ASSUME NEW j \in Jobs
            PROVE  j \in done
        <5>1. j < next /\ j # NoJob
          BY <4>3 DEF Jobs
        <5> QED
          BY <1>2, <4>2, <5>1 DEF HandedOutOnce, Busy
      <4> QED
        BY <1>2, <1>5, <4>4 DEF FinishedIsComplete, PoolTypeOK
    <3>2. CASE ~Finish
      BY <1>2, <1>5, <3>2 DEF PoolNext, Dispatch, Start, NextJob, Send,
         CloseWorkers, Cancel, WorkerExits, JobReturns, poolVars,
         FinishedIsComplete, Finished
    <3> QED
      BY <3>1, <3>2
  <2> QED
    BY <1>1, <2>1, <2>2, <2>3, <2>4 DEF PoolInv
<1> QED
  BY <1>3, <1>4, <1>5 DEF PoolNext, Dispatch, Start, NextJob, CloseWorkers,
     Finish, Cancel, WorkerExits, poolVars, workerVars

\* The inductive invariant of the pool holds throughout.
THEOREM PoolInvariance == PoolSpec => []PoolInv
BY InitPoolInv, NextPoolInv, PTL DEF PoolSpec

\* Type correctness; in particular wg.Done never makes the counter negative.
THEOREM PoolTypeCorrect == PoolSpec => []PoolTypeOK
<1>1. PoolInv => PoolTypeOK
  BY DEF PoolInv
<1> QED
  BY <1>1, PoolInvariance, PTL

\* Every job is handed out at most once, in order, and never lost.
THEOREM HandedOut == PoolSpec => []HandedOutOnce
<1>1. PoolInv => HandedOutOnce
  BY DEF PoolInv
<1> QED
  BY <1>1, PoolInvariance, PTL

\* A pool that reports its end has done every job.
THEOREM FinishedComplete == PoolSpec => []FinishedIsComplete
<1>1. PoolInv => FinishedIsComplete
  BY DEF PoolInv
<1> QED
  BY <1>1, PoolInvariance, PTL

\* Cancel stops the pool but for one job.
THEOREM AtMostOneLate == PoolSpec => []OneLateJob
<1>1. PoolInv => OneLateJob
  BY DEF PoolInv, DispatcherInv, OneLateJob
<1> QED
  BY <1>1, PoolInvariance, PTL

=============================================================================
