-------------------------- MODULE MultiPointProofs --------------------------
(***************************************************************************)
(* What judging on several points promises for any number of points and    *)
(* workers.                                                                *)
(***************************************************************************)
EXTENDS MultiPoint, ThreadPoolProofs

USE MultiPointAssumption, PoolAssumption

-----------------------------------------------------------------------------
(***************************************************************************)
(* Run and its jobs use the pool as the pool expects: every step is one of *)
(* the pool or leaves the pool alone.                                      *)
(***************************************************************************)
\* A step of Run, of a job or of the pool is a step of the pool, or none.
LEMMA PoolSteps == [Next]_vars => [PoolNext]_poolVars
<1> SUFFICES ASSUME [Next]_vars
             PROVE  [PoolNext]_poolVars
  OBVIOUS
<1> USE DEF PoolNext, Dispatch
<1>1. CASE UNCHANGED vars
  BY <1>1 DEF vars
<1>2. CASE Runner
  BY <1>2 DEF Runner, BeforeEnds, BeforeOk, PoolEnds, CancelPool, After
<1>3. CASE PoolStep
  BY <1>3 DEF PoolStep
<1>4. CASE HandOver
  BY <1>4 DEF HandOver
<1>5. ASSUME NEW w \in Workers, JudgeFuses(w) \/ Job(w)
      PROVE  [PoolNext]_poolVars
  BY <1>5 DEF JudgeFuses, Job, Fuse, Judge, Lock, AppendMsg, Report, JobEnds
<1> QED
  BY <1>1, <1>2, <1>3, <1>4, <1>5 DEF Next

\* So everything that is proved of the pool holds here.
THEOREM UsesPool == Spec => PoolSpec
<1>1. Init => PoolInit
  BY DEF Init
<1> QED
  BY <1>1, PoolSteps, PTL DEF Spec, PoolSpec

\* The pool's invariant, in particular.
LEMMA PoolHolds == Spec => []PoolInv
BY UsesPool, PoolInvariance, PTL

-----------------------------------------------------------------------------
(***************************************************************************)
(* The invariant of Run and its jobs.                                      *)
(***************************************************************************)
\* Where a worker's job is goes with what it has in hand and with the lock.
JobInv ==
  /\ job \in [Workers -> JobPCs]
  /\ \A w \in Workers : job[w] = "none" <=> hand[w] = NoJob
  /\ \A w \in Workers : Locked(w) <=> reportLock = w

\* A point is judged before its job asks for the lock, and not twice.
JudgedInv ==
  /\ judged \subseteq Jobs
  /\ \A w \in Workers : job[w] \in {"judge", "fuse"} => hand[w] \notin judged
  /\ \A j \in judged : j \in done \/ \E w \in Workers : hand[w] = j

\* The messages are those of the points judged, but for jobs on their way to
\* append theirs.
Unsent(j) == \E w \in Workers : hand[w] = j /\ job[w] \in {"lock", "append"}

MsgsInv ==
  /\ msgs \in Seq(Jobs) /\ IsInjective(msgs)
  /\ \A w \in Workers : job[w] \in {"lock", "append"} => hand[w] \in judged
  /\ \A j \in Jobs : j \in ToSet(msgs) <=> j \in judged /\ ~Unsent(j)

\* A Report that failed holds its job back until Run has received the error,
\* and a Run that was not stopped goes on to After when the pool has finished.
RunInv ==
  /\ refused => \/ cancelled \/ run \in {"fused", "fusedErr"}
                \/ \E w \in Workers : job[w] = "fuseErr"
  /\ run = "before" => dispatcher = "new"
  /\ run \in {"after", "returned"} /\ ~cancelled => dispatcher \in {"new", "finished"}
  /\ run \in {"select", "fused", "fusedErr", "after"} => dispatcher # "new"
  /\ run = "returned" /\ ~cancelled /\ dispatcher # "new" => seen = msgs

MInv == JobInv /\ JudgedInv /\ MsgsInv /\ RunInv

\* A sequence with one more element.
LEMMA AppendSet ==
  ASSUME NEW S, NEW s \in Seq(S), NEW e \in S
  PROVE  /\ Append(s, e) \in Seq(S)
         /\ ToSet(Append(s, e)) = ToSet(s) \union {e}
         /\ IsInjective(s) /\ e \notin ToSet(s) => IsInjective(Append(s, e))
<1>1. /\ Append(s, e) \in Seq(S) /\ Len(Append(s, e)) = Len(s) + 1
      /\ Len(s) \in Nat /\ DOMAIN s = 1 .. Len(s)
      /\ DOMAIN Append(s, e) = 1 .. Len(s) + 1
      /\ \A i \in 1 .. Len(s) : Append(s, e)[i] = s[i]
      /\ Append(s, e)[Len(s) + 1] = e
  OBVIOUS
<1>2. ToSet(Append(s, e)) = ToSet(s) \union {e}
  BY <1>1 DEF ToSet
<1>3. ASSUME IsInjective(s), e \notin ToSet(s)
      PROVE  IsInjective(Append(s, e))
  <2> SUFFICES ASSUME NEW a \in 1 .. Len(s) + 1, NEW b \in 1 .. Len(s) + 1,
                      Append(s, e)[a] = Append(s, e)[b]
               PROVE  a = b
    BY <1>1 DEF IsInjective
  <2>1. CASE a \in 1 .. Len(s) /\ b \in 1 .. Len(s)
    BY <1>1, <1>3, <2>1 DEF IsInjective
  <2>2. CASE a = Len(s) + 1 /\ b = Len(s) + 1
    BY <2>2
  <2>3. CASE a = Len(s) + 1 /\ b \in 1 .. Len(s)
    BY <1>1, <1>3, <2>3 DEF ToSet
  <2>4. CASE b = Len(s) + 1 /\ a \in 1 .. Len(s)
    BY <1>1, <1>3, <2>4 DEF ToSet
  <2> QED
    BY <1>1, <2>1, <2>2, <2>3, <2>4
<1> QED
  BY <1>1, <1>2, <1>3

\* Nothing is judged when Run begins.
LEMMA InitMInv == Init => MInv
<1> SUFFICES ASSUME Init
             PROVE  MInv
  OBVIOUS
<1> USE DEF Init, PoolInit
<1>1. JobInv
  <2>1. \A w \in Workers : w \in Nat
    BY DEF Workers
  <2> QED
    BY <2>1 DEF JobInv, JobPCs, Locked
<1>2. JudgedInv
  BY DEF JudgedInv
<1>3. MsgsInv
  <2>1. ToSet(msgs) = {} /\ IsInjective(msgs) /\ msgs \in Seq(Jobs)
    BY DEF ToSet, IsInjective
  <2> QED
    BY <2>1 DEF MsgsInv, Unsent
<1>4. RunInv
  BY DEF RunInv
<1> QED
  BY <1>1, <1>2, <1>3, <1>4 DEF MInv

\* The steps of Run alone and of the pool alone.
LEMMA RunnerMInv ==
  ASSUME PoolInv, MInv, Runner
  PROVE  MInv'
<1>1. /\ UNCHANGED <<job, reportLock, msgs, history, hand, done>>
  BY DEF Runner, BeforeEnds, BeforeOk, PoolEnds, CancelPool, After, Start, Cancel,
         poolVars, workerVars
<1>2. JobInv' /\ JudgedInv' /\ MsgsInv'
  BY <1>1 DEF MInv, JobInv, JudgedInv, MsgsInv, Unsent, Locked, history
<1>3. RunInv'
  <2> USE DEF MInv, RunInv, history
  <2>1. CASE BeforeEnds
    BY <2>1 DEF BeforeEnds, Return, poolVars
  <2>2. CASE BeforeOk
    BY <2>2 DEF BeforeOk, Start
  <2>3. CASE PoolEnds
    BY <2>3 DEF PoolEnds, Finished, poolVars
  <2>4. CASE CancelPool
    BY <2>4 DEF CancelPool, Cancel, Return
  <2>5. CASE After
    <3>1. CASE cancelled
      BY <2>5, <3>1 DEF After, Return, poolVars
    <3>2. CASE ~cancelled
      <4>1. Finished /\ done = Jobs
        BY <2>5, <3>2 DEF After, Finished, PoolInv, FinishedIsComplete
      <4>2. \A w \in Workers : hand[w] = NoJob
        BY <4>1 DEF PoolInv, PoolTypeOK, HandedOutOnce
      <4>3. \A w \in Workers : job[w] = "none"
        BY <4>2 DEF JobInv
      <4>4. seen' = msgs
        BY <2>5, <4>3 DEF After, Readable
      <4> QED
        BY <2>5, <3>2, <4>4 DEF After, Return, poolVars
    <3> QED
      BY <3>1, <3>2
  <2> QED
    BY <2>1, <2>2, <2>3, <2>4, <2>5 DEF Runner
<1> QED
  BY <1>2, <1>3 DEF MInv

\* The pool's steps between jobs, and the handing over of one.
LEMMA PoolMInv ==
  ASSUME PoolInv, MInv, PoolStep \/ HandOver
  PROVE  MInv'
<1>1. CASE PoolStep
  <2>1. UNCHANGED <<runVars, job, reportLock, msgs, history, hand, done, cancelled>>
    BY <1>1 DEF PoolStep, NextJob, CloseWorkers, Finish, WorkerExits, workerVars
  <2>2. JobInv' /\ JudgedInv' /\ MsgsInv'
    BY <2>1 DEF MInv, JobInv, JudgedInv, MsgsInv, Unsent, Locked, history
  <2>3. /\ dispatcher = "new" <=> dispatcher' = "new"
        /\ dispatcher = "finished" => dispatcher' = "finished"
    BY <1>1 DEF PoolStep, NextJob, CloseWorkers, Finish, WorkerExits
  <2>4. RunInv'
    BY <2>1, <2>3 DEF MInv, RunInv, runVars, history
  <2> QED
    BY <2>2, <2>4 DEF MInv
<1>2. CASE HandOver
  <2>1. /\ Turn \in Workers /\ next \in Jobs /\ next # NoJob
        /\ hand[Turn] = NoJob /\ dispatcher = "send" /\ dispatcher' = "next"
        /\ hand' = [hand EXCEPT ![Turn] = next]
        /\ job' = [job EXCEPT ![Turn] = "judge"]
        /\ hand \in [Workers -> Jobs \union {NoJob}]
        /\ UNCHANGED <<runVars, reportLock, msgs, history, done, cancelled>>
    <3>1. dispatcher = "send" /\ next < N /\ PoolTypeOK
      BY <1>2 DEF HandOver, Send, PoolInv, DispatcherInv
    <3>2. Turn \in Workers
      BY <3>1, TurnIsWorker
    <3>3. next \in Jobs /\ next # NoJob
      BY <3>1 DEF PoolTypeOK, Jobs
    <3>4. hand \in [Workers -> Jobs \union {NoJob}]
      BY <3>1 DEF PoolTypeOK
    <3> QED
      BY <1>2, <3>1, <3>2, <3>3, <3>4 DEF HandOver, Send, Goto
  <2>2. next \notin done /\ \A w \in Workers : hand[w] # next
    BY <2>1 DEF PoolInv, PoolTypeOK, HandedOutOnce
  <2>3. job[Turn] = "none" /\ job \in [Workers -> JobPCs]
    BY <2>1 DEF MInv, JobInv
  <2>4. JobInv'
    BY <2>1, <2>3 DEF MInv, JobInv, Locked, JobPCs
  <2>5. JudgedInv'
    <3>1. JudgedInv /\ UNCHANGED <<judged, done>>
      BY <2>1 DEF MInv, history
    <3>2. next \notin judged
      BY <2>2, <3>1 DEF JudgedInv
    <3>3. NoJob \notin judged
      BY <3>1 DEF JudgedInv, Jobs
    <3>4. ASSUME NEW v \in Workers, job'[v] \in {"judge", "fuse"}
          PROVE  hand'[v] \notin judged
      BY <2>1, <2>3, <3>1, <3>2, <3>4 DEF JudgedInv
    <3>5. ASSUME NEW j \in judged
          PROVE  j \in done \/ \E v \in Workers : hand'[v] = j
      BY <2>1, <3>1, <3>3 DEF JudgedInv
    <3> QED
      BY <3>1, <3>4, <3>5 DEF JudgedInv
  <2>6. MsgsInv'
    <3>1. \A j \in Jobs : Unsent(j)' <=> Unsent(j)
      BY <2>1, <2>3 DEF Unsent
    <3> QED
      BY <2>1, <2>3, <3>1 DEF MInv, MsgsInv, history
  <2>7. RunInv'
    BY <2>1, <2>3 DEF MInv, RunInv, runVars, history
  <2> QED
    BY <2>4, <2>5, <2>6, <2>7 DEF MInv
<1> QED
  BY <1>1, <1>2

\* The steps of a job.
LEMMA JobMInv ==
  ASSUME PoolInv, MInv, NEW w \in Workers, JudgeFuses(w) \/ Job(w)
  PROVE  MInv'
<1>1. /\ hand \in [Workers -> Jobs \union {NoJob}]
      /\ \A v \in Workers : hand[v] \notin done
      /\ \A u, v \in Workers : hand[u] = hand[v] /\ u # v => hand[u] = NoJob
      /\ done \subseteq Jobs /\ NoJob \notin Jobs
  <2>1. NoJob \notin Jobs
    BY DEF Jobs
  <2> QED
    BY <2>1 DEF PoolInv, PoolTypeOK, HandedOutOnce
<1>2. JobInv /\ JudgedInv /\ MsgsInv /\ RunInv
  BY DEF MInv
<1>3. /\ job[w] # "none" => hand[w] \in Jobs /\ dispatcher \notin {"new", "finished"}
      /\ w # NoWorker
  <2>1. job[w] # "none" => hand[w] \in Jobs
    BY <1>1, <1>2 DEF JobInv
  <2>2. hand[w] \in Jobs => ~Finished
    BY <1>1 DEF PoolInv, FinishedIsComplete
  <2>3. hand[w] \in Jobs => dispatcher # "new"
    BY <1>1 DEF PoolInv, HandedOutOnce, DispatcherInv, Jobs
  <2> QED
    BY <2>1, <2>2, <2>3 DEF Finished, Workers
<1>4. ASSUME run' = run \/ (run = "select" /\ run' \in {"fused", "fusedErr"}),
             UNCHANGED <<dispatcher, cancelled, seen>>, job[w] # "none",
             refused' => \/ cancelled \/ run' \in {"fused", "fusedErr"}
                         \/ \E v \in Workers : job'[v] = "fuseErr"
      PROVE  RunInv'
  BY <1>2, <1>3, <1>4 DEF RunInv
<1>5. CASE JudgeFuses(w) \/ Judge(w)
  <2>1. /\ job[w] = "judge"
        /\ \/ job' = [job EXCEPT ![w] = "fuse"] /\ judged' = judged
           \/ job' = [job EXCEPT ![w] = "end"] /\ judged' = judged
           \/ /\ job' = [job EXCEPT ![w] = "lock"]
              /\ judged' = judged \union {hand[w]}
        /\ UNCHANGED <<poolVars, runVars, reportLock, msgs, refused>>
    BY <1>5 DEF JudgeFuses, Judge, Goto, history
  <2>2. UNCHANGED <<hand, done, dispatcher, cancelled, run, seen>>
    BY <2>1 DEF poolVars, workerVars, runVars
  <2>3. JobInv'
    BY <1>2, <1>3, <2>1, <2>2 DEF JobInv, Locked, JobPCs
  <2>4. JudgedInv'
    <3>1. judged' \subseteq Jobs
      BY <1>2, <1>3, <2>1 DEF JudgedInv
    <3>2. ASSUME NEW v \in Workers, job'[v] \in {"judge", "fuse"}
          PROVE  hand'[v] \notin judged'
      BY <1>1, <1>2, <1>3, <2>1, <2>2, <3>2 DEF JobInv, JudgedInv
    <3>3. ASSUME NEW j \in judged'
          PROVE  j \in done' \/ \E v \in Workers : hand'[v] = j
      BY <1>2, <2>1, <2>2 DEF JudgedInv
    <3> QED
      BY <3>1, <3>2, <3>3 DEF JudgedInv
  <2>5. MsgsInv'
    <3>1. CASE judged' = judged
      <4>1. \A v \in Workers :
              job'[v] \in {"lock", "append"} <=> job[v] \in {"lock", "append"}
        BY <1>2, <2>1, <3>1, <1>3 DEF JobInv, JudgedInv
      <4>2. \A j \in Jobs : Unsent(j)' <=> Unsent(j)
        BY <2>2, <4>1 DEF Unsent
      <4> QED
        BY <1>2, <2>1, <2>2, <3>1, <4>1, <4>2 DEF MsgsInv
    <3>2. CASE /\ job' = [job EXCEPT ![w] = "lock"]
               /\ judged' = judged \union {hand[w]}
      <4>1. job'[w] = "lock" /\ \A v \in Workers \ {w} : job'[v] = job[v]
        BY <1>2, <3>2 DEF JobInv
      <4>2. \A j \in Jobs : Unsent(j)' <=> Unsent(j) \/ j = hand[w]
        BY <2>1, <2>2, <4>1 DEF Unsent
      <4>3. hand[w] \notin judged
        BY <1>2, <2>1 DEF JudgedInv
      <4> QED
        BY <1>2, <1>3, <2>1, <2>2, <3>2, <4>1, <4>2, <4>3 DEF MsgsInv
    <3> QED
      BY <2>1, <3>1, <3>2
  <2>6. RunInv'
    <3>1. \A v \in Workers : job[v] = "fuseErr" => job'[v] = "fuseErr"
      BY <1>2, <2>1 DEF JobInv
    <3> QED
      BY <1>2, <1>4, <2>1, <2>2, <3>1 DEF RunInv
  <2> QED
    BY <2>3, <2>4, <2>5, <2>6 DEF MInv
<1>6. CASE Fuse(w)
  <2>1. /\ job[w] \in {"fuse", "fuseErr"}
        /\ job' = [job EXCEPT ![w] = IF job[w] = "fuse" THEN "judge" ELSE "end"]
        /\ reportLock' = IF reportLock = w THEN NoWorker ELSE reportLock
        /\ run = "select" /\ run' \in {"fused", "fusedErr"}
        /\ UNCHANGED <<hand, done, dispatcher, cancelled, seen, msgs, judged, refused>>
    BY <1>6 DEF Fuse, Goto, poolVars, workerVars, history
  <2>2. JobInv'
    <3>1. job' \in [Workers -> JobPCs]
      BY <1>2, <2>1 DEF JobInv, JobPCs
    <3>2. \A v \in Workers : v # NoWorker
      BY DEF Workers
    <3> QED
      BY <1>2, <2>1, <3>1, <3>2 DEF JobInv, Locked
  <2>3. JudgedInv'
    BY <1>2, <2>1 DEF JobInv, JudgedInv
  <2>4. MsgsInv'
    <3>1. \A v \in Workers :
            job'[v] \in {"lock", "append"} <=> job[v] \in {"lock", "append"}
      BY <1>2, <2>1 DEF JobInv
    <3>2. \A j \in Jobs : Unsent(j)' <=> Unsent(j)
      BY <2>1, <3>1 DEF Unsent
    <3> QED
      BY <1>2, <2>1, <3>1, <3>2 DEF MsgsInv
  <2>5. RunInv'
    BY <1>4, <2>1
  <2> QED
    BY <2>2, <2>3, <2>4, <2>5 DEF MInv
<1>7. CASE Lock(w)
  <2>1. /\ job[w] = "lock" /\ job' = [job EXCEPT ![w] = "append"]
        /\ reportLock = NoWorker /\ reportLock' = w
        /\ UNCHANGED <<hand, done, dispatcher, cancelled, run, seen, msgs, judged, refused>>
    BY <1>7 DEF Lock, Goto, poolVars, workerVars, runVars, history
  <2>2. JobInv'
    <3>1. \A v \in Workers : v # NoWorker
      BY DEF Workers
    <3> QED
      BY <1>2, <2>1, <3>1 DEF JobInv, Locked, JobPCs
  <2>3. JudgedInv'
    BY <1>2, <2>1 DEF JobInv, JudgedInv
  <2>4. MsgsInv'
    <3>1. \A v \in Workers :
            job'[v] \in {"lock", "append"} <=> job[v] \in {"lock", "append"}
      BY <1>2, <2>1 DEF JobInv
    <3>2. \A j \in Jobs : Unsent(j)' <=> Unsent(j)
      BY <2>1, <3>1 DEF Unsent
    <3> QED
      BY <1>2, <2>1, <3>1, <3>2 DEF MsgsInv
  <2>5. RunInv'
    <3>1. \A v \in Workers : job[v] = "fuseErr" => job'[v] = "fuseErr"
      BY <1>2, <2>1 DEF JobInv
    <3> QED
      BY <1>2, <1>4, <2>1, <3>1 DEF RunInv
  <2> QED
    BY <2>2, <2>3, <2>4, <2>5 DEF MInv
<1>8. CASE AppendMsg(w)
  <2>1. /\ job[w] = "append" /\ job' = [job EXCEPT ![w] = "report"]
        /\ msgs' = Append(msgs, hand[w])
        /\ UNCHANGED <<hand, done, dispatcher, cancelled, run, seen, reportLock, judged,
                       refused>>
    BY <1>8 DEF AppendMsg, Goto, poolVars, workerVars, runVars, history
  <2>2. JobInv'
    BY <1>2, <2>1 DEF JobInv, Locked, JobPCs
  <2>3. JudgedInv'
    BY <1>2, <2>1 DEF JobInv, JudgedInv
  <2>4. MsgsInv'
    <3>1. hand[w] \in Jobs /\ hand[w] \in judged /\ Unsent(hand[w])
      BY <1>2, <1>3, <2>1 DEF MsgsInv, Unsent
    <3>2. /\ msgs' \in Seq(Jobs) /\ IsInjective(msgs')
          /\ ToSet(msgs') = ToSet(msgs) \union {hand[w]}
      BY <1>2, <2>1, <3>1, AppendSet DEF MsgsInv
    <3>3. \A j \in Jobs : Unsent(j)' <=> Unsent(j) /\ j # hand[w]
      BY <1>1, <1>2, <1>3, <2>1 DEF Unsent, JobInv
    <3>4. \A v \in Workers : job'[v] \in {"lock", "append"} => job[v] \in {"lock", "append"}
      BY <1>2, <2>1 DEF JobInv
    <3> QED
      BY <1>2, <2>1, <3>1, <3>2, <3>3, <3>4 DEF MsgsInv
  <2>5. RunInv'
    <3>1. \A v \in Workers : job[v] = "fuseErr" => job'[v] = "fuseErr"
      BY <1>2, <2>1 DEF JobInv
    <3> QED
      BY <1>2, <1>4, <2>1, <3>1 DEF RunInv
  <2> QED
    BY <2>2, <2>3, <2>4, <2>5 DEF MInv
<1>9. CASE Report(w)
  <2>1. /\ job[w] = "report"
        /\ \/ /\ job' = [job EXCEPT ![w] = "end"] /\ reportLock' = NoWorker
              /\ refused' = refused
           \/ /\ job' = [job EXCEPT ![w] = "fuseErr"] /\ reportLock' = reportLock
              /\ refused' = TRUE
        /\ UNCHANGED <<hand, done, dispatcher, cancelled, run, seen, msgs, judged>>
    BY <1>9 DEF Report, Goto, poolVars, workerVars, runVars
  <2>2. JobInv'
    <3>1. \A v \in Workers : v # NoWorker
      BY DEF Workers
    <3>2. reportLock = w
      BY <1>2, <2>1 DEF JobInv, Locked
    <3> QED
      BY <1>2, <2>1, <3>1, <3>2 DEF JobInv, Locked, JobPCs
  <2>3. JudgedInv'
    BY <1>2, <2>1 DEF JobInv, JudgedInv
  <2>4. MsgsInv'
    <3>1. \A v \in Workers :
            job'[v] \in {"lock", "append"} <=> job[v] \in {"lock", "append"}
      BY <1>2, <2>1 DEF JobInv
    <3>2. \A j \in Jobs : Unsent(j)' <=> Unsent(j)
      BY <2>1, <3>1 DEF Unsent
    <3> QED
      BY <1>2, <2>1, <3>1, <3>2 DEF MsgsInv
  <2>5. RunInv'
    <3>1. \A v \in Workers : job[v] = "fuseErr" => job'[v] = "fuseErr"
      BY <1>2, <2>1 DEF JobInv
    <3>2. refused' => refused \/ job'[w] = "fuseErr"
      BY <1>2, <2>1 DEF JobInv
    <3> QED
      BY <1>2, <1>4, <2>1, <3>1, <3>2 DEF RunInv
  <2> QED
    BY <2>2, <2>3, <2>4, <2>5 DEF MInv
<1>10. CASE JobEnds(w)
  <2>1. /\ job[w] = "end" /\ job' = [job EXCEPT ![w] = "none"]
        /\ hand' = [hand EXCEPT ![w] = NoJob] /\ done' = done \union {hand[w]}
        /\ UNCHANGED <<dispatcher, cancelled, run, seen, msgs, judged, refused, reportLock>>
    BY <1>10 DEF JobEnds, JobReturns, Goto, runVars, history
  <2>2. JobInv'
    BY <1>1, <1>2, <2>1 DEF JobInv, Locked, JobPCs
  <2>3. JudgedInv'
    <3>1. ASSUME NEW v \in Workers, job'[v] \in {"judge", "fuse"}
          PROVE  hand'[v] \notin judged'
      BY <1>1, <1>2, <2>1, <3>1 DEF JobInv, JudgedInv
    <3>2. ASSUME NEW j \in judged'
          PROVE  j \in done' \/ \E v \in Workers : hand'[v] = j
      BY <1>1, <1>2, <2>1 DEF JudgedInv
    <3> QED
      BY <1>2, <2>1, <3>1, <3>2 DEF JudgedInv
  <2>4. MsgsInv'
    <3>1. \A v \in Workers :
            /\ job'[v] \in {"lock", "append"} <=> job[v] \in {"lock", "append"}
            /\ job[v] \in {"lock", "append"} => hand'[v] = hand[v]
      BY <1>1, <1>2, <2>1 DEF JobInv
    <3>2. \A j \in Jobs : Unsent(j)' <=> Unsent(j)
      BY <3>1 DEF Unsent
    <3> QED
      BY <1>2, <2>1, <3>1, <3>2 DEF MsgsInv
  <2>5. RunInv'
    <3>1. \A v \in Workers : job[v] = "fuseErr" => job'[v] = "fuseErr"
      BY <1>2, <2>1 DEF JobInv
    <3> QED
      BY <1>2, <1>4, <2>1, <3>1 DEF RunInv
  <2> QED
    BY <2>2, <2>3, <2>4, <2>5 DEF MInv
<1> QED
  BY <1>5, <1>6, <1>7, <1>8, <1>9, <1>10 DEF Job

\* No step of anyone breaks the invariant.
LEMMA NextMInv == PoolInv /\ MInv /\ [Next]_vars => MInv'
<1>1. ASSUME MInv, UNCHANGED vars
      PROVE  MInv'
  BY <1>1 DEF MInv, JobInv, JudgedInv, MsgsInv, RunInv, Unsent, Locked, vars,
              poolVars, workerVars, runVars, history
<1> QED
  BY <1>1, RunnerMInv, PoolMInv, JobMInv DEF Next

\* A run that nothing stopped hands After the messages of all the points that
\* were judged without an error, each once, and no Report of it failed.
THEOREM WholeComplete == Spec => []WholeIsComplete
<1>1. PoolInv /\ MInv => WholeIsComplete
  <2> SUFFICES ASSUME PoolInv, MInv, run \in {"after", "returned"}, ~cancelled,
                      dispatcher # "new"
               PROVE  /\ done = Jobs /\ ~refused
                      /\ ToSet(msgs) = judged /\ IsInjective(msgs)
                      /\ run = "returned" => seen = msgs
    BY DEF WholeIsComplete
  <2>1. done = Jobs
    BY DEF MInv, RunInv, PoolInv, FinishedIsComplete, Finished
  <2>2. \A w \in Workers : hand[w] = NoJob
    BY <2>1 DEF PoolInv, PoolTypeOK, HandedOutOnce
  <2>3. \A w \in Workers : job[w] = "none"
    BY <2>2 DEF MInv, JobInv
  <2>4. ~refused
    BY <2>3 DEF MInv, RunInv
  <2>5. \A j \in Jobs : j \in ToSet(msgs) <=> j \in judged
    BY <2>3 DEF MInv, MsgsInv, Unsent
  <2>6. ToSet(msgs) \subseteq Jobs /\ judged \subseteq Jobs
    BY DEF MInv, MsgsInv, JudgedInv, ToSet
  <2> QED
    BY <2>1, <2>4, <2>5, <2>6 DEF MInv, MsgsInv, RunInv
<1> QED
  BY <1>1, InitMInv, NextMInv, PoolHolds, PTL DEF Spec

-----------------------------------------------------------------------------
\* The types of what only Run and the reports write.
RunTypes ==
  /\ run \in RunPCs
  /\ result \in {"none", "ok", "error", "fused"}
  /\ reportLock \in Workers \union {NoWorker}
  /\ seen \in Seq(Jobs) \union {Torn}
  /\ reported \in Seq(Jobs)
  /\ refused \in BOOLEAN

\* Whatever After reads of msgs is a sequence of points, or torn.
LEMMA ReadableType ==
  ASSUME PoolInv, MInv
  PROVE  Readable \subseteq Seq(Jobs) \union {Torn}
<1>1. msgs \in Seq(Jobs)
  BY DEF MInv, MsgsInv
<1>2. ASSUME NEW w \in Workers, job[w] = "append"
      PROVE  Append(msgs, hand[w]) \in Seq(Jobs)
  <2>1. hand[w] \in Jobs
    BY <1>2 DEF PoolInv, PoolTypeOK, MInv, JobInv
  <2> QED
    BY <1>1, <2>1
<1> QED
  BY <1>1, <1>2 DEF Readable

\* Every step keeps these types.
LEMMA NextRunTypes ==
  ASSUME PoolInv, MInv, RunTypes, [Next]_vars
  PROVE  RunTypes'
<1> USE DEF RunTypes, RunPCs
<1>1. CASE UNCHANGED vars \/ PoolStep \/ HandOver
  BY <1>1 DEF vars, runVars, history, PoolStep, HandOver
<1>2. CASE Runner
  <2>1. CASE After
    BY <2>1, ReadableType DEF After, Return, history
  <2>2. CASE ~After
    BY <1>2, <2>2 DEF Runner, BeforeEnds, BeforeOk, PoolEnds, CancelPool, Return,
       history
  <2> QED
    BY <2>1, <2>2
<1>3. ASSUME NEW w \in Workers, JudgeFuses(w) \/ Job(w)
      PROVE  RunTypes'
  <2>1. msgs \in Seq(Jobs)
    BY DEF MInv, MsgsInv
  <2>2. CASE JudgeFuses(w) \/ Judge(w) \/ Lock(w) \/ AppendMsg(w) \/ JobEnds(w)
    BY <2>2 DEF JudgeFuses, Judge, Lock, AppendMsg, JobEnds, runVars, history
  <2>3. CASE Fuse(w)
    BY <2>3 DEF Fuse, history
  <2>4. CASE Report(w)
    BY <2>1, <2>4 DEF Report, runVars
  <2> QED
    BY <1>3, <2>2, <2>3, <2>4 DEF Job
<1> QED
  BY <1>1, <1>2, <1>3 DEF Next

\* The types at first.
LEMMA InitRunTypes == Init => RunTypes
<1> SUFFICES ASSUME Init
             PROVE  RunTypes
  OBVIOUS
<1>1. <<>> \in Seq(Jobs)
  OBVIOUS
<1>2. seen = <<>> /\ reported = <<>>
  BY DEF Init
<1>3. run = "before" /\ result = "none" /\ reportLock = NoWorker /\ refused = FALSE
  BY DEF Init
<1> QED
  BY <1>1, <1>2, <1>3 DEF RunTypes, RunPCs

\* Type correctness of the pool, Run and the jobs together.
THEOREM TypeCorrect == Spec => []TypeOK
<1>1. Init => RunTypes
  BY InitRunTypes
<1>2. PoolInv /\ MInv /\ RunTypes => TypeOK
  BY DEF PoolInv, MInv, JobInv, JudgedInv, MsgsInv, RunTypes, TypeOK
<1> QED
  BY <1>1, <1>2, InitMInv, NextMInv, NextRunTypes, PoolHolds, PTL DEF Spec

\* What the pool promises holds of the pool as Run uses it.
THEOREM PoolPromises == Spec => [](HandedOutOnce /\ FinishedIsComplete /\ OneLateJob)
<1>1. PoolInv => HandedOutOnce /\ FinishedIsComplete /\ OneLateJob
  BY DEF PoolInv, DispatcherInv, OneLateJob
<1> QED
  BY <1>1, PoolHolds, PTL

-----------------------------------------------------------------------------
(***************************************************************************)
(* Run implements the abstract judging.                                    *)
(***************************************************************************)
\* The latest report has all messages, but for one that was just appended; and
\* only a Run that is past its select has cancelled the pool.
ReportInv ==
  /\ \A w \in Workers : job[w] = "report" => msgs = Append(reported, hand[w])
  /\ (\A w \in Workers : job[w] # "report") => reported = msgs
  /\ run \in {"before", "select", "fused", "fusedErr"} => ~cancelled
  /\ run = "before" => reported = <<>>

FullInv == PoolInv /\ MInv /\ RunTypes /\ ReportInv

\* Nothing is appended or reported, and no worker begins to report.
LEMMA QuietReportInv ==
  ASSUME ReportInv, UNCHANGED <<msgs, reported, hand>>,
         \A w \in Workers : job'[w] = "report" <=> job[w] = "report",
         run' \in {"before", "select", "fused", "fusedErr"} => ~cancelled',
         run' = "before" => run = "before"
  PROVE  ReportInv'
BY DEF ReportInv

\* Every step keeps the reports in step with the messages.
LEMMA NextReportInv == FullInv /\ [Next]_vars => ReportInv'
<1> SUFFICES ASSUME FullInv, [Next]_vars
             PROVE  ReportInv'
  OBVIOUS
<1>1. /\ PoolInv /\ MInv /\ RunTypes /\ ReportInv
      /\ job \in [Workers -> JobPCs] /\ hand \in [Workers -> Jobs \union {NoJob}]
      /\ \A w \in Workers : job[w] = "none" <=> hand[w] = NoJob
      /\ \A w \in Workers : Locked(w) <=> reportLock = w
  BY DEF FullInv, MInv, JobInv, PoolInv, PoolTypeOK
<1>2. CASE UNCHANGED vars
  BY <1>1, <1>2 DEF vars, poolVars, workerVars, runVars, history, ReportInv
<1>3. CASE Runner \/ PoolStep
  <2>1. UNCHANGED <<msgs, reported, hand, job>>
    BY <1>3 DEF Runner, BeforeEnds, BeforeOk, PoolEnds, CancelPool, After, Start,
       Cancel, PoolStep, NextJob, CloseWorkers, Finish, WorkerExits, poolVars,
       workerVars, history
  <2>2. /\ run' \in {"before", "select", "fused", "fusedErr"} => ~cancelled'
        /\ run' = "before" => run = "before"
    BY <1>1, <1>3 DEF Runner, BeforeEnds, BeforeOk, PoolEnds, CancelPool, After, Start,
       Cancel, PoolStep, NextJob, CloseWorkers, Finish, WorkerExits, poolVars,
       runVars, Return, ReportInv
  <2> QED
    BY <1>1, <2>1, <2>2, QuietReportInv
<1>4. CASE HandOver
  <2>1. /\ hand' = [hand EXCEPT ![Turn] = next] /\ hand[Turn] = NoJob
        /\ job' = [job EXCEPT ![Turn] = "judge"]
        /\ UNCHANGED <<msgs, reported, run, cancelled>>
    BY <1>4 DEF HandOver, Send, Goto, history, runVars
  <2>2. Turn \in Workers
    <3>1. next < N /\ PoolTypeOK
      BY <1>1, <1>4 DEF HandOver, Send, PoolInv, DispatcherInv
    <3> QED
      BY <3>1, TurnIsWorker
  <2>3. job[Turn] = "none"
    BY <1>1, <2>1, <2>2
  <2> QED
    BY <1>1, <2>1, <2>2, <2>3 DEF ReportInv
<1>5. ASSUME NEW w \in Workers, JudgeFuses(w) \/ Job(w)
      PROVE  ReportInv'
  <2>1. CASE AppendMsg(w)
    <3>1. /\ job[w] = "append" /\ job' = [job EXCEPT ![w] = "report"]
          /\ msgs' = Append(msgs, hand[w])
          /\ UNCHANGED <<hand, reported, run, cancelled>>
      BY <2>1 DEF AppendMsg, Goto, poolVars, workerVars, runVars, history
    <3>2. \A v \in Workers : job[v] # "report"
      BY <1>1, <3>1 DEF Locked
    <3>3. reported = msgs
      BY <1>1, <3>2 DEF ReportInv
    <3>4. \A v \in Workers : job'[v] = "report" => v = w
      BY <1>1, <3>1, <3>2
    <3>5. job'[w] = "report" /\ run # "before"
      <4>1. hand[w] \in Jobs
        BY <1>1, <3>1
      <4>2. dispatcher # "new"
        BY <4>1 DEF FullInv, PoolInv, HandedOutOnce, DispatcherInv, Jobs
      <4> QED
        BY <1>1, <3>1, <4>2 DEF MInv, RunInv
    <3> QED
      BY <1>1, <3>1, <3>3, <3>4, <3>5 DEF ReportInv
  <2>2. CASE Report(w)
    <3>1. /\ job[w] = "report" /\ reported' = msgs
          /\ \E label \in {"end", "fuseErr"} : job' = [job EXCEPT ![w] = label]
          /\ UNCHANGED <<hand, msgs, run, cancelled>>
      BY <2>2 DEF Report, Goto, poolVars, workerVars, runVars
    <3>2. \A v \in Workers : job'[v] # "report"
      BY <1>1, <3>1 DEF Locked
    <3>3. run # "before"
      <4>1. hand[w] \in Jobs
        BY <1>1, <3>1
      <4>2. dispatcher # "new"
        BY <4>1 DEF FullInv, PoolInv, HandedOutOnce, DispatcherInv, Jobs
      <4> QED
        BY <1>1, <4>2 DEF MInv, RunInv
    <3> QED
      BY <1>1, <3>1, <3>2, <3>3 DEF ReportInv
  <2>3. CASE JobEnds(w)
    <3>1. /\ job[w] = "end" /\ job' = [job EXCEPT ![w] = "none"]
          /\ hand' = [hand EXCEPT ![w] = NoJob]
          /\ UNCHANGED <<msgs, reported, run, cancelled>>
      BY <2>3 DEF JobEnds, JobReturns, Goto, runVars, history
    <3> QED
      BY <1>1, <3>1 DEF ReportInv
  <2>4. CASE JudgeFuses(w) \/ Judge(w) \/ Lock(w) \/ Fuse(w)
    <3>1. /\ job[w] \in {"judge", "lock", "fuse", "fuseErr"}
          /\ \E label \in {"judge", "fuse", "end", "lock", "append"} :
               job' = [job EXCEPT ![w] = label]
          /\ UNCHANGED <<msgs, reported, hand, cancelled>>
          /\ run' = run \/ (run = "select" /\ run' \in {"fused", "fusedErr"})
      BY <2>4 DEF JudgeFuses, Judge, Lock, Fuse, Goto, poolVars, workerVars, runVars,
         history
    <3>2. \A v \in Workers : job'[v] = "report" <=> job[v] = "report"
      BY <1>1, <3>1
    <3>3. /\ run' \in {"before", "select", "fused", "fusedErr"} => ~cancelled'
          /\ run' = "before" => run = "before"
      BY <1>1, <3>1 DEF ReportInv
    <3> QED
      BY <1>1, <3>1, <3>2, <3>3, QuietReportInv
  <2> QED
    BY <1>5, <2>1, <2>2, <2>3, <2>4 DEF Job
<1> QED
  BY <1>2, <1>3, <1>4, <1>5 DEF Next

\* The whole invariant holds throughout.
LEMMA FullHolds == Spec => []FullInv
<1>1. Init => ReportInv
  BY DEF Init, PoolInit, ReportInv
<1>2. Init => RunTypes
  BY InitRunTypes
<1> QED
  BY <1>1, <1>2, InitMInv, NextMInv, NextRunTypes, NextReportInv, PoolHolds, PTL
     DEF Spec, FullInv

\* What is reported was judged: it is done or in a worker's hand.
LEMMA ReportedFacts ==
  ASSUME FullInv
  PROVE  /\ ToSet(reported) \subseteq Jobs
         /\ \A j \in ToSet(reported) : j \in done \/ \E w \in Workers : hand[w] = j
         /\ dispatcher = "new" => ToSet(reported) = {} /\ done = {}
         /\ Unsettled \subseteq Workers /\ IsFiniteSet(Unsettled)
         /\ Cardinality(Unsettled) \in 0 .. W
         /\ \A w \in Workers : w \in Unsettled <=> hand[w] # NoJob /\ hand[w] \notin ToSet(reported)
<1>1. ToSet(reported) \subseteq ToSet(msgs)
  <2>1. CASE \A w \in Workers : job[w] # "report"
    BY <2>1 DEF FullInv, ReportInv
  <2>2. ASSUME NEW w \in Workers, job[w] = "report"
        PROVE  ToSet(reported) \subseteq ToSet(msgs)
    <3>1. hand[w] \in Jobs /\ reported \in Seq(Jobs) /\ msgs = Append(reported, hand[w])
      BY <2>2 DEF FullInv, ReportInv, RunTypes, MInv, JobInv, PoolInv, PoolTypeOK
    <3> QED
      BY <3>1, AppendSet
  <2> QED
    BY <2>1, <2>2
<1>2. ToSet(msgs) \subseteq judged /\ judged \subseteq Jobs
  <2>1. ToSet(msgs) \subseteq Jobs
    BY DEF FullInv, MInv, MsgsInv, ToSet
  <2> QED
    BY <2>1 DEF FullInv, MInv, MsgsInv, JudgedInv
<1>3. \A j \in judged : j \in done \/ \E w \in Workers : hand[w] = j
  BY DEF FullInv, MInv, JudgedInv
<1>4. dispatcher = "new" => judged = {} /\ done = {}
  <2>1. dispatcher = "new" => \A j \in Jobs : ~(j < next)
    BY DEF FullInv, PoolInv, DispatcherInv, Jobs
  <2>2. done \subseteq Jobs
    BY DEF FullInv, PoolInv, PoolTypeOK
  <2> QED
    BY <1>2, <1>3, <2>1, <2>2 DEF FullInv, PoolInv, HandedOutOnce
<1>5. Unsettled \subseteq Workers /\ IsFiniteSet(Unsettled)
      /\ Cardinality(Unsettled) \in 0 .. W
  <2>1. Unsettled \in SUBSET Workers
    BY DEF Unsettled, Busy
  <2>2. IsFiniteSet(Workers) /\ Cardinality(Workers) = W
    <3>1. W \in Nat /\ 0 \in Int /\ W - 1 \in Int
      OBVIOUS
    <3>2. /\ IsFiniteSet(0 .. W - 1)
          /\ Cardinality(0 .. W - 1) = IF 0 > W - 1 THEN 0 ELSE W - 1 - 0 + 1
      BY <3>1, FS_Interval
    <3> QED
      BY <3>1, <3>2 DEF Workers
  <2> QED
    BY <2>1, <2>2, FS_Subset, FS_CardinalityType
<1> QED
  BY <1>1, <1>2, <1>3, <1>4, <1>5 DEF Unsettled, Busy

\* The last of the messages differs from those before.
LEMMA LastIsNew ==
  ASSUME NEW S, NEW s \in Seq(S), NEW e \in S, IsInjective(Append(s, e))
  PROVE  e \notin ToSet(s)
<1>1. /\ Len(s) \in Nat /\ DOMAIN s = 1 .. Len(s)
      /\ DOMAIN Append(s, e) = 1 .. Len(s) + 1
      /\ \A i \in 1 .. Len(s) : Append(s, e)[i] = s[i]
      /\ Append(s, e)[Len(s) + 1] = e
  OBVIOUS
<1>2. ASSUME NEW i \in 1 .. Len(s), s[i] = e
      PROVE  FALSE
  <2>1. /\ i \in DOMAIN Append(s, e) /\ Len(s) + 1 \in DOMAIN Append(s, e)
        /\ Append(s, e)[i] = Append(s, e)[Len(s) + 1] /\ i # Len(s) + 1
    BY <1>1, <1>2
  <2> QED
    BY <2>1 DEF IsInjective
<1> QED
  BY <1>1, <1>2 DEF ToSet

\* What the abstract judging sees of a run.
LEMMA Outcomes ==
  /\ cancelled => Outcome = "stopped"
  /\ ~cancelled /\ run \notin {"after", "returned"} => Outcome = "open"
  /\ ~cancelled /\ run \in {"after", "returned"} =>
       Outcome = IF dispatcher = "new" THEN "skipped" ELSE "whole"
  /\ cancelled' => Outcome' = "stopped"
  /\ ~cancelled' /\ run' \notin {"after", "returned"} => Outcome' = "open"
  /\ ~cancelled' /\ run' \in {"after", "returned"} =>
       Outcome' = IF dispatcher' = "new" THEN "skipped" ELSE "whole"
BY DEF Outcome

\* What the abstract judging calls settled.
LEMMA SettledPoints == J!Settled = ToSet(reported) \union Dropped
BY DEF J!Settled, J!ToSet, ToSet

\* A run as it begins is an open judging.
LEMMA InitJudging == Init => J!Init
<1> SUFFICES ASSUME Init
             PROVE  J!Init
  OBVIOUS
<1>1. ~cancelled /\ run = "before" /\ reported = <<>> /\ done = {}
  BY DEF Init, PoolInit
<1>2. Outcome = "open" /\ Left = W + 1 /\ Dropped = {}
  BY <1>1, Outcomes DEF Left, Dropped
<1> QED
  BY <1>1, <1>2 DEF J!Init

\* The point of a worker that leaves the unsettled ones is settled.
LEMMA Settles ==
  ASSUME FullInv, NEW w \in Workers, w \in Unsettled, Unsettled' = Unsettled \ {w},
         UNCHANGED <<dispatcher, cancelled, run>>
  PROVE  /\ Outcome' = Outcome
         /\ \/ Outcome = "open" /\ Left' = Left
            \/ Outcome = "stopped" /\ Left > 0 /\ Left' = Left - 1
<1>1. hand[w] \in Jobs
  BY DEF Unsettled, Busy, FullInv, PoolInv, PoolTypeOK
<1>2. dispatcher # "new" /\ dispatcher # "finished"
  <2>1. dispatcher # "new"
    BY <1>1 DEF FullInv, PoolInv, HandedOutOnce, DispatcherInv, Jobs
  <2>2. done # Jobs
    BY <1>1 DEF FullInv, PoolInv, HandedOutOnce
  <2> QED
    BY <2>1, <2>2 DEF FullInv, PoolInv, FinishedIsComplete, Finished
<1>3. ~cancelled => run \notin {"after", "returned"}
  BY <1>2 DEF FullInv, MInv, RunInv
<1>4. /\ IsFiniteSet(Unsettled) /\ Cardinality(Unsettled) \in Nat
      /\ Cardinality(Unsettled') = Cardinality(Unsettled) - 1
      /\ Cardinality(Unsettled') \in Nat
  <2>1. IsFiniteSet(Unsettled)
    BY ReportedFacts
  <2> QED
    BY <2>1, FS_RemoveElement, FS_CardinalityType
<1>5. ToSettle' = ToSettle - 1 /\ ToSettle > 0
  BY <1>4 DEF ToSettle
<1>6. CASE cancelled
  BY <1>5, <1>6, Outcomes DEF Left
<1>7. CASE ~cancelled
  BY <1>3, <1>7, Outcomes DEF Left
<1> QED
  BY <1>6, <1>7

\* Every step of a run is one of the abstract judging, or a stutter.
LEMMA StepJudging == FullInv /\ [Next]_vars => [J!Next]_(J!vars)
<1> SUFFICES ASSUME FullInv, [Next]_vars
             PROVE  [J!Next]_(J!vars)
  OBVIOUS
<1>1. /\ PoolInv /\ MInv /\ RunTypes /\ ReportInv
      /\ hand \in [Workers -> Jobs \union {NoJob}] /\ done \subseteq Jobs
      /\ NoJob \notin Jobs
  BY DEF FullInv, PoolInv, PoolTypeOK, Jobs
<1>2. ASSUME UNCHANGED <<reported, Dropped, Outcome, Left>>
      PROVE  [J!Next]_(J!vars)
  BY <1>2 DEF J!vars
<1>3. CASE UNCHANGED vars
  <2>1. UNCHANGED <<hand, done, reported, cancelled, dispatcher, run>>
    BY <1>3 DEF vars, poolVars, workerVars, runVars, history
  <2> QED
    BY <1>2, <2>1 DEF Dropped, Outcome, Left, ToSettle, Unsettled, Busy
<1>4. CASE PoolStep
  <2>1. /\ UNCHANGED <<hand, done, reported, cancelled, run>>
        /\ dispatcher' = "new" <=> dispatcher = "new"
        /\ (dispatcher' = "send" <=> dispatcher = "send") \/ ~cancelled
    BY <1>4 DEF PoolStep, NextJob, CloseWorkers, Finish, WorkerExits, workerVars,
       runVars, history
  <2>2. UNCHANGED <<reported, Dropped>> /\ Unsettled' = Unsettled
    BY <2>1 DEF Dropped, Unsettled, Busy
  <2>3. Left' = Left
    BY <2>1, <2>2 DEF Left, ToSettle
  <2>4. Outcome' = Outcome
    BY <2>1 DEF Outcome
  <2> QED
    BY <1>2, <2>2, <2>3, <2>4
<1>5. CASE Runner
  <2>1. UNCHANGED <<hand, done, reported>>
    BY <1>5 DEF Runner, BeforeEnds, BeforeOk, PoolEnds, CancelPool, After, Start,
       Cancel, poolVars, workerVars, history
  <2>2. UNCHANGED <<reported, Dropped>> /\ Unsettled' = Unsettled
    BY <2>1 DEF Dropped, Unsettled, Busy
  <2>3. CASE BeforeEnds
    <3>1. ~cancelled /\ run = "before" /\ dispatcher = "new" /\ run' = "returned"
          /\ UNCHANGED <<cancelled, dispatcher>>
      BY <1>1, <2>3 DEF BeforeEnds, Return, poolVars, ReportInv, MInv, RunInv
    <3>2. Outcome = "open" /\ Outcome' = "skipped" /\ Left' = Left
      BY <3>1, Outcomes DEF Left
    <3>3. ToSet(reported) = {} /\ Dropped = {}
      BY <3>1, ReportedFacts DEF Dropped
    <3>4. J!Skip
      BY <2>2, <3>2, <3>3, SettledPoints DEF J!Skip
    <3> QED
      BY <3>4 DEF J!Next
  <2>4. CASE BeforeOk
    <3>1. ~cancelled /\ run = "before" /\ run' = "select" /\ cancelled' = cancelled
      BY <1>1, <2>4 DEF BeforeOk, Start, ReportInv
    <3> QED
      BY <1>2, <2>2, <3>1, Outcomes DEF Left
  <2>5. CASE PoolEnds
    <3>1. ~cancelled /\ run = "select" /\ run' = "after" /\ Finished
          /\ UNCHANGED <<cancelled, dispatcher>>
      BY <1>1, <2>5 DEF PoolEnds, poolVars, ReportInv
    <3>2. Outcome = "open" /\ Outcome' = "whole" /\ Left' = Left
      BY <3>1, Outcomes DEF Left, Finished
    <3>3. done = Jobs
      BY <1>1, <3>1 DEF PoolInv, FinishedIsComplete
    <3>4. J!Settled = Jobs
      BY <3>3, ReportedFacts, SettledPoints DEF Dropped
    <3>5. J!Conclude
      BY <2>2, <3>2, <3>4 DEF J!Conclude
    <3> QED
      BY <3>5 DEF J!Next
  <2>6. CASE CancelPool
    <3>1. ~cancelled /\ run \in {"fused", "fusedErr"} /\ cancelled'
          /\ dispatcher' = dispatcher
      BY <1>1, <2>6 DEF CancelPool, Cancel, ReportInv
    <3>2. Outcome = "open" /\ Outcome' = "stopped"
      BY <3>1, Outcomes
    <3>3. Left' \in 0 .. W + 1
      <4>1. Cardinality(Unsettled') \in 0 .. W
        BY <2>2, ReportedFacts
      <4> QED
        BY <3>1, <4>1 DEF Left, ToSettle
    <3>4. J!Stop
      BY <2>2, <3>2, <3>3 DEF J!Stop
    <3> QED
      BY <3>4 DEF J!Next
  <2>7. CASE After
    <3>1. run = "after" /\ run' = "returned" /\ UNCHANGED <<cancelled, dispatcher>>
      BY <2>7 DEF After, Return, poolVars
    <3>2. Left' = Left
      BY <2>2, <3>1 DEF Left, ToSettle
    <3>3. Outcome' = Outcome
      BY <3>1 DEF Outcome
    <3> QED
      BY <1>2, <2>2, <3>2, <3>3
  <2> QED
    BY <1>5, <2>3, <2>4, <2>5, <2>6, <2>7 DEF Runner
<1>6. CASE HandOver
  <2>1. /\ Turn \in Workers /\ hand[Turn] = NoJob /\ next \in Jobs
        /\ hand' = [hand EXCEPT ![Turn] = next]
        /\ dispatcher = "send" /\ dispatcher' = "next"
        /\ UNCHANGED <<done, reported, cancelled, run>>
    <3>1. next < N /\ PoolTypeOK
      BY <1>1, <1>6 DEF HandOver, Send, PoolInv, DispatcherInv
    <3>2. Turn \in Workers /\ next \in Jobs
      BY <3>1, TurnIsWorker DEF PoolTypeOK, Jobs
    <3> QED
      BY <1>6, <3>2 DEF HandOver, Send, runVars, history
  <2>2. next \notin done /\ \A v \in Workers : hand[v] # next
    BY <1>1, <2>1 DEF PoolInv, PoolTypeOK, HandedOutOnce
  <2>3. next \notin ToSet(reported)
    BY <2>2, ReportedFacts
  <2>4. Unsettled' = Unsettled \union {Turn} /\ Turn \notin Unsettled
    BY <1>1, <2>1, <2>3 DEF Unsettled, Busy
  <2>5. Cardinality(Unsettled') = Cardinality(Unsettled) + 1 /\ Cardinality(Unsettled) \in Nat
    BY <2>4, ReportedFacts, FS_AddElement, FS_CardinalityType
  <2>6. Left' = Left
    BY <2>1, <2>5 DEF Left, ToSettle
  <2>7. Outcome' = Outcome /\ Dropped' = Dropped
    BY <2>1 DEF Outcome, Dropped
  <2> QED
    BY <1>2, <2>1, <2>6, <2>7
<1>7. ASSUME NEW w \in Workers, Report(w)
      PROVE  [J!Next]_(J!vars)
  <2>1. /\ job[w] = "report" /\ reported' = msgs
        /\ UNCHANGED <<hand, done, dispatcher, cancelled, run>>
    BY <1>7 DEF Report, poolVars, workerVars, runVars
  <2>2. hand[w] \in Jobs /\ reported \in Seq(Jobs)
    BY <1>1, <2>1 DEF MInv, JobInv, RunTypes
  <2>3. reported' = Append(reported, hand[w]) /\ IsInjective(reported')
    BY <1>1, <2>1 DEF ReportInv, MInv, MsgsInv
  <2>4. /\ ToSet(reported') = ToSet(reported) \union {hand[w]}
        /\ hand[w] \notin ToSet(reported)
    BY <2>2, <2>3, AppendSet, LastIsNew
  <2>5. hand[w] \notin done /\ \A v \in Workers : hand[v] = hand[w] => v = w
    BY <1>1, <2>2 DEF PoolInv, HandedOutOnce
  <2>6. w \in Unsettled /\ Unsettled' = Unsettled \ {w}
    BY <1>1, <2>1, <2>2, <2>4, <2>5 DEF Unsettled, Busy
  <2>7. Dropped' = Dropped /\ hand[w] \notin Dropped
    BY <2>1, <2>4, <2>5 DEF Dropped
  <2>8. J!Report(hand[w])
    BY <2>1, <2>2, <2>3, <2>4, <2>6, <2>7, Settles, SettledPoints
       DEF J!Report, J!MaySettle
  <2> QED
    BY <2>2, <2>8 DEF J!Next
<1>8. ASSUME NEW w \in Workers, JobEnds(w)
      PROVE  [J!Next]_(J!vars)
  <2>1. /\ hand' = [hand EXCEPT ![w] = NoJob] /\ done' = done \union {hand[w]}
        /\ hand[w] # NoJob /\ hand[w] \in Jobs
        /\ UNCHANGED <<reported, dispatcher, cancelled, run>>
    BY <1>1, <1>8 DEF JobEnds, JobReturns, runVars, history
  <2>2. hand[w] \notin done
    BY <1>1 DEF PoolInv, HandedOutOnce
  <2>3. CASE hand[w] \in ToSet(reported)
    <3>1. Dropped' = Dropped /\ Unsettled' = Unsettled
      BY <1>1, <2>1, <2>3 DEF Dropped, Unsettled, Busy
    <3>2. Left' = Left /\ Outcome' = Outcome
      BY <2>1, <3>1 DEF Left, ToSettle, Outcome
    <3> QED
      BY <1>2, <2>1, <3>1, <3>2
  <2>4. CASE hand[w] \notin ToSet(reported)
    <3>1. Dropped' = Dropped \union {hand[w]} /\ hand[w] \notin Dropped
      BY <2>1, <2>2, <2>4 DEF Dropped
    <3>2. w \in Unsettled /\ Unsettled' = Unsettled \ {w}
      BY <1>1, <2>1, <2>4 DEF Unsettled, Busy
    <3>3. J!Drop(hand[w])
      BY <2>1, <2>4, <3>1, <3>2, Settles, SettledPoints DEF J!Drop, J!MaySettle
    <3> QED
      BY <2>1, <3>3 DEF J!Next
  <2> QED
    BY <2>3, <2>4
<1>9. ASSUME NEW w \in Workers,
             JudgeFuses(w) \/ Judge(w) \/ Lock(w) \/ Fuse(w) \/ AppendMsg(w)
      PROVE  [J!Next]_(J!vars)
  <2>1. /\ UNCHANGED <<hand, done, reported, cancelled, dispatcher>>
        /\ run' = run \/ (run = "select" /\ run' \in {"fused", "fusedErr"})
    BY <1>9 DEF JudgeFuses, Judge, Lock, Fuse, AppendMsg, poolVars, workerVars, runVars,
       history
  <2>2. Dropped' = Dropped /\ Unsettled' = Unsettled
    BY <2>1 DEF Dropped, Unsettled, Busy
  <2>3. Left' = Left
    BY <2>1, <2>2 DEF Left, ToSettle
  <2>4. Outcome' = Outcome
    BY <2>1 DEF Outcome
  <2> QED
    BY <1>2, <2>1, <2>2, <2>3, <2>4
<1> QED
  BY <1>3, <1>4, <1>5, <1>6, <1>7, <1>8, <1>9 DEF Next, Job

\* A run of the multi-point runner is a judging as the judger expects it: its
\* reports grow by one message each, a whole one settles every point, and a
\* stopped one settles only what was already under way.
THEOREM Implements == Spec => JudgingSpec
<1>1. Spec => J!Init /\ [][J!Next]_(J!vars)
  BY InitJudging, StepJudging, FullHolds, PTL DEF Spec
<1> QED
  BY <1>1 DEF JudgingSpec, J!Spec

-----------------------------------------------------------------------------
(***************************************************************************)
(* Nobody waits in a circle.  A job that waits for reportLock waits for    *)
(* one that holds it, and that one waits for nobody but Run.               *)
(***************************************************************************)
\* If no job that is under way can go on, Run is not receiving, and one of
\* the jobs is in Fuse.
LEMMA WaitingJobs ==
  ASSUME FullInv, Busy # {}, \A w \in Busy : Waits(w)
  PROVE  run # "select" /\ \E w \in Busy : job[w] \in {"fuse", "fuseErr"}
<1>1. PICK w \in Busy : Waits(w)
  OBVIOUS
<1>2. CASE job[w] \in {"fuse", "fuseErr"}
  BY <1>1, <1>2 DEF Waits
<1>3. CASE job[w] = "lock" /\ reportLock # NoWorker
  <2>1. PICK v \in Workers : reportLock = v /\ Locked(v)
    BY <1>3 DEF FullInv, RunTypes, MInv, JobInv
  <2>2. v \in Busy
    BY <2>1 DEF FullInv, MInv, JobInv, Locked, Busy
  <2>3. Waits(v)
    BY <2>2
  <2>4. job[v] = "fuseErr" /\ run # "select"
    BY <2>1, <2>3 DEF Waits, Locked
  <2> QED
    BY <2>2, <2>4
<1> QED
  BY <1>1, <1>2, <1>3 DEF Waits

\* For any number of points and workers, Run, the dispatcher and the jobs do
\* not deadlock: they come to a stand only when Run has returned, behind a
\* job in Fuse if jobs are left.
THEOREM DeadlockFree == Spec => []NoDeadlock
<1>1. FullInv => NoDeadlock
  <2> SUFFICES ASSUME FullInv, ~CanMove
               PROVE  /\ run = "returned"
                      /\ Busy # {} => \E w \in Busy : job[w] \in {"fuse", "fuseErr"}
    BY DEF NoDeadlock
  <2>1. \A w \in Busy : Waits(w)
    BY DEF CanMove
  <2>2. Busy # {} => run # "select" /\ \E w \in Busy : job[w] \in {"fuse", "fuseErr"}
    BY <2>1, WaitingJobs
  <2>3. run \in {"select", "returned"} /\ (run = "select" => ~Finished)
    BY DEF CanMove, FullInv, RunTypes, RunPCs
  <2>4. CASE Busy = {}
    <3>1. Cardinality(Busy) = 0
      BY <2>4, FS_EmptySet
    <3>2. dispatcher = "wait" => wg = 0
      BY <3>1 DEF FullInv, PoolInv, WgInv, Held
    <3>3. dispatcher = "send" => hand[Turn] = NoJob
      <4> SUFFICES ASSUME dispatcher = "send"
                   PROVE  hand[Turn] = NoJob
        OBVIOUS
      <4>1. Turn \in Workers
        BY TurnIsWorker DEF FullInv, PoolInv, DispatcherInv
      <4> QED
        BY <2>4, <4>1 DEF Busy
    <3>4. dispatcher \in {"new", "finished", "gone"}
      BY <3>2, <3>3 DEF CanMove, FullInv, PoolInv, PoolTypeOK, DispatcherPCs
    <3>5. run # "select"
      BY <2>3, <3>4 DEF Finished, FullInv, MInv, RunInv, ReportInv, PoolInv,
                        DispatcherInv
    <3> QED
      BY <2>3, <2>4, <3>5
  <2> QED
    BY <2>2, <2>3, <2>4
<1> QED
  BY <1>1, FullHolds, PTL

=============================================================================
