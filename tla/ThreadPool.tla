----------------------------- MODULE ThreadPool -----------------------------
(***************************************************************************)
(* The thread pool of the judging framework (pkg/framework/threadpool.go). *)
(*                                                                         *)
(* A dispatcher, the goroutine of Run, hands job i to worker i % W over    *)
(* that worker's own channel, which has no buffer: it waits for just this  *)
(* worker, even while others are idle.  A wait group counts the jobs under *)
(* way.  Cancel closes a channel that the dispatcher looks at before each  *)
(* job; a dispatcher that sees it returns at once, without closing the     *)
(* workers' channels or finCh.                                             *)
(*                                                                         *)
(* What a job does is left to the module that uses the pool: JobReturns    *)
(* is the end of one.                                                      *)
(***************************************************************************)
EXTENDS Integers, FiniteSets

CONSTANTS N,      \* number of jobs added before Start
          W,      \* number of workers
          NoJob   \* the worker waits for a job

ASSUME PoolAssumption ==
  /\ N \in Nat /\ W \in Nat /\ (N > 0 => W > 0)
  /\ NoJob \notin Nat

Jobs    == 0 .. N - 1
Workers == 0 .. W - 1

VARIABLES
  dispatcher,  \* where Run is
  next,        \* i: the job to hand out
  wg,          \* the counter of the wait group
  hand,        \* the job each worker is doing
  exited,      \* the workers that have returned
  cancelled,   \* cancelCh is closed
  done,        \* history: the jobs that have returned
  late         \* history: the number of jobs handed out after Cancel

workerVars == <<hand, exited>>
poolVars   == <<dispatcher, next, wg, workerVars, cancelled, done, late>>

\* "new": not started.  "next": at the head of the loop over the jobs.
\* "send": in worker <- job.  "wait": in wg.Wait.  "finished": finCh is
\* closed.  "gone": returned because of cancelCh.
DispatcherPCs == {"new", "next", "send", "wait", "finished", "gone"}

Busy == {w \in Workers : hand[w] # NoJob}

\* Mutant: the channels of the workers are never closed.
WorkersNeverClosed == FALSE

\* The channels of the workers are closed.
WorkersClosed == dispatcher \in {"wait", "finished"}

\* finCh is closed: Wait returns, Ch is ready.
Finished == dispatcher = "finished"

PoolInit ==
  /\ dispatcher = "new"
  /\ next = 0
  /\ wg = 0
  /\ hand = [w \in Workers |-> NoJob]
  /\ exited = {}
  /\ cancelled = FALSE
  /\ done = {}
  /\ late = 0

\* go tp.Run(): the dispatcher and its workers.
Start ==
  /\ dispatcher = "new"
  /\ dispatcher' = "next"
  /\ UNCHANGED <<next, wg, workerVars, cancelled, done, late>>

\* Mutant: the select comes once, before the loop.
NextJobNoSelect ==
  /\ dispatcher = "next" /\ next < N
  /\ wg' = wg + 1
  /\ dispatcher' = "send"
  /\ UNCHANGED <<next, workerVars, cancelled, done, late>>

\* Mutant: the job is not counted.
NextJobNoAdd ==
  /\ dispatcher = "next" /\ next < N
  /\ dispatcher' = IF cancelled THEN "gone" ELSE "send"
  /\ UNCHANGED <<next, wg, workerVars, cancelled, done, late>>

\* wg.Add(1) and the select on cancelCh.
NextJob ==
  /\ dispatcher = "next" /\ next < N
  /\ wg' = wg + 1
  /\ dispatcher' = IF cancelled THEN "gone" ELSE "send"
  /\ UNCHANGED <<next, workerVars, cancelled, done, late>>

\* The worker whose turn it is.
Turn == next % W

\* Mutant: the jobs share one index, which is the last one when they run.
SendSharedIndex ==
  /\ dispatcher = "send"
  /\ hand[Turn] = NoJob
  /\ hand' = [hand EXCEPT ![Turn] = N - 1]
  /\ next' = next + 1
  /\ dispatcher' = "next"
  /\ late' = IF cancelled THEN late + 1 ELSE late
  /\ UNCHANGED <<wg, exited, cancelled, done>>

\* worker <- job: the worker whose turn it is receives it.
Send ==
  /\ dispatcher = "send"
  /\ hand[Turn] = NoJob
  /\ hand' = [hand EXCEPT ![Turn] = next]
  /\ next' = next + 1
  /\ dispatcher' = "next"
  /\ late' = IF cancelled THEN late + 1 ELSE late
  /\ UNCHANGED <<wg, exited, cancelled, done>>

\* All jobs are handed out: the channels of the workers are closed.
CloseWorkers ==
  /\ dispatcher = "next" /\ next = N
  /\ dispatcher' = "wait"
  /\ UNCHANGED <<next, wg, workerVars, cancelled, done, late>>

\* Mutant: finCh is closed without wg.Wait.
FinishEarly ==
  /\ dispatcher = "wait"
  /\ dispatcher' = "finished"
  /\ UNCHANGED <<next, wg, workerVars, cancelled, done, late>>

\* wg.Wait returns; finCh is closed.
Finish ==
  /\ dispatcher = "wait" /\ wg = 0
  /\ dispatcher' = "finished"
  /\ UNCHANGED <<next, wg, workerVars, cancelled, done, late>>

\* Mutant: a job that returns is not counted down.
JobReturnsNoDone(w) ==
  /\ hand[w] # NoJob
  /\ hand' = [hand EXCEPT ![w] = NoJob]
  /\ done' = done \union {hand[w]}
  /\ UNCHANGED <<dispatcher, next, wg, exited, cancelled, late>>

\* job() returns; wg.Done().
JobReturns(w) ==
  /\ hand[w] # NoJob
  /\ hand' = [hand EXCEPT ![w] = NoJob]
  /\ done' = done \union {hand[w]}
  /\ wg' = wg - 1
  /\ UNCHANGED <<dispatcher, next, exited, cancelled, late>>

\* The range over the closed channel ends.
WorkerExits(w) ==
  /\ WorkersClosed
  /\ hand[w] = NoJob /\ w \notin exited
  /\ exited' = exited \union {w}
  /\ UNCHANGED <<dispatcher, next, wg, hand, cancelled, done, late>>

\* Cancel: cancelCh is closed (a second call would panic).
Cancel ==
  /\ ~cancelled
  /\ cancelled' = TRUE
  /\ UNCHANGED <<dispatcher, next, wg, workerVars, done, late>>

\* The dispatcher's own steps.
Dispatch == NextJob \/ Send \/ CloseWorkers \/ Finish

PoolNext ==
  \/ Start \/ Dispatch \/ Cancel
  \/ \E w \in Workers : JobReturns(w) \/ WorkerExits(w)

PoolSpec == PoolInit /\ [][PoolNext]_poolVars

-----------------------------------------------------------------------------
\* Every variable of the pool has its type; the wait group's counter never
\* becomes negative, which would panic.
PoolTypeOK ==
  /\ dispatcher \in DispatcherPCs
  /\ next \in 0 .. N
  /\ wg \in Nat
  /\ hand \in [Workers -> Jobs \union {NoJob}]
  /\ exited \subseteq Workers
  /\ cancelled \in BOOLEAN
  /\ done \subseteq Jobs
  /\ late \in Nat

\* The jobs before next are done or in one worker's hand, and no others are.
HandedOutOnce ==
  /\ \A j \in Jobs : j < next <=> j \in done \/ \E w \in Workers : hand[w] = j
  /\ \A w \in Workers : hand[w] \notin done
  /\ \A v, w \in Workers : hand[v] = hand[w] /\ v # w => hand[v] = NoJob

\* Run closes finCh only when every job has returned, cancelled or not.
FinishedIsComplete == Finished => done = Jobs

\* A cancelled pool hands out no new job but the one that its dispatcher was
\* already waiting to hand over.
OneLateJob == late <= 1

=============================================================================
