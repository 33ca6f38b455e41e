----------------------------- MODULE MultiPoint -----------------------------
(***************************************************************************)
(* Judging a solution on several points (pkg/framework/multipoint.go): the *)
(* goroutine of MultiPointRunner.Run, and the jobs it gives to a thread    *)
(* pool, one per point.                                                    *)
(*                                                                         *)
(* A job judges its point, appends the message to msgs and reports all     *)
(* messages so far, both under reportLock.  Judge may fuse, and a failed   *)
(* Report does: it hands nil or an error to Run, over a channel without    *)
(* buffer that Run receives from at most once.  Run then cancels the pool; *)
(* without an error it goes on to After, with the messages it finds, while *)
(* jobs under way may still append to them.                                *)
(*                                                                         *)
(* W is r.parallel after init: N when WithParallel was not used.  The      *)
(* judger's methods Before, Judge, Report and After are the caller's: they *)
(* return in the end, with or without an error.                            *)
(***************************************************************************)
EXTENDS ThreadPool, Sequences, SequencesExt

CONSTANTS NoWorker,  \* reportLock is free
          Torn       \* a slice header read while it was being written

ASSUME MultiPointAssumption == NoWorker \notin Nat

VARIABLES
  run,         \* where MultiPointRunner.Run is
  result,      \* what it returned
  job,         \* where each worker is in its job
  reportLock,  \* the worker that holds it
  msgs,        \* the messages, as the points they are about
  seen,        \* history: the messages After was called with
  reported,    \* history: the messages of the latest Report
  judged,      \* history: the points whose Judge returned no error
  refused      \* history: a Report has failed

runVars == <<run, result, seen>>
history == <<reported, judged, refused>>
vars    == <<poolVars, runVars, job, reportLock, msgs, history>>

RunPCs == {"before", "select", "fused", "fusedErr", "after", "returned"}
\* "fuse": in Fuse, called by Judge.  "fuseErr": in FuseErr, with reportLock.
JobPCs == {"none", "judge", "fuse", "lock", "append", "report", "fuseErr", "end"}

\* The steps that come between Lock and the deferred Unlock.
Locked(w) == job[w] \in {"append", "report", "fuseErr"}

Init ==
  /\ PoolInit
  /\ run = "before"
  /\ result = "none"
  /\ job = [w \in Workers |-> "none"]
  /\ reportLock = NoWorker
  /\ msgs = <<>>
  /\ seen = <<>>
  /\ reported = <<>>
  /\ judged = {}
  /\ refused = FALSE

-----------------------------------------------------------------------------
(***************************************************************************)
(* MultiPointRunner.Run.                                                   *)
(***************************************************************************)
Return(value) == run' = "returned" /\ result' = value

\* Before fails or fuses: Run returns without a pool.
BeforeEnds ==
  /\ run = "before"
  /\ Return("error") \/ Return("fused")
  /\ UNCHANGED <<poolVars, seen, job, reportLock, msgs, history>>

\* Before succeeds: the jobs are added and the pool is started.
BeforeOk ==
  /\ run = "before"
  /\ run' = "select"
  /\ Start
  /\ UNCHANGED <<result, seen, job, reportLock, msgs, history>>

\* The select's other case: the pool has finished.
PoolEnds ==
  /\ run = "select" /\ Finished
  /\ run' = "after"
  /\ UNCHANGED <<poolVars, result, seen, job, reportLock, msgs, history>>

\* Something was received from the fuser: the pool is cancelled, and an
\* error is returned.
CancelPool ==
  /\ run \in {"fused", "fusedErr"}
  /\ Cancel
  /\ IF run = "fused" THEN run' = "after" /\ UNCHANGED result
                      ELSE Return("error")
  /\ UNCHANGED <<seen, job, reportLock, msgs, history>>

\* What a read of msgs without the lock finds: while a job writes the slice
\* header, the old one, the new one, or words of both.
Readable ==
  LET writing == {w \in Workers : job[w] = "append"}
  IN {msgs} \union UNION {{Append(msgs, hand[w]), Torn} : w \in writing}

\* After is called with msgs, and returns with an error or without.
After ==
  /\ run = "after"
  /\ seen' \in Readable
  /\ Return("error") \/ Return("ok")
  /\ UNCHANGED <<poolVars, job, reportLock, msgs, history>>

-----------------------------------------------------------------------------
(***************************************************************************)
(* A job: the closure that Run adds to the pool for each point.            *)
(***************************************************************************)
Goto(w, label) == job' = [job EXCEPT ![w] = label]

\* The dispatcher hands a job to a worker, which begins with Judge.
HandOver ==
  /\ Send
  /\ Goto(Turn, "judge")
  /\ UNCHANGED <<runVars, reportLock, msgs, history>>

\* Judge calls Fuse.
JudgeFuses(w) ==
  /\ job[w] = "judge"
  /\ Goto(w, "fuse")
  /\ UNCHANGED <<poolVars, runVars, reportLock, msgs, history>>

\* Mutant: the Unlock is not deferred, FuseErr returns without it.
FuseKeepsLock(w) ==
  /\ run = "select"
  /\ \/ job[w] = "fuse" /\ run' = "fused" /\ Goto(w, "judge")
     \/ job[w] = "fuseErr" /\ run' = "fusedErr" /\ Goto(w, "end")
  /\ UNCHANGED <<poolVars, result, seen, reportLock, msgs, history>>

\* Run receives what the worker sends, and Judge goes on or the job ends.
Fuse(w) ==
  /\ run = "select"
  /\ \/ job[w] = "fuse" /\ run' = "fused" /\ Goto(w, "judge")
     \/ job[w] = "fuseErr" /\ run' = "fusedErr" /\ Goto(w, "end")
  /\ reportLock' = IF reportLock = w THEN NoWorker ELSE reportLock
  /\ UNCHANGED <<poolVars, result, seen, msgs, history>>

\* Judge returns: an error ends the job without a message.
Judge(w) ==
  /\ job[w] = "judge"
  /\ \/ Goto(w, "end") /\ UNCHANGED judged
     \/ Goto(w, "lock") /\ judged' = judged \union {hand[w]}
  /\ UNCHANGED <<poolVars, runVars, reportLock, msgs, reported, refused>>

\* Mutant: reportLock is not taken.
LockNothing(w) ==
  /\ job[w] = "lock"
  /\ Goto(w, "append")
  /\ UNCHANGED <<poolVars, runVars, reportLock, msgs, history>>

\* reportLock.Lock().
Lock(w) ==
  /\ job[w] = "lock" /\ reportLock = NoWorker
  /\ reportLock' = w
  /\ Goto(w, "append")
  /\ UNCHANGED <<poolVars, runVars, msgs, history>>

\* msgs = append(msgs, m): until then the header is being written.
AppendMsg(w) ==
  /\ job[w] = "append"
  /\ msgs' = Append(msgs, hand[w])
  /\ Goto(w, "report")
  /\ UNCHANGED <<poolVars, runVars, reportLock, history>>

\* Mutant: the error of Report is logged and dropped.
ReportDropsError(w) ==
  /\ job[w] = "report"
  /\ reported' = msgs
  /\ Goto(w, "end") /\ reportLock' = NoWorker
  /\ refused' \in {refused, TRUE}
  /\ UNCHANGED <<poolVars, runVars, msgs, judged>>

\* Report(msgs): on success the deferred Unlock runs, on an error FuseErr is
\* called with the lock held.
Report(w) ==
  /\ job[w] = "report"
  /\ reported' = msgs
  /\ \/ /\ Goto(w, "end") /\ reportLock' = NoWorker
        /\ UNCHANGED refused
     \/ /\ Goto(w, "fuseErr") /\ refused' = TRUE
        /\ UNCHANGED reportLock
  /\ UNCHANGED <<poolVars, runVars, msgs, judged>>

\* The job returns to the worker's loop.
JobEnds(w) ==
  /\ job[w] = "end"
  /\ JobReturns(w)
  /\ Goto(w, "none")
  /\ UNCHANGED <<runVars, reportLock, msgs, history>>

-----------------------------------------------------------------------------
\* The goroutine of MultiPointRunner.Run, but for a rendezvous with a job.
Runner == BeforeEnds \/ BeforeOk \/ PoolEnds \/ CancelPool \/ After

\* The dispatcher's steps, and a worker's between jobs.
PoolStep ==
  /\ NextJob \/ CloseWorkers \/ Finish \/ \E w \in Workers : WorkerExits(w)
  /\ UNCHANGED <<runVars, job, reportLock, msgs, history>>

\* What a job does, but for calling Fuse, which is up to the judger.
Job(w) ==
  \/ Fuse(w) \/ Judge(w) \/ Lock(w) \/ AppendMsg(w) \/ Report(w) \/ JobEnds(w)

Next ==
  \/ Runner \/ PoolStep \/ HandOver
  \/ \E w \in Workers : JudgeFuses(w) \/ Job(w)

Spec == Init /\ [][Next]_vars

\* Every goroutine that can run does, and a worker that waits for reportLock
\* gets it in the end (sync.Mutex does not starve a waiter).
Fairness ==
  /\ WF_vars(Runner) /\ WF_vars(HandOver)
  /\ WF_vars(PoolStep)
  /\ \A w \in Workers : WF_vars(Job(w)) /\ SF_vars(Lock(w))

FairSpec == Spec /\ Fairness
-----------------------------------------------------------------------------
\* Every variable has its type.
TypeOK ==
  /\ PoolTypeOK
  /\ run \in RunPCs
  /\ result \in {"none", "ok", "error", "fused"}
  /\ job \in [Workers -> JobPCs]
  /\ reportLock \in Workers \union {NoWorker}
  /\ msgs \in Seq(Jobs)
  /\ seen \in Seq(Jobs) \union {Torn}
  /\ reported \in Seq(Jobs)
  /\ judged \subseteq Jobs
  /\ refused \in BOOLEAN

\* A run that was not stopped has called After with the messages of exactly
\* the points whose Judge succeeded, each once, all points being done, and no
\* Report failed: a report's error is never swallowed by a pool that ends, and
\* After never races with a job.
WholeIsComplete ==
  run \in {"after", "returned"} /\ ~cancelled /\ dispatcher # "new" =>
    /\ done = Jobs
    /\ ~refused
    /\ ToSet(msgs) = judged /\ IsInjective(msgs)
    /\ run = "returned" => seen = msgs

\* A job waits for another one, or for a Run that no longer receives.
Waits(w) ==
  \/ job[w] = "lock" /\ reportLock # NoWorker
  \/ job[w] \in {"fuse", "fuseErr"} /\ run # "select"

\* Run, the dispatcher or a job can take a step of its own.
CanMove ==
  \/ run \in {"before", "fused", "fusedErr", "after"} \/ (run = "select" /\ Finished)
  \/ dispatcher = "next"
  \/ dispatcher = "send" /\ hand[Turn] = NoJob
  \/ dispatcher = "wait" /\ wg = 0
  \/ \E w \in Busy : ~Waits(w)

\* Run, the dispatcher, the wait group, reportLock and the fuser never wait
\* for each other in a circle.  When nobody can go on, Run has returned, and
\* if jobs are left behind then one of them is in Fuse, which nobody will
\* ever receive: they wait for it, if not in Fuse themselves.
NoDeadlock ==
  \/ CanMove
  \/ /\ run = "returned"
     /\ Busy # {} => \E w \in Busy : job[w] \in {"fuse", "fuseErr"}

\* Run implements the abstract judging: reports grow by one message at a
\* time, whichever job calls them, none is made once After was called for a
\* whole run, and after Cancel only the points in the workers' hands and one
\* more are settled.
Dropped   == done \ ToSet(reported)
Unsettled == {w \in Busy : hand[w] \notin ToSet(reported)}
ToSettle  == Cardinality(Unsettled) + (IF dispatcher = "send" THEN 1 ELSE 0)
Left      == IF cancelled THEN ToSettle ELSE W + 1

Outcome ==
  CASE cancelled                                 -> "stopped"
    [] ~cancelled /\ run \in {"after", "returned"} ->
         (IF dispatcher = "new" THEN "skipped" ELSE "whole")
    [] OTHER                                     -> "open"

J == INSTANCE Judging WITH
       Points <- Jobs, LateLimit <- W + 1,
       reports <- reported, dropped <- Dropped,
       outcome <- Outcome, left <- Left

JudgingSpec == J!Spec

\* Run returns, whatever fuses and however many jobs do: it waits for the
\* pool or for one fuse, never for the jobs it has stopped.
RunReturns == <>(run = "returned")

\* Unless a fuse stopped it, a run leaves no goroutine behind: no job stays
\* blocked in Fuse, or at reportLock behind one that is.
WorkersExit == run = "after" /\ ~cancelled ~> exited = Workers

=============================================================================
