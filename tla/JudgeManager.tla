---------------------------- MODULE JudgeManager ----------------------------
(***************************************************************************)
(* The managers of the judger and what they share: how a solution is       *)
(* polled from the AOI server, admitted, judged under its lock, finished   *)
(* or failed, and picked up again by the janitor when its manager died     *)
(* (internal/manager: poll.go, unrun.go, ratelimit.go, redis.go,           *)
(* session.go; the judging itself, running.go, is one state here).         *)
(*                                                                         *)
(* Every manager process runs a poll loop, a janitor loop and one          *)
(* goroutine m.run per solution it judges.  They share, through Redis, the *)
(* stored solutions ("soln:*"), a lock per solution and the counter of the *)
(* rate limiter, and through HTTP the tasks of the AOI server.             *)
(*                                                                         *)
(* Time is abstracted: a lock may expire exactly when no run keeps it      *)
(* alive.  SessionLock, which models the lock in time, shows that this is  *)
(* what its expiry amounts to while goroutines are served in time; the     *)
(* fault "stall" drops that assumption.                                    *)
(***************************************************************************)
EXTENDS Integers, FiniteSets

CONSTANTS Managers,    \* manager processes
          Solutions,   \* the solutions the AOI server hands out
          Runs,        \* slots for live m.run goroutines: a bound
          BadConfig,   \* solutions whose judge config does not parse
          RateLimit,   \* conf.RateLimit, the total of the rate limiter
          Faults,      \* what may go wrong: see Faulty
          MaxCrashes,  \* bound on the crashes of managers
          None,        \* no solution, no manager, no lock
          Orphan       \* the value of a lock whose manager died

ASSUME ManagerAssumption ==
  /\ None \notin Managers \union {Orphan} /\ Orphan \notin Managers
  /\ None \notin Solutions
  /\ BadConfig \subseteq Solutions
  /\ RateLimit \in Nat \ {0}
  /\ Faults \subseteq {"redis", "aoi", "stall", "panic"}
  /\ MaxCrashes \in Nat

VARIABLES
  soln,     \* solutions stored in Redis: the admitted ones
  lock,     \* the value of each solution's lock key
  current,  \* the counter of the rate limiter
  task,     \* each solution's task on the AOI server
  ppc,      \* where each manager's poll loop is
  psol,     \* the solution the poll loop has in hand
  jan,      \* what the janitor still has to look at of its last listing
  rpc,      \* where each run is
  rmgr,     \* the manager of each run
  rsol,     \* the solution of each run
  failed,   \* the session of the run returned an error
  beat,     \* the lockLoop of the run is alive, or ended as told
  panics,   \* the runs whose judging panicked: only deferred calls follow
  crashes,  \* managers that died so far, or are about to by a panic
  lost      \* history: the tasks whose last trace a failure removed

redis    == <<soln, lock, current>>
pollVars == <<ppc, psol>>
session  == <<rmgr, rsol, failed, beat, panics>>
runVars  == <<rpc, session>>
ending   == <<crashes, lost>>
vars     == <<redis, task, pollVars, jan, runVars, ending>>

\* "redis": a command fails, performed or not.  "aoi": so does a request to
\* the AOI server.  "stall": a goroutine is late and a lock expires.
\* "panic": judging panics (createJob, pullJobLogs).
Faulty(kind) == kind \in Faults

PollPCs == {"sleep", "granted", "polled", "refuse", "giveback"}
LockPCs == {"judge", "close", "delsoln", "unlock", "unlockdel"}
RunPCs  == {"idle", "new", "trylock", "fail", "release"} \union LockPCs
Tasks   == {"pending", "assigned", "completed"}

\* From its SET NX to its DEL a run acts as the owner of the lock.
InLock(r)     == rpc[r] \in LockPCs
KeepsAlive(r) == InLock(r) /\ beat[r]
Live(r)       == rpc[r] # "idle"

\* Runs whose session returned an error after its solution left the store:
\* failSoln is all that leads back to the task.
AboutToFail ==
  {r \in Runs : failed[r] /\ rpc[r] \in {"unlock", "unlockdel", "fail"}}

Init ==
  /\ soln = {}
  /\ lock = [s \in Solutions |-> None]
  /\ current = 0
  /\ task = [s \in Solutions |-> "pending"]
  /\ ppc = [m \in Managers |-> "sleep"]
  /\ psol = [m \in Managers |-> None]
  /\ jan = [m \in Managers |-> {}]
  /\ rpc = [r \in Runs |-> "idle"]
  /\ rmgr = [r \in Runs |-> None]
  /\ rsol = [r \in Runs |-> None]
  /\ failed = [r \in Runs |-> FALSE]
  /\ beat = [r \in Runs |-> FALSE]
  /\ panics = {}
  /\ crashes = 0
  /\ lost = {}

-----------------------------------------------------------------------------
(***************************************************************************)
(* The rate limiter: two Lua scripts, each atomic.                         *)
(***************************************************************************)
\* Mutant: the counter is decremented without looking at it.
FreedUnchecked == current - 1

\* RateLimiter.Request: INCR if below the total.
RequestSlot == current < RateLimit /\ current' = current + 1

\* RateLimiter.Release: DECR if positive.
Freed == IF current > 0 THEN current - 1 ELSE current

-----------------------------------------------------------------------------
(***************************************************************************)
(* The tasks of the AOI server (aoiclient).                                *)
(***************************************************************************)
\* pollSolution: a pending task is assigned to this judger.
HandsOut(s) ==
  task[s] = "pending" /\ task' = [task EXCEPT ![s] = "assigned"]

\* completeSolutionTask.
Completes(s) == task' = [task EXCEPT ![s] = "completed"]

\* History: a failure that removes what would have led back to these tasks.
Loses(S) == lost' = lost \union S

-----------------------------------------------------------------------------
\* go m.run(s): the goroutine takes a free slot.
Spawn(m, s) ==
  \E r \in Runs :
    /\ rpc[r] = "idle"
    /\ rpc' = [rpc EXCEPT ![r] = "new"]
    /\ rmgr' = [rmgr EXCEPT ![r] = m]
    /\ rsol' = [rsol EXCEPT ![r] = s]
    /\ UNCHANGED <<failed, beat, panics>>

-----------------------------------------------------------------------------
(***************************************************************************)
(* The poll loop (pollLoop, poll, solnAdmission).                          *)
(***************************************************************************)
\* RateLimiter.Request grants a slot.  A refusal changes nothing: the loop
\* sleeps on.  When the reply is lost the loop sleeps on as well, but the
\* counter has been incremented.
PollRequest(m) ==
  /\ ppc[m] = "sleep"
  /\ RequestSlot
  /\ \/ ppc' = [ppc EXCEPT ![m] = "granted"]
     \/ Faulty("redis") /\ UNCHANGED ppc
  /\ UNCHANGED <<soln, lock, task, psol, jan, runVars, ending>>

\* The AOI server hands out a pending task, or has none, or the request
\* fails, with or without a task being assigned to nobody.
PollAoi(m) ==
  /\ ppc[m] = "granted"
  /\ \/ \E s \in Solutions :
          /\ HandsOut(s)
          /\ \/ /\ ppc' = [ppc EXCEPT ![m] = "polled"]
                /\ psol' = [psol EXCEPT ![m] = s]
                /\ UNCHANGED lost
             \/ /\ Faulty("aoi")
                /\ ppc' = [ppc EXCEPT ![m] = "giveback"]
                /\ Loses({s})
                /\ UNCHANGED psol
     \/ /\ Faulty("aoi") \/ \A s \in Solutions : task[s] # "pending"
        /\ ppc' = [ppc EXCEPT ![m] = "giveback"]
        /\ UNCHANGED <<task, psol, lost>>
  /\ UNCHANGED <<redis, jan, runVars, crashes>>

\* solnAdmission: store the solution and start its run.
Admit(m) ==
  /\ ppc[m] = "polled"
  /\ soln' = soln \union {psol[m]}
  /\ Spawn(m, psol[m])
  /\ ppc' = [ppc EXCEPT ![m] = "sleep"]
  /\ psol' = [psol EXCEPT ![m] = None]
  /\ UNCHANGED <<lock, current, task, jan, ending>>

\* Mutant: a solution that could not be stored is dropped, not failed.
AdmitFailsDrops(m) ==
  /\ Faulty("redis")
  /\ ppc[m] = "polled"
  /\ soln' \in {soln, soln \union {psol[m]}}
  /\ ppc' = [ppc EXCEPT ![m] = "giveback"]
  /\ psol' = [psol EXCEPT ![m] = None]
  /\ UNCHANGED <<lock, current, task, jan, runVars, ending>>

\* StoreSolutionPoll returns an error, whether or not the key was set.
AdmitFails(m) ==
  /\ Faulty("redis")
  /\ ppc[m] = "polled"
  /\ soln' \in {soln, soln \union {psol[m]}}
  /\ ppc' = [ppc EXCEPT ![m] = "refuse"]
  /\ UNCHANGED <<lock, current, task, psol, jan, runVars, ending>>

\* failSoln: the task is completed with an error, unless a request fails
\* (Patch's error is ignored, SaveDetails' skips Complete).
FailTask(s) ==
  \/ Completes(s) /\ UNCHANGED lost
  \/ Faulty("aoi") /\ Loses({s}) /\ UNCHANGED task

\* The solution that was not admitted is failed.
Refuse(m) ==
  /\ ppc[m] = "refuse"
  /\ FailTask(psol[m])
  /\ ppc' = [ppc EXCEPT ![m] = "giveback"]
  /\ psol' = [psol EXCEPT ![m] = None]
  /\ UNCHANGED <<redis, jan, runVars, crashes>>

\* Mutant: the slot is not given back when there was nothing to poll.
GiveBackForgets(m) ==
  /\ ppc[m] = "giveback"
  /\ ppc' = [ppc EXCEPT ![m] = "sleep"]
  /\ UNCHANGED <<redis, task, psol, jan, runVars, ending>>

\* The slot is given back; the loop does not look at Release's error.
GiveBack(m) ==
  /\ ppc[m] = "giveback"
  /\ \/ current' = Freed
     \/ Faulty("redis") /\ UNCHANGED current
  /\ ppc' = [ppc EXCEPT ![m] = "sleep"]
  /\ UNCHANGED <<soln, lock, task, psol, jan, runVars, ending>>

-----------------------------------------------------------------------------
(***************************************************************************)
(* The janitor (findNotRunning, findNotRunningLoop).                       *)
(***************************************************************************)
\* ListSolutionPoll.  When it fails the janitor sleeps on.
JanitorList(m) ==
  /\ jan[m] = {}
  /\ jan' = [jan EXCEPT ![m] = soln]
  /\ UNCHANGED <<redis, task, pollVars, runVars, ending>>

\* One item of the listing, which may be stale by now: a locked one is
\* skipped, an unlocked one is run, with no Request to the rate limiter.
\* IsLocked may fail: the item is skipped.
JanitorCheck(m, s) ==
  /\ s \in jan[m]
  /\ jan' = [jan EXCEPT ![m] = @ \ {s}]
  /\ \/ /\ lock[s] # None \/ Faulty("redis")
        /\ UNCHANGED runVars
     \/ /\ lock[s] = None
        /\ Spawn(m, s)
  /\ UNCHANGED <<redis, task, pollVars, ending>>

-----------------------------------------------------------------------------
(***************************************************************************)
(* A run (Manager.run, NewJudgeSession, JudgeSession.Run, cleanup).        *)
(***************************************************************************)
Goto(r, label) == rpc' = [rpc EXCEPT ![r] = label]

\* Where m.run goes when the session has returned.
After(r) == IF failed[r] THEN "fail" ELSE "release"

\* Mutant: the early return comes before the deferred Release.
RunNewLeaks(r) ==
  /\ rpc[r] = "new"
  /\ \/ /\ rsol[r] \in soln \ BadConfig
        /\ Goto(r, "trylock")
        /\ UNCHANGED <<rmgr, rsol>>
     \/ /\ rsol[r] \notin soln \ BadConfig
        /\ Goto(r, "idle")
        /\ rmgr' = [rmgr EXCEPT ![r] = None]
        /\ rsol' = [rsol EXCEPT ![r] = None]
  /\ UNCHANGED <<redis, task, pollVars, jan, failed, beat, panics, ending>>

\* NewJudgeSession reads the stored solution BEFORE the lock is taken.  A
\* solution that is not stored any more, or whose config does not parse, is
\* left as it is.
RunNew(r) ==
  /\ rpc[r] = "new"
  /\ \/ /\ rsol[r] \in soln \ BadConfig
        /\ Goto(r, "trylock")
     \/ /\ rsol[r] \notin soln \ BadConfig \/ Faulty("redis")
        /\ Goto(r, "release")
  /\ UNCHANGED <<redis, task, pollVars, jan, session, ending>>

\* Mutant: SET without NX.
TryLockForce(r) ==
  /\ rpc[r] = "trylock"
  /\ lock' = [lock EXCEPT ![rsol[r]] = rmgr[r]]
  /\ beat' = [beat EXCEPT ![r] = TRUE]
  /\ Goto(r, "judge")
  /\ UNCHANGED <<soln, current, task, pollVars, jan, rmgr, rsol, failed,
                 panics, ending>>

\* tryLock: SET NX.  A run that does not get the lock ends without an error.
TryLock(r) ==
  /\ rpc[r] = "trylock"
  /\ \/ /\ lock[rsol[r]] = None
        /\ lock' = [lock EXCEPT ![rsol[r]] = rmgr[r]]
        /\ beat' = [beat EXCEPT ![r] = TRUE]
        /\ Goto(r, "judge")
     \/ /\ lock[rsol[r]] # None
        /\ Goto(r, "release")
        /\ UNCHANGED <<lock, beat>>
  /\ UNCHANGED <<soln, current, task, pollVars, jan, rmgr, rsol, failed,
                 panics, ending>>

\* tryLock returns an error, whether or not the lock was set: the run goes
\* on to fail the solution, even one that another run is judging.
TryLockFails(r) ==
  /\ Faulty("redis")
  /\ rpc[r] = "trylock"
  /\ \/ UNCHANGED lock
     \/ /\ lock[rsol[r]] = None
        /\ lock' = [lock EXCEPT ![rsol[r]] = rmgr[r]]
  /\ failed' = [failed EXCEPT ![r] = TRUE]
  /\ Goto(r, "fail")
  /\ UNCHANGED <<soln, current, task, pollVars, jan, rmgr, rsol, beat,
                 panics, ending>>

\* The judged program asks for the task to be completed (ActionComplete).
JudgeCompletes(r) ==
  /\ rpc[r] = "judge"
  /\ Completes(rsol[r])
  /\ UNCHANGED <<redis, pollVars, jan, runVars, ending>>

\* The log has ended: the final Complete, whose error nobody looks at (what it
\* does to the task is what failSoln does).
JudgeOk(r) ==
  /\ rpc[r] = "judge"
  /\ FailTask(rsol[r])
  /\ Goto(r, "close")
  /\ UNCHANGED <<redis, pollVars, jan, session, crashes>>

\* Judging fails: Kubernetes, Redis, the AOI server, or the judged program,
\* which may ask for it (ActionError).
JudgeErr(r) ==
  /\ rpc[r] = "judge"
  /\ failed' = [failed EXCEPT ![r] = TRUE]
  /\ Goto(r, "close")
  /\ UNCHANGED <<redis, task, pollVars, jan, rmgr, rsol, beat, panics, ending>>

\* Judging panics: in createJob, when a container has fewer variables than its
\* index says (running.go:150), or in pullJobLogs, when the job has no pod and
\* the reader is nil.  The deferred calls run, failSoln is not one of them,
\* and then the process dies.
JudgePanics(r) ==
  /\ Faulty("panic")
  /\ crashes < MaxCrashes
  /\ rpc[r] = "judge"
  /\ panics' = panics \union {r}
  /\ crashes' = crashes + 1
  /\ Loses({rsol[r]})
  /\ Goto(r, "close")
  /\ UNCHANGED <<redis, task, pollVars, jan, rmgr, rsol, failed, beat>>

\* RefreshLock fails: Redis does, or the key has expired.
BeatFails(r) ==
  /\ rpc[r] \in {"judge", "close"}
  /\ beat[r]
  /\ Faulty("redis") \/ lock[rsol[r]] = None
  /\ beat' = [beat EXCEPT ![r] = FALSE]
  /\ UNCHANGED <<redis, task, pollVars, jan, rpc, rmgr, rsol, failed, panics, ending>>

\* Mutant: closeChan has a buffer, cleanup no longer waits for lockLoop.
CloseBuffered(r) ==
  /\ rpc[r] = "close"
  /\ Goto(r, "delsoln")
  /\ UNCHANGED <<redis, task, pollVars, jan, session, ending>>

\* cleanup hands closeChan's message to lockLoop; without it, it waits for
\* ever.
Close(r) ==
  /\ rpc[r] = "close"
  /\ beat[r]
  /\ Goto(r, "delsoln")
  /\ UNCHANGED <<redis, task, pollVars, jan, session, ending>>

\* DeleteSolutionPoll; on an error cleanup returns and the lock stays.
DelSoln(r) ==
  /\ rpc[r] = "delsoln"
  /\ \/ /\ soln' = soln \ {rsol[r]}
        /\ Goto(r, "unlock")
     \/ /\ Faulty("redis")
        /\ soln' \in {soln, soln \ {rsol[r]}}
        /\ Goto(r, After(r))
  /\ UNCHANGED <<lock, current, task, pollVars, jan, rmgr, rsol, failed, beat,
                 panics, ending>>

\* ReleaseLock's GET: is the value this manager's ID?
Unlock(r) ==
  /\ rpc[r] = "unlock"
  /\ \/ /\ lock[rsol[r]] = rmgr[r]
        /\ Goto(r, "unlockdel")
     \/ /\ lock[rsol[r]] # rmgr[r] \/ Faulty("redis")
        /\ Goto(r, After(r))
  /\ UNCHANGED <<redis, task, pollVars, jan, session, ending>>

\* ReleaseLock's DEL, which depends on nothing.
UnlockDel(r) ==
  /\ rpc[r] = "unlockdel"
  /\ \/ lock' = [lock EXCEPT ![rsol[r]] = None]
     \/ Faulty("redis") /\ UNCHANGED lock
  /\ Goto(r, After(r))
  /\ UNCHANGED <<soln, current, task, pollVars, jan, rmgr, rsol, failed, beat,
                 panics, ending>>

\* The session returned an error: failSoln.
Fail(r) ==
  /\ rpc[r] = "fail"
  /\ FailTask(rsol[r])
  /\ Goto(r, "release")
  /\ UNCHANGED <<redis, pollVars, jan, session, crashes>>

\* The deferred Release, by runs of the janitor too, which never requested
\* a slot; the goroutine is over.
Release(r) ==
  /\ rpc[r] = "release" /\ r \notin panics
  /\ \/ current' = Freed
     \/ Faulty("redis") /\ UNCHANGED current
  /\ rpc' = [rpc EXCEPT ![r] = "idle"]
  /\ rmgr' = [rmgr EXCEPT ![r] = None]
  /\ rsol' = [rsol EXCEPT ![r] = None]
  /\ failed' = [failed EXCEPT ![r] = FALSE]
  /\ beat' = [beat EXCEPT ![r] = FALSE]
  /\ UNCHANGED <<soln, lock, task, pollVars, jan, panics, ending>>

\* A manager dies with all its goroutines and is started again, under a new
\* ID: nothing compares equal to the locks it leaves behind.  What its poll
\* loop had in hand is lost, and what a run was about to fail.
Dies(m) ==
  LET died == {r \in Runs : rmgr[r] = m}
  IN /\ lock' = [s \in Solutions |-> IF lock[s] = m THEN Orphan ELSE lock[s]]
     /\ ppc' = [ppc EXCEPT ![m] = "sleep"]
     /\ psol' = [psol EXCEPT ![m] = None]
     /\ jan' = [jan EXCEPT ![m] = {}]
     /\ rpc' = [r \in Runs |-> IF r \in died THEN "idle" ELSE rpc[r]]
     /\ rsol' = [r \in Runs |-> IF r \in died THEN None ELSE rsol[r]]
     /\ failed' = [r \in Runs |-> failed[r] /\ r \notin died]
     /\ beat' = [r \in Runs |-> beat[r] /\ r \notin died]
     /\ rmgr' = [r \in Runs |-> IF r \in died THEN None ELSE rmgr[r]]
     /\ panics' = panics \ died
     /\ Loses(({psol[m]} \ {None}) \union {rsol[r] : r \in AboutToFail \intersect died})

\* The deferred Release was the last call of a goroutine that panics.
PanicKills(r) ==
  /\ rpc[r] = "release" /\ r \in panics
  /\ \/ current' = Freed
     \/ Faulty("redis") /\ UNCHANGED current
  /\ Dies(rmgr[r])
  /\ UNCHANGED <<soln, task, crashes>>

-----------------------------------------------------------------------------
\* Mutant: the lock is set without an expiry.
LockExpiresNever(s) == FALSE /\ s \in Solutions /\ UNCHANGED vars

\* The lock's key expires: under nobody who keeps it alive.
LockExpires(s) ==
  /\ lock[s] # None
  /\ Faulty("stall") \/ \A r \in Runs : KeepsAlive(r) => rsol[r] # s
  /\ lock' = [lock EXCEPT ![s] = None]
  /\ UNCHANGED <<soln, current, task, pollVars, jan, runVars, ending>>

\* The process dies at any time.
Crash(m) ==
  /\ crashes < MaxCrashes
  /\ crashes' = crashes + 1
  /\ Dies(m)
  /\ UNCHANGED <<soln, current, task>>

Poller(m) ==
  \/ PollRequest(m)
  \/ PollAoi(m)
  \/ Admit(m)
  \/ AdmitFails(m)
  \/ Refuse(m)
  \/ GiveBack(m)

Judge(r) == JudgeOk(r) \/ JudgeErr(r)

Cleanup(r) == Close(r) \/ DelSoln(r) \/ Unlock(r) \/ UnlockDel(r)

Run(r) ==
  \/ RunNew(r)
  \/ TryLock(r)
  \/ Judge(r)
  \/ Cleanup(r)
  \/ Fail(r)
  \/ Release(r)
  \/ PanicKills(r)

\* What may happen to a run, and need not.
Disturbed(r) ==
  TryLockFails(r) \/ JudgeCompletes(r) \/ JudgePanics(r) \/ BeatFails(r)

Next ==
  \/ \E m \in Managers :
       Poller(m) \/ JanitorList(m) \/ Crash(m)
  \/ \E m \in Managers, s \in Solutions : JanitorCheck(m, s)
  \/ \E r \in Runs : Run(r) \/ Disturbed(r)
  \/ \E s \in Solutions : LockExpires(s)

Spec == Init /\ [][Next]_vars

\* Every goroutine that can run does, every judge run returns, and a lock
\* that nobody keeps alive expires.  The two actions with a go statement get
\* strong fairness: in the program it never waits, in the model it may wait
\* for one of the slots in Runs.
Fairness ==
  /\ \A m \in Managers :
       /\ WF_vars(Poller(m)) /\ SF_vars(Admit(m))
       /\ WF_vars(JanitorList(m))
       /\ \A s \in Solutions : SF_vars(JanitorCheck(m, s))
  /\ \A r \in Runs : WF_vars(Run(r))
  /\ \A s \in Solutions : WF_vars(LockExpires(s))

FairSpec == Spec /\ Fairness
-----------------------------------------------------------------------------
\* Every variable has its type; the counter of slots stays within the limit.
TypeOK ==
  /\ soln \in SUBSET Solutions
  /\ lock \in [Solutions -> Managers \union {None, Orphan}]
  /\ current \in 0 .. RateLimit
  /\ task \in [Solutions -> Tasks]
  /\ ppc \in [Managers -> PollPCs]
  /\ psol \in [Managers -> Solutions \union {None}]
  /\ jan \in [Managers -> SUBSET Solutions]
  /\ rpc \in [Runs -> RunPCs]
  /\ rmgr \in [Runs -> Managers \union {None}]
  /\ rsol \in [Runs -> Solutions \union {None}]
  /\ failed \in [Runs -> BOOLEAN]
  /\ beat \in [Runs -> BOOLEAN]
  /\ panics \subseteq Runs
  /\ crashes \in 0 .. MaxCrashes
  /\ lost \subseteq Solutions

\* What is in hand goes with where a loop or a run is.
Shape ==
  /\ \A m \in Managers : ppc[m] \in {"polled", "refuse"} <=> psol[m] # None
  /\ \A r \in Runs : /\ Live(r) <=> rmgr[r] # None
                     /\ Live(r) <=> rsol[r] # None
                     /\ rpc[r] = "fail" => failed[r]
                     /\ failed[r] =>
                          rpc[r] \notin {"idle", "new", "trylock", "judge"}
                     /\ r \in panics =>
                          /\ rpc[r] \in {"close", "delsoln", "unlock",
                                         "unlockdel", "release"}
                          /\ ~failed[r] /\ rsol[r] \in lost
                          /\ crashes > 0

\* A run that keeps its lock alive really has the lock: neither another run
\* of its own manager (whose ID it shares), nor another manager, nor the
\* janitor's runs take or delete it (Run, cleanup and ReleaseLock).
KeeperHoldsLock ==
  \A r \in Runs : KeepsAlive(r) => lock[rsol[r]] = rmgr[r]

\* Of the runs that a poll loop and any number of janitors start for one
\* solution, one judges it at a time, unless its lockLoop died.
MutualExclusion ==
  \A r, q \in Runs :
    r # q /\ KeepsAlive(r) /\ KeepsAlive(q) => rsol[r] # rsol[q]

\* The runs that keep the lock of a solution alive.
Keepers(s) == {r \in Runs : KeepsAlive(r) /\ rsol[r] = s}

TheLeases == INSTANCE Leases WITH
  Items <- Solutions, Clients <- Runs,
  taken <- {s \in Solutions : lock[s] # None},
  keepers <- [s \in Solutions |-> Keepers(s)]

\* The locks of the managers are a table of exclusive leases: no run takes a
\* lock in use, gives back or loses another's, and what a dead manager, a
\* lost reply or a dead lockLoop leaves taken lapses before it is taken
\* again (tryLock, lockLoop and cleanup of session.go, redis.go).
LeasesSpec == TheLeases!Spec

\* A solution leaves the store only by the hand of a run that keeps its lock
\* at that moment, so never while another run judges it with its lockLoop
\* alive: cleanup deletes it before it releases the lock, and after lockLoop
\* can fail no more.
OnlyHolderRemoves ==
  [][\A s \in soln \ soln' :
       \E r \in Keepers(s) : rpc[r] = "delsoln" /\ lock[s] = rmgr[r]]_vars

\* A task that was assigned to this judger and is not completed is never out
\* of sight: it is stored where the janitor finds it, a poll loop has it in
\* hand, or a run that removed it from the store is about to fail it.  What
\* loses a task is exactly: a poll whose reply is lost, a request of failSoln
\* or the last Complete that fails, a manager that dies between two of its
\* steps, and a panic, whose deferred cleanup removes the solution.
NoOrphanTask ==
  \A s \in Solutions :
    task[s] = "assigned" =>
      \/ s \in soln
      \/ \E m \in Managers : psol[m] = s
      \/ \E r \in AboutToFail : rsol[r] = s
      \/ s \in lost

\* A slot of the rate limiter that is taken belongs to a poll loop that is
\* awake or to a run that will release it: none leaks while no manager dies
\* and Redis answers.
NoSlotLeak ==
  crashes = 0 =>
    current <= Cardinality({m \in Managers : ppc[m] # "sleep"})
                 + Cardinality({r \in Runs : Live(r)})

\* While no manager dies, every solution whose config parses is judged to
\* its end, although runs of the janitor take part, and with fewer slots than
\* solutions.  (A manager that dies takes its slots with it for good.)
PendingIsCompleted ==
  \A s \in Solutions \ BadConfig : <>(task[s] = "completed" \/ crashes > 0)

\* An admitted solution is judged to its end even if its manager dies: the
\* dead manager's lock expires and a janitor finds the solution.
AdmittedIsFinished ==
  \A s \in Solutions \ BadConfig : s \in soln ~> s \notin soln

\* The comment over the last Complete of pullJobLogs: "MUST complete the job,
\* otherwise maybe not completed".
UnfailedRunCompletes ==
  \A r \in Runs :
    /\ rpc[r] \in {"close", "delsoln", "unlock", "unlockdel"}
    /\ ~failed[r] /\ r \notin panics
    => task[rsol[r]] = "completed"

\* The comment over findNotRunning: "Find admitted but not running jobs (no
\* lock) and run them".
RunsAdmittedJobs ==
  \A r \in Runs : rpc[r] = "judge" => rsol[r] \in soln

=============================================================================
