# A verification project for hpcgame-judger

TLA+ models of the judger's manager, the TLC runs that check them, and TLAPS
proofs of what matters most about them. The models are translated from the Go
sources; `PROJECT.json` names, for every definition, the lines it stands for.

## 1. The system

A *manager* polls an AOI server for submitted solutions, judges each one by
running a Kubernetes job in a namespace made for it, follows the job's log
line by line as commands for the AOI server (score, details, completed), and
removes the namespace. Several managers run side by side, die, and are started
again; Redis is what they share.

| Component | State | Operations | Modelled in |
|---|---|---|---|
| Poll loop (`internal/manager/poll.go`) | a solution in hand | request a slot, poll, admit or fail, start a run | `JudgeManager` |
| Janitor (`unrun.go`) | a listing of stored solutions | list, check lock, start a run | `JudgeManager` |
| Rate limiter (`ratelimit.go`) | a counter and a total in Redis | `Request`, `Release` (Lua scripts) | `JudgeManager` |
| Judge session (`session.go`) | lock key, `closeChan`, lockLoop | `tryLock`, refresh, `cleanup` | `SessionLock`, `JudgeManager` |
| Redis wrapper (`redis.go`) | locks with expiry, stored solutions | acquire, refresh, release, store, list | `SessionLock`, `JudgeManager` |
| Namespace and job (`running.go`, `internal/kube`) | objects in the cluster | create one by one, watch, delete | `JudgeNamespace` |
| Log pulling (`running.go`, `protocol.go`) | the stream, the processed timestamp | follow, act on a line, stamp, resume | `LogPull` |
| AOI client (`pkg/aoiclient`) | the tasks, on the server | poll, patch, save details, complete | `JudgeManager` |
| Multi-point judging (`pkg/framework/multipoint.go`, `threadpool.go`) | a dispatcher, workers, `msgs` and its lock, a fuser | judge each point, report, fuse, cancel | `MultiPoint`, `ThreadPool` |
| Waiting for jobs and pods (`pkg/framework/kube.go`, `backoff.go`) | a watch, the pods still to be looked at | watch, get, list, follow the log, ask for success | `WaitJob` |
| Timer server (`pkg/framework/timer.go`) | two maps of times | save a time | `TimerServer` |
| Templates, secrets, configuration, utility, manifests | files | start-up and single requests | templates only as a sequence of objects |

How they interact. The poll loop and the janitor start goroutines (`m.run`),
which share nothing in memory but the manager; a session and its lockLoop meet
on the unbuffered `closeChan`. Everything else goes through Redis (the counter,
the key `soln:*` that makes a solution *admitted*, the key `judge:lock:*`),
through the AOI server, or through Kubernetes, each call of which may fail
with or without having been performed. A judge program may be written with
`pkg/framework`: it runs inside the job, judges its points with a pool of
goroutines, starts jobs of its own and waits for their pods, and prints the
lines the manager follows. Log and Kubernetes are all that connects the two.

What is hard here: several goroutines of one manager and several managers want
the same solution; locks expire; a lock's value is the manager's ID although
sessions compete; `ReleaseLock` is two round trips of which the second is not
conditional; solutions are read before the lock is taken; a janitor acts on a
stale listing; a crash may come between any two calls; cleanup has early
returns that leave something behind; an error of the last call is dropped; a
panic runs some of what should follow and skips the rest. In the framework, a
fuse is received once and may be sent by many, a pool is cancelled but not
waited for, and a job's status, its watch and the list of its pods disagree.
`PROJECT.json` lists these under "hazards", line by line.

What makes each part correct:

- lock: whoever keeps it alive has it, one session judges at a time, nobody
  deletes another's key, a dead manager's key goes away;
- managers: an assigned task is completed or still in somebody's sight, slots
  do not leak, what is admitted gets finished although managers die;
- log: lines are acted on once and in order, a crash costs only the backlog;
- namespace: a job starts in a complete namespace, and nothing stays behind;
- several points: each is judged once, reports grow one message at a time, a
  run that is not stopped ends with all of them, a stop is soon effective;
- waiting: no change is slept through, pods that are counted are listed,
  success is never claimed for a pod that did not succeed.

## 2. The modules

| Module | Models |
|---|---|
| `Lease` | abstract: an exclusive lease that may be lost only by a client that stopped defending it |
| `Leases` | abstract: a table of leases, taken, kept, abandoned and lapsed; what the managers rely on |
| `SessionLock` | the lock of one solution, in time |
| `JudgeManager` | the managers, all runs, the limiter, the tasks; time abstracted, judging one state |
| `LogPull` | following the log of one job across crashes |
| `JudgeNamespace` | the Kubernetes objects of one solution across attempts |
| `JobEnv` | how `createJob` rewrites the environments of a job |
| `ThreadPool` | the framework's thread pool: dispatcher, workers, wait group, `Cancel` |
| `MultiPoint` | `MultiPointRunner.Run` and the jobs it gives to a `ThreadPool` |
| `Judging` | abstract: what judging on several points promises |
| `WaitJob` | waiting for a job and its pods |
| `TimerServer` | the timer server under concurrent requests |
| `MC*` | instances for TLC |
| `*Proofs` | theorems; `SetSizes` has a lemma two of them share |

**SessionLock.** `pc` is where the session's goroutine is in `Run`/`cleanup`,
`loop` its `lockLoop`; `phase`, `pend` are a `time.Ticker` with its buffer of
one, `ttl` the key's remaining expiry. `owner` is a history variable: the
session whose SET NX created the key; what the program reads is `Mgr[owner]`.
`Close` is the rendezvous on `closeChan`. The GET and the DEL of
`ReleaseLock` are separate steps. The assumption about time is one line:
`Tick` waits for a due step of a live goroutine that is already `MaxLag` late.

**JudgeManager.** `ppc`/`psol` are a poll loop, `jan` what is left of a
janitor's listing, `rpc`/`rmgr`/`rsol`/`failed`/`beat` the run goroutines.
`soln`, `lock` and `current` are Redis, `task` the AOI server. Time is
abstracted: `LockExpires` may happen exactly when no live lockLoop keeps the
lock (the fault `"stall"` drops that guard). This is the conclusion of
`SessionLock`'s theorem `HealthyHolds`: while goroutines are served in time a
healthy session's key does not expire. That the two locks are the same is more
than a remark: both implement `Leases` (see below).
Judging is the state `"judge"`, whose ways out are those of `run()`: `LogPull`
and `JudgeNamespace` are its inside.
One of the ways is a panic (`JudgePanics`, in `createJob` or `pullJobLogs`):
the deferred cleanup and Release run, `failSoln` does not, and the process with
all its goroutines dies when the last deferred call has returned
(`PanicKills`). `lost` is a history variable: the tasks whose last trace a
failure removed, each action that does so naming them (`Loses`).
A crash gives the manager a new ID (`genID`), so its locks become `Orphan`:
values equal to nobody's.

**LogPull.** The job's program is a sequence of kinds of lines; `log` holds
when each was printed, in ticks of which `TicksPerSecond` make a second. `Open`
asks for the lines since the stamp, `Read` acts on one, `Stamp` stores the
clock cut to seconds. `runningCleanup` deletes the stamp (`Cleanup`) before the
namespace and the log go (`Leave`); a manager may die at `"deleting"`, and the
next session then starts without a stamp on a log that is still there. `got`,
`backlog`, `midway` and `wiped` are history variables.

**JudgeNamespace.** `ns`, `made`, `binding` and `job` are the cluster, `pc`
and `item` the attempt. Objects of the templates are numbers: object 1 is the
namespace, `Binding` the ClusterRoleBinding. `untidy` is a history variable.

**JobEnv.** The loop of `createJob` over the containers, `k` as in the source;
environments are sequences of names. Its panic is what `JudgePanics` stands for
in `JudgeManager`; the only effect on the cluster is that no job is created.

**ThreadPool.** `dispatcher` and `next` are the goroutine of `Run`, `hand` the
job each worker is doing, `wg` the wait group, `cancelled` whether `cancelCh` is
closed. A send on a worker's channel without a buffer is one step of the two
goroutines. What a job does is left open: `JobReturns` is its end.

**MultiPoint** extends `ThreadPool`. `run` is where `MultiPointRunner.Run` is,
`job` where each worker is in its job, `reportLock` its holder. `JudgeFuses`,
`Fuse` are the rendezvous of `fuser.ch`, which `Run` receives from in its one
select. The append to `msgs` is a step of its own, and who reads `msgs` without
the lock while it is under way may find the old slice, the new one, or words of
both (`Readable`, `Torn`). The judger's own methods may fail and fuse at will,
but return.

**WaitJob.** `pod`, `exists` and `count` are the cluster; `count` is what
`calcReadyAndFinishedPods` makes of the status, brought up to date by a step of
the job controller; `events` is the watch. `pc`, `pods`, `todo`, `cur` and
`tries` are the call. `won` is a history variable.

**TimerServer.** `min` and `max` are the maps, `pc` each request; each access to
a map is a step. `fatal`: the runtime found two of them at once.

`MultiPoint` implements `Judging` with `reports <- reported` (what the latest
`Report` was called with), `dropped` the points that are done without having
been reported, and `left` what the workers and the dispatcher have in hand when
the pool is cancelled (`JudgingSpec`, checked and proved).
`Lease` is implemented by `SessionLock` with `holder <- owner` and `gone` the
sessions that no longer defend the key (`LeaseSpec`, checked and proved).
`Leases` is implemented twice: by `JudgeManager`, with `taken` the solutions
whose lock key exists and `keepers` the runs whose lockLoop lives and that have
not released yet, and by `SessionLock`, with one item and `keepers` the healthy
sessions (both `LeasesSpec`, both proved). Where `Lease` says who may hold the
key, `Leases` says what an outsider sees of it: nobody but the keeper frees a
kept lease, and a key that nobody keeps may go at any time.

## 3. The runs

| Run | Question | Instance |
|---|---|---|
| SessionLock | Does the lock keep sessions apart in time? Is it a lease? Does an orphaned key expire, does cleanup end? | 3 sessions, 2 of one manager; expiry 6, refresh every 2, lag 1 (minutes); failing commands, crashes; fair |
| ManagerCore | Do poll loops and janitors ever judge twice at a time? Are the locks leases, and who removes a solution? Is a task ever forgotten? | 2 managers, 1 solution, 2 runs, limit 1, failing Redis and AOI, panics, 1 crash |
| ManagerLive | Do slots leak, is every solution completed, and every admitted one after a crash? | 1 manager, 2 solutions (one not parsable), 3 runs, limit 1, 1 crash or panic, fair |
| ManagerSilent | "MUST complete the job" (`running.go:367`) | expected violation: the last Complete fails |
| ManagerStale | "admitted but not running" (`unrun.go:14`) | expected violation, with no fault at all |
| LogPull | What may be repeated, what may be lost? Does the pull end? | 4 programs of 3 lines, 2 crashes, 2 ticks a second, clock up to 3, all faults, fair |
| Namespace | Does a job start in half a namespace, does anything stay, is the namespace gone in the end? | 4 objects, 4 attempts, failing requests, crashes, fair |
| MultiPoint | Is each point judged once, does a whole run end whole, can everybody wait for everybody, does it return, does it implement `Judging`? | 4 points, 2 workers, any errors and fuses, fair |
| WaitJob | Is a change slept through, are the pods there, is success real, does the wait end? | 2 pods, 1 required, 3 tries each, 1 foreign event, failing requests, fair |
| PodLogs | "backoff limit reached waiting for pod %s to quit ContainerCreating" (`kube.go:164`) | expected violation, with no fault: a log is never returned |
| JobEnv | "Unset if exists" (`running.go:150`) | expected violation: 1 or 2 containers, variables first, last, absent |
| TimerServer | "time is too far in the past or future" (`timer.go:40`) | expected violation: 2 requests |

Why the bounds are enough. Three sessions on two managers are the least with
which a key can be taken for that of a sibling and of a stranger. Two runs for
one solution are what mutual exclusion needs; the third run slot of
ManagerLive lets janitor runs of both solutions overlap a polled one. The
limit of one slot makes every wait for the limiter happen. A second crash in
LogPull meets a session that has itself resumed. Expiry, interval and lag
(6, 2, 1) are those of `session.go` in minutes and the tightest
`TimingAssumption` allows with them. Four objects cover a namespace, one
ordinary object before the binding, the binding, and one after it. Four points
on two workers are the least with which a stop leaves points unjudged: two in
the workers' hands, one late, one never. With two pods of which one is required, one
can be deleted, and counted, before the other is there, and one can be listed
while it is still being created; three tries are a first, a middle and a
last one. Bounds are guards of actions (`MaxCrashes`, `MaxTime`,
`MaxAttempts`, `MaxOther`), the slots of `Runs`, and the finite sets of
sessions, programs, pods, requests and templates. Deadlock checking is off
where the system stops: a pull that is done, a solution with no attempt left, a
run on points or a wait that has returned, requests all served.

Fairness. Every goroutine that can run does (weak fairness per goroutine or
action, the Go scheduler), Redis keys expire, Kubernetes finishes a deletion
it began, and a judge run returns: `running.go` has no timeout on a log
stream, so that is an assumption about the judged program and the cluster.
In `JudgeManager` the two actions that execute a `go` statement have strong
fairness: a `go` statement never waits, in the model it may wait for a slot of
the bounded set `Runs`. Faults and crashes are never fair. Liveness runs of
the managers have no failing requests (a failing Redis may leave a session
waiting on `closeChan` for ever: that case is in `CleanupEnds` of SessionLock).
SessionLock, LogPull, Namespace and WaitJob have them, and there the fair
actions can always happen without the fault: the break of a log stream in
particular is not part of the fair `Session`. In
`MultiPoint` a worker that waits for the report lock has strong fairness: a Go
mutex lets no waiter starve. Calling `Fuse` is not fair, it is up to the judger.
In `WaitJob` the 120 minutes without an event do pass.

What the runs show beyond "no error":

- `OnlyOwnerDeletes` and `KeeperHoldsLock` hold although the comparison in
  `ReleaseLock` cannot tell sessions of one manager apart and its DEL is
  unconditional: what protects the key is that cleanup's send waits for
  lockLoop, so a session whose lock was lost never reaches the DEL. The
  mutant with a buffered channel breaks both.
- `MutualExclusion` has to except sessions whose lockLoop died: a single
  failed refresh gives the solution to a second session while the first goes
  on (and then hangs in cleanup).
- `TypeOK` of `JudgeManager` bounds the counter by the limit only because
  `Release` looks at it: runs of the janitor release slots they never
  requested. The same surplus repairs the counter after a crash, which is
  why `AdmittedIsFinished` does not need a slot.
- `OnlyBacklogSkipped`: the stored timestamp is that of processing, so a
  session that lags behind loses its backlog at a crash, and nothing else,
  because RFC 3339 rounds down.
- `OnlyRecentRepeated` is the other half: what a crash may repeat. The reasons it
  names are all needed (without any one of them TLC finds a counterexample): the
  second of the stamp is delivered again, at most one line per crash was acted
  on before its stamp was stored, and a session that dies in `runningCleanup`,
  between the stamp and the namespace, makes the next one act on the whole log
  once more (`running.go:221-229`).
- `OnlyHolderRemoves`: a solution leaves the store only by a run that keeps its
  lock, although `cleanup` does not look at the lock before it deletes. The
  rendezvous with lockLoop is again what it rests on.
- `NoDeadlock` is stronger than "somebody can move or `Run` has returned": when
  nobody can, the jobs left behind wait, directly or through the report lock, for
  one in `Fuse` whom nobody will receive. They are the only leak.
- `JobInWholeNamespace` and `NothingLeft` each have a part without the premise
  that nothing crashed: what is in a namespace is always a beginning of the
  templates without a gap, and a session that is over leaves no active namespace
  unless its own deletion of it failed.
- `NoOrphanTask` has no premise: under every fault a task that is assigned is in
  sight, or in `lost`. The ways into `lost` are a poll whose reply is lost, a
  failing request of `failSoln`, a failing last Complete, a manager that dies
  with a task in hand or between cleanup and `failSoln`, and a panic, which
  removes the solution from the store in passing.
- `AdmittedIsFinished` holds across the panic too: cleanup runs before the
  process dies, so a solution whose judging panics is not tried again for ever.
  The price is that its task stays assigned.
- `WholeIsComplete`: a failed Report is never swallowed by a pool that ends at
  the same time, because the job that failed is still in FuseErr, holding the
  wait group, until `Run` has received its error. `WorkersExit` follows the same
  line for fuses. Both end with the first fuse: a second one blocks its worker
  for ever, with the report lock if a Report failed, and `After` may then read a
  `msgs` that is being written.
- `OneLateJob`: the dispatcher waits for one particular worker and does not look
  at `cancelCh` while it does, so one job begins after Cancel; not two.
- `NoMissedWakeup` needs the order of `WaitJobAndGetPods`: watch first, then get.
  `PodsAreThere` is as much as the list can promise: the status counts deleted
  pods as failed, so the list can be shorter than `requiredPods`, even empty, and
  `WaitPods` of an empty list is a success.
- PodLogs shows that `WaitPods` never returns a log: with any pod that has
  started it panics, so that the success of pods is only ever asked for by
  judgers that call `PodSuccessOrNot` themselves.
- `NamespaceGoes` is about the namespace only. The ClusterRoleBinding can
  stay for ever: a manager dies between the two deletions, the next attempt
  finds the namespace terminating and fails, and when it cleans up the
  namespace is gone, whose NotFound skips the binding.

## 4. The proofs

All theorems hold for every value of the constants under the named
assumptions of the modules; faults and crashes are part of the models.

`SessionLockProofs`: the inductive invariant is `IInv`, that is `TypeOK`,
`Shape`, `HealthyHoldsKey`, `HealthyKeyFresh`. Who holds the key is not
inductive by itself: that a healthy session's key does not expire needs a
lower bound on the remaining expiry at every point of the ticker's period,
which is `HealthyKeyFresh`; its bounds stay positive by
`Interval + 3 * MaxLag < TTL` (`TimingAssumption`). `Exclusion`,
`OwnerDeletes` and `Refinement` follow from it, and so does `LockIsALease`: the
lock in time implements `Leases` for one item.

`JudgeManagerProofs`: `TypeInv` (types, and what is in hand goes with where a
run is) under all faults. `KeepersHold` and `Exclusion` assume
`"stall" \notin Faults`; the invariant adds `Released`: a run that has come to
the removal of its solution or to its unlock still has its lockLoop's word for
the lock, because it got there by the rendezvous with lockLoop. From the same
invariant follow `LocksAreLeases`, the refinement of `Leases` for all solutions
at once, and `HolderRemoves`. Its proof has one lemma per kind of step: a lock is
taken, given back, its keepers leave (a dead lockLoop, a crash or a panic, which
takes several at once), it lapses, or nothing is visible of the step. `NoTaskLost`
has no premise. Its invariant adds `UnfailedIsThrough`: a session that cleans up
without an error has completed its task or lost it, with the last Complete or
in a panic. `UnfailedCompletes` assumes `"aoi" \notin Faults` and
`MaxCrashes = 0` (a panic counts as a crash); without the premise the code
breaks the comment it proves (run ManagerSilent). `SlotsDoNotLeak` assumes
`"redis" \notin Faults`, and counts awake poll loops and live runs with the
library's theorems on finite sets (`SetSizes`); a lost reply to a Request does
leak a slot (`poll.go:17`).

`JudgeNamespaceProofs`: `IInv` says at each point of an attempt what the
cluster holds. While objects are created, exactly those before the current one
exist, whatever went wrong before (`Creating`), hence `NoGap`; that the binding is
among them, and the rest of what is known at each point, is known only if
nothing crashed and no deletion failed (`Tidy`).

`LogPullProofs`: `LInv`. Each line is *past* when it was acted on or a crash
caught it; the stored stamp claims no more than past lines (`StampInv`), for
which the log must be ordered like the clock (`LogInv`) and the stamp rounded
down to it. That the stream starts at the first line not before the stamp then
makes everything in front of the reader past (`ReadInv`). `RecentRepeated` goes
the other way and adds two invariants: the stamp covers every line acted on but
those midway (`CoverInv`: a line is stamped when its second, at most, has begun),
and the lines midway are at most one per crash and the one at hand (`MidwayInv`,
counted with the library's theorems on finite sets).

`ThreadPoolProofs`: `PoolInv` is about the pool alone, for any jobs. The wait
group's counter is the number of busy workers, plus one while the dispatcher
holds a job; so it is zero only when every job is done, which is why `finCh`
means completion. `late` is bounded by where the dispatcher is.

`MultiPointProofs`: steps of `MultiPoint` are steps of the pool (`UsesPool`), so
the pool's invariant is had for nothing. `MInv` adds where jobs are, who holds
the lock, that `msgs` are the judged points whose job got past the append, and
what a run that has not been stopped knows. `Implements` proves the refinement
of `Judging`; its invariant adds that what was last reported is `msgs`, or
`msgs` but for the last message, appended under the lock. The hard case is
counting: after a stop each settled point takes one from what was in hand.
`DeadlockFree` needs `MInv` and the pool's: a job that waits for the report lock
waits for one that is past it or in `FuseErr`, and that one waits only for a
`Run` that has stopped receiving (`WaitingJobs`); a dispatcher that waits for a
worker or the wait group has a busy worker to wait for.

`WaitJobProofs`: `WInv`. The status, and every event on its way, counts only
pods that are listed or removed (`CountInv`: counters never overtake the
pods); whoever waits at an open watch has a waking event coming or a job still
short of its pods (`WakeInv`).

Only model-checked: all liveness (the prover has no fairness and no ENABLED).
Induction over recursive data and RECURSIVE operators are out of its reach as
well; no module uses them. `JobEnv` and `TimerServer` are only refuted: what
they state is what the source says and does not do.

## 5. What is not modelled

- `List` scans Redis in batches; a listing is one step here, stale afterwards.
- Clock skew between a manager and the kubelet; the clock of `LogPull` is one.
- Times other than the lock's: poll and janitor intervals, the timeouts of the
  watches (they may pass, when is left out), the sleeps of `WaitTill` and
  `PodLogs`, which count as tries. That `WaitTill` sleeps for its first
  cool-down and not the doubled one (`backoff.go:23`) is therefore not visible.
- The manager's own wait for its job (`watchJobTillReady`) is one step of
  `JudgeNamespace`; its framework counterpart is what `WaitJob` has in detail.
- A second fuse or a pool that is cancelled leaves goroutines behind; nobody
  waits for them, and the process of the judge program ends with its job.
- Wording and encoding: messages, details, YAML, JSON, URLs.
- Secrets (`secretmanager.go`): files re-read under a write lock; the client
  reads the files itself, and the namespace in them does not change.
- Start-up I/O, the utility, manifests, and the framework's helpers (`Panic`,
  `Must`, addresses, download, archives, `Pnt`): straight-line code that keeps no
  state; no protocol depends on it.

## 6. Plan

Done: `SessionLock` with `Lease`, `JudgeManager` with panics, `LogPull`,
`JudgeNamespace`, `MultiPoint` on `ThreadPool` with `Judging`, `WaitJob`,
`JobEnv`, `TimerServer`, and the proofs of every safety property the passing
runs check; `Leases` between `SessionLock` and `JudgeManager`, the absence of
deadlock in the framework, and what a crash may repeat.

What is left, in order:

1. Composition: `LogPull` inside `JudgeNamespace` (a log ends with its pod).
2. `watchJobTillReady` in the detail of `WaitJob`: the manager's loop looks at
   the counters before the type of the event, and does not count terminating
   pods there.
