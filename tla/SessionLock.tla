---------------------------- MODULE SessionLock ----------------------------
(***************************************************************************)
(* The lock of ONE solution, in time: the Redis key                        *)
(* "judge:lock::<id>" with its expiry, and the judge sessions that fight   *)
(* for it (internal/manager/session.go, internal/manager/redis.go).        *)
(*                                                                         *)
(* A session acquires the key with SET NX EX, starts a goroutine           *)
(* (lockLoop) that pushes the expiry out on every tick of a time.Ticker,   *)
(* judges, tells lockLoop to stop over the unbuffered channel closeChan,   *)
(* and finally deletes the key in two round trips: a GET that compares the *)
(* value with the manager's ID, and a DEL that is queued outside           *)
(* MULTI/EXEC and so is not conditional on anything.                       *)
(*                                                                         *)
(* The key's value is the ID of a MANAGER, although several sessions of    *)
(* one manager may want the same key.  The model keeps in owner the        *)
(* session that created the key (a history variable); the value the        *)
(* program can see is Mgr[owner].                                          *)
(***************************************************************************)
EXTENDS Integers

CONSTANTS Sessions,      \* all sessions ever started for this solution
          Managers,      \* manager processes (an ID is never used twice)
          Mgr,           \* the manager that runs a session
          None,          \* owner of an absent key
          TTL,           \* judgeSessionLockTimeout, in units of time
          Interval,      \* judgeSessionUpdateInterval, in units of time
          MaxLag,        \* how late a due step of a live goroutine can be
          RedisErrors    \* may a command fail, or its reply be lost?

ASSUME SessionsAssumption ==
  /\ Mgr \in [Sessions -> Managers]
  /\ None \notin Sessions
  /\ RedisErrors \in BOOLEAN

(***************************************************************************)
(* What the two time constants of session.go (6 min and 2 min) must leave  *)
(* room for: a ticker started late, a tick served late and a cleanup that  *)
(* takes its time.                                                         *)
(***************************************************************************)
ASSUME TimingAssumption ==
  /\ TTL \in Nat /\ Interval \in Nat \ {0} /\ MaxLag \in Nat
  /\ Interval + 3 * MaxLag < TTL

VARIABLES
  pc,       \* where the session's own goroutine is
  loop,     \* its lockLoop goroutine
  phase,    \* time since the ticker's last period began
  pend,     \* a tick is buffered in ticker.C (capacity one)
  late,     \* how long the session's due step has been due
  owner,    \* the session whose SET NX created the key, or None
  ttl,      \* what is left of the key's expiry; 0 when there is no key
  crashed   \* manager processes that died

vars == <<pc, loop, phase, pend, late, owner, ttl, crashed>>

PCs   == {"new", "critical", "close", "cleanup", "del", "done", "dead"}
Loops == {"none", "starting", "beating", "closed", "dead"}

\* A goroutine that the scheduler owes a step: lockLoop has not created its
\* ticker yet, a tick waits to be served, or cleanup is under way.
Due(s) ==
  \/ loop[s] = "starting"
  \/ loop[s] = "beating" /\ pend[s]
  \/ pc[s] \in {"cleanup", "del"}

Init ==
  /\ pc = [s \in Sessions |-> "new"]
  /\ loop = [s \in Sessions |-> "none"]
  /\ phase = [s \in Sessions |-> 0]
  /\ pend = [s \in Sessions |-> FALSE]
  /\ late = [s \in Sessions |-> 0]
  /\ owner = None
  /\ ttl = 0
  /\ crashed = {}

-----------------------------------------------------------------------------
\* Mutant: SET without NX, the key is taken whoever has it.
TryLockForce(s) ==
  /\ pc[s] = "new"
  /\ Mgr[s] \notin crashed
  /\ owner' = s
  /\ ttl' = TTL
  /\ pc' = [pc EXCEPT ![s] = "critical"]
  /\ loop' = [loop EXCEPT ![s] = "starting"]
  /\ late' = [late EXCEPT ![s] = 0]
  /\ UNCHANGED <<phase, pend, crashed>>

\* Mutant: lockLoop is started before the answer of tryLock is looked at.
TryLockLoopFirst(s) ==
  /\ pc[s] = "new"
  /\ Mgr[s] \notin crashed
  /\ loop' = [loop EXCEPT ![s] = "starting"]
  /\ late' = [late EXCEPT ![s] = 0]
  /\ \/ /\ ttl = 0
        /\ owner' = s
        /\ ttl' = TTL
        /\ pc' = [pc EXCEPT ![s] = "critical"]
     \/ /\ ttl > 0
        /\ pc' = [pc EXCEPT ![s] = "done"]
        /\ UNCHANGED <<owner, ttl>>
  /\ UNCHANGED <<phase, pend, crashed>>

\* Mutant: lockLoop is not started.
TryLockNoLoop(s) ==
  /\ pc[s] = "new"
  /\ Mgr[s] \notin crashed
  /\ ttl = 0
  /\ owner' = s
  /\ ttl' = TTL
  /\ pc' = [pc EXCEPT ![s] = "critical"]
  /\ UNCHANGED <<loop, late, phase, pend, crashed>>

\* tryLock and the head of Run: SET NX EX.  A session that does not get the
\* key is over; one that does starts lockLoop and goes on to judge.
TryLock(s) ==
  /\ pc[s] = "new"
  /\ Mgr[s] \notin crashed
  /\ \/ /\ ttl = 0
        /\ owner' = s
        /\ ttl' = TTL
        /\ pc' = [pc EXCEPT ![s] = "critical"]
        /\ loop' = [loop EXCEPT ![s] = "starting"]
        /\ late' = [late EXCEPT ![s] = 0]
     \/ /\ ttl > 0
        /\ pc' = [pc EXCEPT ![s] = "done"]
        /\ UNCHANGED <<loop, late, owner, ttl>>
  /\ UNCHANGED <<phase, pend, crashed>>

\* AcquireLock returns an error, whether or not Redis set the key: the
\* session is over (m.run goes on to fail the solution), and nobody keeps a
\* key that was set alive.
TryLockFails(s) ==
  /\ RedisErrors
  /\ pc[s] = "new"
  /\ Mgr[s] \notin crashed
  /\ pc' = [pc EXCEPT ![s] = "done"]
  /\ \/ UNCHANGED <<owner, ttl>>
     \/ ttl = 0 /\ owner' = s /\ ttl' = TTL
  /\ UNCHANGED <<loop, phase, pend, late, crashed>>

\* The first statement of lockLoop: time.NewTicker.
StartTicker(s) ==
  /\ loop[s] = "starting"
  /\ loop' = [loop EXCEPT ![s] = "beating"]
  /\ phase' = [phase EXCEPT ![s] = 0]
  /\ pend' = [pend EXCEPT ![s] = FALSE]
  /\ late' = [late EXCEPT ![s] = 0]
  /\ UNCHANGED <<pc, owner, ttl, crashed>>

\* Mutant: the tick is consumed but the expiry is not pushed out.
RefreshNothing(s) ==
  /\ loop[s] = "beating" /\ pend[s]
  /\ pend' = [pend EXCEPT ![s] = FALSE]
  /\ late' = [late EXCEPT ![s] = 0]
  /\ UNCHANGED <<pc, loop, phase, owner, ttl, crashed>>

\* Mutant: the expiry is pushed out by TTL instead of to TTL from now.
RefreshAdds(s) ==
  /\ loop[s] = "beating" /\ pend[s]
  /\ pend' = [pend EXCEPT ![s] = FALSE]
  /\ late' = [late EXCEPT ![s] = 0]
  /\ ttl' = ttl + TTL
  /\ UNCHANGED <<pc, loop, phase, owner, crashed>>

\* lockLoop serves a tick: RefreshLock does EXPIRE on the key, WHOEVER holds
\* it.  EXPIRE on an absent key returns 0, which RefreshLock turns into
\* redis.Nil, and lockLoop returns.
Refresh(s) ==
  /\ loop[s] = "beating" /\ pend[s]
  /\ pend' = [pend EXCEPT ![s] = FALSE]
  /\ late' = [late EXCEPT ![s] = 0]
  /\ \/ /\ ttl > 0
        /\ ttl' = TTL
        /\ UNCHANGED loop
     \/ /\ ttl = 0
        /\ loop' = [loop EXCEPT ![s] = "dead"]
        /\ UNCHANGED ttl
  /\ UNCHANGED <<pc, phase, owner, crashed>>

\* RefreshLock returns an error, whether or not Redis performed the EXPIRE:
\* one failure ends lockLoop for good.
RefreshFails(s) ==
  /\ RedisErrors
  /\ loop[s] = "beating" /\ pend[s]
  /\ loop' = [loop EXCEPT ![s] = "dead"]
  /\ pend' = [pend EXCEPT ![s] = FALSE]
  /\ late' = [late EXCEPT ![s] = 0]
  /\ ttl' \in {ttl, IF ttl > 0 THEN TTL ELSE 0}
  /\ UNCHANGED <<pc, phase, owner, crashed>>

\* run() returns, with or without an error: the deferred cleanup begins.
RunReturns(s) ==
  /\ pc[s] = "critical"
  /\ pc' = [pc EXCEPT ![s] = "close"]
  /\ UNCHANGED <<loop, phase, pend, late, owner, ttl, crashed>>

\* Mutant: closeChan has a buffer, cleanup no longer waits for lockLoop.
CloseBuffered(s) ==
  /\ pc[s] = "close"
  /\ pc' = [pc EXCEPT ![s] = "cleanup"]
  /\ loop' = [loop EXCEPT ![s] = IF @ = "dead" THEN "dead" ELSE "closed"]
  /\ pend' = [pend EXCEPT ![s] = FALSE]
  /\ late' = [late EXCEPT ![s] = 0]
  /\ UNCHANGED <<phase, owner, ttl, crashed>>

\* closeChan <- struct{}{}: a rendezvous with lockLoop's select.  Without a
\* lockLoop to receive, the session stays here for ever.
Close(s) ==
  /\ pc[s] = "close"
  /\ loop[s] = "beating"
  /\ pc' = [pc EXCEPT ![s] = "cleanup"]
  /\ loop' = [loop EXCEPT ![s] = "closed"]
  /\ pend' = [pend EXCEPT ![s] = FALSE]
  /\ late' = [late EXCEPT ![s] = 0]
  /\ UNCHANGED <<phase, owner, ttl, crashed>>

\* DeleteSolutionPoll, then the GET of ReleaseLock: it goes on to delete iff
\* the key exists and holds the ID of the session's manager.
ReleaseGet(s) ==
  /\ pc[s] = "cleanup"
  /\ pc' = [pc EXCEPT ![s] =
              IF ttl > 0 /\ Mgr[owner] = Mgr[s] THEN "del" ELSE "done"]
  /\ UNCHANGED <<loop, phase, pend, late, owner, ttl, crashed>>

\* The DEL of ReleaseLock: tx.Pipelined sends it outside MULTI/EXEC, so the
\* WATCH does not guard it.
ReleaseDel(s) ==
  /\ pc[s] = "del"
  /\ pc' = [pc EXCEPT ![s] = "done"]
  /\ owner' = None
  /\ ttl' = 0
  /\ late' = [late EXCEPT ![s] = 0]
  /\ UNCHANGED <<loop, phase, pend, crashed>>

\* One of cleanup's commands fails (DeleteSolutionPoll, GET or DEL): cleanup
\* returns early and leaves the key to its expiry, unless it was the DEL and
\* Redis performed it.
ReleaseFails(s) ==
  /\ RedisErrors
  /\ pc[s] \in {"cleanup", "del"}
  /\ pc' = [pc EXCEPT ![s] = "done"]
  /\ late' = [late EXCEPT ![s] = 0]
  /\ \/ UNCHANGED <<owner, ttl>>
     \/ pc[s] = "del" /\ owner' = None /\ ttl' = 0
  /\ UNCHANGED <<loop, phase, pend, crashed>>

Fails(s) == TryLockFails(s) \/ RefreshFails(s) \/ ReleaseFails(s)

-----------------------------------------------------------------------------
\* A manager process dies with all its goroutines; its keys stay behind.
Crash(m) ==
  /\ m \notin crashed
  /\ crashed' = crashed \union {m}
  /\ pc' = [s \in Sessions |-> IF Mgr[s] = m THEN "dead" ELSE pc[s]]
  /\ loop' = [s \in Sessions |-> IF Mgr[s] = m THEN "none" ELSE loop[s]]
  /\ UNCHANGED <<phase, pend, late, owner, ttl>>

\* Mutant: the ticker never ticks.
TickNoTicker ==
  /\ \A s \in Sessions : Due(s) => late[s] < MaxLag
  /\ ttl' = IF ttl > 0 THEN ttl - 1 ELSE 0
  /\ owner' = IF ttl <= 1 THEN None ELSE owner
  /\ late' = [s \in Sessions |-> IF Due(s) THEN late[s] + 1 ELSE 0]
  /\ UNCHANGED <<pc, loop, phase, pend, crashed>>

\* A unit of time passes: Redis counts the expiry down and drops the key at
\* zero, tickers advance, a tick that finds the buffer full is dropped.
\* Time waits for a due step that is MaxLag late: that is what "a live
\* goroutine is never more than MaxLag late" means.
Tick ==
  /\ \A s \in Sessions : Due(s) => late[s] < MaxLag
  /\ ttl' = IF ttl > 0 THEN ttl - 1 ELSE 0
  /\ owner' = IF ttl <= 1 THEN None ELSE owner
  /\ phase' = [s \in Sessions |->
                 IF loop[s] # "beating" THEN phase[s]
                 ELSE IF phase[s] + 1 = Interval THEN 0 ELSE phase[s] + 1]
  /\ pend' = [s \in Sessions |->
                /\ loop[s] = "beating"
                /\ pend[s] \/ phase[s] + 1 = Interval]
  /\ late' = [s \in Sessions |-> IF Due(s) THEN late[s] + 1 ELSE 0]
  /\ UNCHANGED <<pc, loop, crashed>>

Step(s) ==
  \/ TryLock(s)
  \/ StartTicker(s)
  \/ Refresh(s)
  \/ RunReturns(s)
  \/ Close(s)
  \/ ReleaseGet(s)
  \/ ReleaseDel(s)

Next ==
  \/ \E s \in Sessions : Step(s) \/ Fails(s)
  \/ \E m \in Managers : Crash(m)
  \/ Tick

Spec == Init /\ [][Next]_vars

\* Time passes, Redis answers, and the Go scheduler runs every goroutine that
\* can run: the session's own one and its lockLoop are scheduled apart from
\* each other, so each has fairness of its own.  Close stays enabled while
\* lockLoop lives, because its select is back at the channel after every
\* refresh.  RunReturns is fair because the judge run is expected to return.
Fairness ==
  /\ WF_vars(Tick)
  /\ \A s \in Sessions :
       /\ WF_vars(TryLock(s))
       /\ WF_vars(StartTicker(s))
       /\ WF_vars(Refresh(s))
       /\ WF_vars(RunReturns(s))
       /\ WF_vars(Close(s))
       /\ WF_vars(ReleaseGet(s) \/ ReleaseDel(s))

FairSpec == Spec /\ Fairness

-----------------------------------------------------------------------------
\* Every variable has its type.
TypeOK ==
  /\ pc \in [Sessions -> PCs]
  /\ loop \in [Sessions -> Loops]
  /\ phase \in [Sessions -> 0 .. Interval - 1]
  /\ pend \in [Sessions -> BOOLEAN]
  /\ late \in [Sessions -> 0 .. MaxLag]
  /\ owner \in Sessions \union {None}
  /\ ttl \in 0 .. TTL
  /\ crashed \in SUBSET Managers

\* A session that has the solution's namespace to itself, or so it believes.
Judging(s) == pc[s] \in {"critical", "close", "cleanup", "del"}

\* A session that does not defend the key any more.
Gone(s) == pc[s] \in {"done", "dead"} \/ loop[s] = "dead"

\* The key belongs to every healthy session that believes it does, from the
\* SET NX to the DEL, whatever the ticker, the scheduler and the other
\* sessions of its own manager do (Run, lockLoop and cleanup of session.go).
HealthyHoldsKey == \A s \in Sessions : Judging(s) /\ ~Gone(s) => owner = s

\* Two sessions judge the same solution at a time only if one of them lost
\* its lockLoop: the purpose of the lock (Run of session.go).
MutualExclusion ==
  \A s, t \in Sessions :
    Judging(s) /\ Judging(t) /\ s # t => Gone(s) \/ Gone(t)

\* How far the expiry of a healthy session's key can have come down: the
\* time lockLoop took to start its ticker, the period of the ticker, the
\* wait of a tick for lockLoop, and the time cleanup takes.
HealthyKeyFresh ==
  \A s \in Sessions :
    /\ loop[s] = "starting" => ttl >= TTL - late[s]
    /\ loop[s] = "beating" /\ ~pend[s] => ttl >= TTL - MaxLag - phase[s]
    /\ loop[s] = "beating" /\ pend[s] =>
         ttl >= TTL - MaxLag - Interval - late[s]
    /\ pc[s] \in {"cleanup", "del"} =>
         ttl >= TTL - 2 * MaxLag - Interval - late[s]

\* Which lockLoop goes with which point of the session, and which key with
\* which owner.
Shape ==
  /\ \A s \in Sessions :
       /\ pc[s] \in {"new", "dead"} => loop[s] = "none"
       /\ pc[s] \in {"critical", "close"} =>
            loop[s] \in {"starting", "beating", "dead"}
       /\ pc[s] \in {"cleanup", "del"} => loop[s] = "closed"
       /\ pc[s] = "done" => loop[s] \in {"none", "closed"}
       /\ pc[s] = "dead" <=> Mgr[s] \in crashed
  /\ owner = None <=> ttl = 0
  /\ owner \in Sessions => pc[owner] # "new"

\* The inductive invariant: who holds the key is safe only together with
\* how long the key still lives.
IInv == TypeOK /\ Shape /\ HealthyHoldsKey /\ HealthyKeyFresh

\* A key that still has time to live is deleted by the session that created
\* it and by no other, although ReleaseLock compares manager IDs and its
\* DEL is unconditional (redis.go, ReleaseLock).
OnlyOwnerDeletes ==
  [][owner # None /\ ttl > 1 /\ owner' # owner
       => pc[owner] = "del" /\ pc'[owner] = "done"]_vars

-----------------------------------------------------------------------------
\* The lock implements an exclusive lease.
TheLease == INSTANCE Lease WITH
  Clients <- Sessions, NoOne <- None,
  holder <- owner, gone <- {s \in Sessions : Gone(s)}

\* Every behaviour of the lock is one of an exclusive lease: nobody takes a
\* key in use, deletes another's key or loses a key it keeps alive.
LeaseSpec == TheLease!Spec

\* Of the table of leases that the managers rely on (JudgeManager), it is one
\* entry.
TheLeases == INSTANCE Leases WITH
  Items <- {"solution"}, Clients <- Sessions,
  taken <- IF owner = None THEN {} ELSE {"solution"},
  keepers <- [i \in {"solution"} |-> {s \in Sessions : s = owner /\ ~Gone(s)}]

LeasesSpec == TheLeases!Spec

\* A key left behind by a dead manager goes away, because nobody else's
\* lockLoop keeps pushing its expiry out (RefreshLock does not look at the
\* value of the key it refreshes).
OrphanedKeyExpires ==
  \A s \in Sessions : owner = s /\ pc[s] = "dead" ~> owner # s

\* A session whose run has returned gets through cleanup, unless its
\* lockLoop died or its manager did: cleanup's send on closeChan has no
\* other partner.
CleanupEnds ==
  \A s \in Sessions :
    pc[s] = "close" ~> pc[s] \in {"done", "dead"} \/ loop[s] = "dead"

=============================================================================
