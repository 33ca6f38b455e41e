------------------------------ MODULE LogPull ------------------------------
(***************************************************************************)
(* How a judge session follows the log of its job, line by line, and       *)
(* resumes after its manager died: watchJob and pullJobLogs of             *)
(* internal/manager/running.go, processMessage of protocol.go.             *)
(*                                                                         *)
(* The program of the job prints lines; Kubernetes keeps them with the     *)
(* time they were printed.  The session acts on each line and then stores  *)
(* the time of day, in whole seconds, in Redis.  A session that takes over *)
(* asks Kubernetes for the lines printed since that time.                  *)
(*                                                                         *)
(* Lines are numbered; what a line does is its kind in script.             *)
(***************************************************************************)
EXTENDS Integers, Sequences, SequencesExt

CONSTANTS Scripts,         \* what the program may print: sequences of kinds
          TicksPerSecond,  \* resolution of the clock, the stamp's is 1 s
          MaxTime,         \* bound on the clock
          Faults,          \* which of "redis", "aoi", "kube" may fail
          MaxCrashes,      \* bound on the crashes of managers
          NoTime           \* no stamp stored

\* "plain" is a message that goes to the AOI server or to nobody (patch,
\* detail, greet, noop, log), "bad" one that ends the run with an error
\* (error, unknown, unparsable), "tail" a last line without a newline.
Kinds == {"plain", "complete", "quit", "bad", "tail"}

ASSUME LogPullAssumption ==
  /\ Scripts \subseteq Seq(Kinds)
  /\ \A s \in Scripts : \A i \in DOMAIN s : s[i] = "tail" => i = Len(s)
  /\ TicksPerSecond \in Nat \ {0} /\ MaxTime \in Nat /\ MaxCrashes \in Nat
  /\ NoTime \notin Nat
  /\ Faults \subseteq {"redis", "aoi", "kube"}

VARIABLES
  script,     \* what this program prints
  now,        \* the clock
  log,        \* when each line printed so far was printed
  killed,     \* the namespace was deleted on the program's own request
  pc,         \* where the session is
  since,      \* the stamp the session started from
  rd,         \* the next line of the stream
  stamp,      \* the stored stamp
  completed,  \* the task was completed
  result,     \* how pullJobLogs returned
  crashes,    \* crashes so far
  got,        \* history: the lines acted on, in order
  backlog,    \* history: printed but not acted on at a crash
  midway,     \* history: acted on, and no stamp stored since
  wiped       \* history: a crash came after the stamp was deleted

vars == <<script, now, log, killed, pc, since, rd, stamp, completed, result,
          crashes, got, backlog, midway, wiped>>

PCs == {"down", "since", "open", "read", "stamp", "cleanup", "deleting", "done"}

Faulty(kind) == kind \in Faults

Init ==
  /\ script \in Scripts
  /\ now = 0
  /\ log = <<>>
  /\ killed = FALSE
  /\ pc = "down"
  /\ since = NoTime
  /\ rd = 1
  /\ stamp = NoTime
  /\ completed = FALSE
  /\ result = "none"
  /\ crashes = 0
  /\ got = <<>>
  /\ backlog = {}
  /\ midway = {}
  /\ wiped = FALSE

-----------------------------------------------------------------------------
(***************************************************************************)
(* The program.                                                            *)
(***************************************************************************)
Tick ==
  /\ now < MaxTime
  /\ now' = now + 1
  /\ UNCHANGED <<script, log, killed, pc, since, rd, stamp, completed, result,
                 crashes, got, backlog, midway, wiped>>

\* The program prints its next line.
Emit ==
  /\ ~killed
  /\ Len(log) < Len(script)
  /\ log' = Append(log, now)
  /\ UNCHANGED <<script, now, killed, pc, since, rd, stamp, completed, result,
                 crashes, got, backlog, midway, wiped>>

\* The program has printed everything, or was killed.
Ended == killed \/ Len(log) = Len(script)

-----------------------------------------------------------------------------
(***************************************************************************)
(* The session.                                                            *)
(***************************************************************************)
Fails == pc' = "cleanup" /\ result' = "err"

\* A session starts; the job runs, or has run.
Begin ==
  /\ pc = "down"
  /\ pc' = "since"
  /\ UNCHANGED <<script, now, log, killed, since, rd, stamp, completed, result,
                 crashes, got, backlog, midway, wiped>>

\* Mutant: a stamp is taken for none.
ReadSinceNothing ==
  /\ pc = "since"
  /\ since' = NoTime
  /\ pc' = "open"
  /\ UNCHANGED <<script, now, log, killed, rd, stamp, completed, result, crashes,
                 got, backlog, midway, wiped>>

\* getProcessedTimestamp.
ReadSince ==
  /\ pc = "since"
  /\ \/ /\ since' = stamp
        /\ pc' = "open"
        /\ UNCHANGED result
     \/ Faulty("redis") /\ Fails /\ UNCHANGED since
  /\ UNCHANGED <<script, now, log, killed, rd, stamp, completed, crashes, got,
                 backlog, midway, wiped>>

\* Mutant: lines of the very second of the stamp are left out.
StartsAfter(n, t) == \A i \in DOMAIN log : i < n <=> t # NoTime /\ log[i] <= t

\* A stream of the lines since t begins at the n-th, the first one that was
\* not printed before t; without a time, at the first line.
StartsAt(n, t) == \A i \in DOMAIN log : i < n <=> t # NoTime /\ log[i] < t

\* getPodLogsOfJob.
Open ==
  /\ pc = "open"
  /\ \/ /\ \E n \in 1 .. Len(log) + 1 : StartsAt(n, since) /\ rd' = n
        /\ pc' = "read"
        /\ UNCHANGED result
     \/ Faulty("kube") /\ Fails /\ UNCHANGED rd
  /\ UNCHANGED <<script, now, log, killed, since, stamp, completed, crashes,
                 got, backlog, midway, wiped>>

\* What processMessage does with a line of each kind.  Only the AOI server's
\* errors are looked at: that of deleteNamespace is not.
Acts(kind) ==
  \/ /\ kind = "plain"
     /\ pc' = "stamp" /\ UNCHANGED <<completed, killed, result>>
  \/ /\ kind = "complete"
     /\ completed' = TRUE
     /\ pc' = "stamp" /\ UNCHANGED <<killed, result>>
  \/ /\ kind = "quit"
     /\ killed' = TRUE \/ (Faulty("kube") /\ UNCHANGED killed)
     /\ pc' = "stamp" /\ UNCHANGED <<completed, result>>
  \/ /\ \/ kind = "bad"
        \/ kind \in {"plain", "complete"} /\ Faulty("aoi")
     /\ Fails /\ UNCHANGED <<completed, killed>>

\* Mutant: a line the AOI server did not take is tried again.
ReadRetries ==
  /\ pc = "read"
  /\ rd <= Len(log) /\ script[rd] # "tail"
  /\ got' = Append(got, rd)
  /\ midway' = midway \union {rd}
  /\ \/ rd' = rd + 1 /\ Acts(script[rd])
     \/ /\ Faulty("aoi") /\ Len(got) < Len(script)
        /\ UNCHANGED <<rd, completed, killed, pc, result>>
  /\ UNCHANGED <<script, now, log, since, stamp, crashes, backlog, wiped>>

\* The next whole line is read and acted on.
Read ==
  /\ pc = "read"
  /\ rd <= Len(log) /\ script[rd] # "tail"
  /\ got' = Append(got, rd)
  /\ midway' = midway \union {rd}
  /\ rd' = rd + 1
  /\ Acts(script[rd])
  /\ UNCHANGED <<script, now, log, since, stamp, crashes, backlog, wiped>>

\* Mutant: the time is rounded up.
StampRoundsUp ==
  /\ pc = "stamp"
  /\ stamp' = ((now + TicksPerSecond - 1) \div TicksPerSecond) * TicksPerSecond
  /\ midway' = midway \ {rd - 1}
  /\ pc' = "read"
  /\ UNCHANGED <<script, now, log, killed, since, rd, completed, result,
                 crashes, got, backlog, wiped>>

\* updateProcessedTimestamp(time.Now()): RFC 3339 drops what is below a
\* second.
Stamp ==
  /\ pc = "stamp"
  /\ LET t == now - (now % TicksPerSecond)
     IN \/ stamp' = t /\ pc' = "read" /\ midway' = midway \ {rd - 1}
           /\ UNCHANGED result
        \/ Faulty("redis") /\ stamp' \in {stamp, t} /\ Fails /\ UNCHANGED midway
  /\ UNCHANGED <<script, now, log, killed, since, rd, completed, crashes, got,
                 backlog, wiped>>

\* Mutant: the end of the log is waited for after a whole line only.
EofWholeLine ==
  /\ pc = "read"
  /\ Ended /\ (killed \/ rd > Len(log))
  /\ completed' \in {TRUE} \union (IF Faulty("aoi") THEN {completed} ELSE {})
  /\ pc' = "cleanup" /\ result' = "ok"
  /\ UNCHANGED <<script, now, log, killed, since, rd, stamp, crashes, got,
                 backlog, midway, wiped>>

\* The stream ends: everything was read, a line without a newline is
\* dropped, or the pod was killed.  The last Complete follows, whose error
\* nobody looks at.
Eof ==
  /\ pc = "read"
  /\ Ended
  /\ \/ killed
     \/ rd > Len(log)
     \/ rd <= Len(log) /\ script[rd] = "tail"
  /\ completed' \in {TRUE} \union (IF Faulty("aoi") THEN {completed} ELSE {})
  /\ pc' = "cleanup" /\ result' = "ok"
  /\ UNCHANGED <<script, now, log, killed, since, rd, stamp, crashes, got,
                 backlog, midway, wiped>>

\* The stream breaks.
ReadFails ==
  /\ Faulty("kube")
  /\ pc = "read"
  /\ Fails
  /\ UNCHANGED <<script, now, log, killed, since, rd, stamp, completed, crashes,
                 got, backlog, midway, wiped>>

\* runningCleanup deletes the stamp first; its error is only logged.
Cleanup ==
  /\ pc = "cleanup"
  /\ stamp' \in {NoTime} \union (IF Faulty("redis") THEN {stamp} ELSE {})
  /\ pc' = "deleting"
  /\ UNCHANGED <<script, now, log, killed, since, rd, completed, result,
                 crashes, got, backlog, midway, wiped>>

\* The namespace is deleted and the log with it, or, if that fails, the
\* solution is removed from the store all the same (cleanup): no session
\* comes back to this log.
Leave ==
  /\ pc = "deleting"
  /\ pc' = "done"
  /\ UNCHANGED <<script, now, log, killed, since, rd, stamp, completed, result,
                 crashes, got, backlog, midway, wiped>>

\* The manager dies, and another session will begin.  A cleanup that can
\* delete neither the namespace nor the solution comes to the same.
Crash ==
  /\ crashes < MaxCrashes
  /\ pc \notin {"down", "done"}
  /\ crashes' = crashes + 1
  /\ pc' = "down"
  /\ since' = NoTime
  /\ rd' = 1
  /\ result' = "none"
  /\ backlog' = backlog \union (DOMAIN log \ ToSet(got))
  /\ wiped' = (wiped \/ (pc = "deleting" /\ stamp = NoTime))
  /\ UNCHANGED <<script, now, log, killed, stamp, completed, got, midway>>

Session ==
  Begin \/ ReadSince \/ Open \/ Read \/ Stamp \/ Eof \/ Cleanup \/ Leave

Next == Tick \/ Emit \/ Session \/ ReadFails \/ Crash

Spec == Init /\ [][Next]_vars

\* The program prints all its lines, and the session goes on while it can,
\* without a fault to help it.
Fairness == WF_vars(Emit) /\ WF_vars(Session)

FairSpec == Spec /\ Fairness

-----------------------------------------------------------------------------
\* Every variable has its type.
TypeOK ==
  /\ script \in Scripts
  /\ now \in 0 .. MaxTime
  /\ log \in Seq(0 .. MaxTime) /\ Len(log) <= Len(script)
  /\ killed \in BOOLEAN /\ completed \in BOOLEAN
  /\ pc \in PCs
  /\ {since, stamp} \subseteq {NoTime} \union (0 .. now)
  /\ rd \in 1 .. Len(log) + 1
  /\ result \in {"none", "ok", "err"}
  /\ crashes \in 0 .. MaxCrashes
  /\ ToSet(got) \subseteq DOMAIN log
  /\ backlog \subseteq DOMAIN log
  /\ midway \subseteq ToSet(got)
  /\ wiped \in BOOLEAN

\* Without a crash every line is acted on once, in the order of the log
\* (the loop of pullJobLogs).
OnceWithoutCrash ==
  crashes = 0 => \A i \in DOMAIN got : got[i] = i

\* A line is passed over only if a crash caught it printed and not acted
\* on: the stamp is that of the clock, not that of the line, so it claims
\* too much for a session that lags behind, but never a line that is printed
\* after the crash, because RFC 3339 rounds down.
OnlyBacklogSkipped ==
  \A i \in DOMAIN log :
    /\ pc \in {"read", "stamp", "cleanup", "deleting", "done"}
    /\ i < rd \/ (result = "ok" /\ ~killed)
    /\ i \notin ToSet(got)
    => i \in backlog \/ script[i] = "tail"

\* A line is acted on again only if it was printed in the very second of the
\* stamp that its session resumes from; or if a crash came between acting on
\* it and storing the stamp, which is one line per crash; or if a session died
\* after it had deleted its stamp and before the log was gone, which brings
\* everything back (watchJob, pullJobLogs, runningCleanup).
OnlyRecentRepeated ==
  [][got' # got /\ rd \in ToSet(got) =>
       \/ since # NoTime /\ log[rd] < since + TicksPerSecond
       \/ rd \in midway /\ Cardinality(midway) <= crashes
       \/ wiped]_vars

\* If the program comes to an end, so does the pull, a last line without a
\* newline included.
PullEnds == <>(pc = "done")

=============================================================================
