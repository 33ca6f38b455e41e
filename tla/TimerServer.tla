---------------------------- MODULE TimerServer ----------------------------
(***************************************************************************)
(* The timer server of the judging framework (pkg/framework/timer.go):     *)
(* programs under test report times under a name, the judger asks for the  *)
(* first and the last.  net/http serves every request in a goroutine of    *)
(* its own, and nothing guards the two maps.                               *)
(***************************************************************************)
EXTENDS Integers

CONSTANTS Requests,      \* the requests ever served
          Names,         \* names that times are reported under
          MaxTime,       \* bound on the clock
          MaxTimeDelta,  \* maxTimeDelta
          NoTime         \* no entry in a map; an argument missing or unparsable

VARIABLES
  now,      \* the clock
  min, max, \* the maps
  pc,       \* where each request is
  name, t,  \* what it reports
  status,   \* the status of its response: the first one written
  fatal     \* the runtime has found concurrent accesses to a map and exited

request == <<name, t, status>>
vars    == <<now, min, max, pc, request, fatal>>

\* ServeHTTP's parsing and check, and the four accesses of saveTime.
PCs == {"idle", "check", "readmin", "writemin", "readmax", "writemax", "ok", "done"}

Init ==
  /\ now = 0
  /\ min = [n \in Names |-> NoTime] /\ max = [n \in Names |-> NoTime]
  /\ pc = [r \in Requests |-> "idle"]
  /\ name \in [Requests -> Names]
  /\ t = [r \in Requests |-> NoTime]
  /\ status = [r \in Requests |-> 0]
  /\ fatal = FALSE

Goto(r, label) == pc' = [pc EXCEPT ![r] = label]

Tick ==
  /\ ~fatal /\ now < MaxTime
  /\ now' = now + 1
  /\ UNCHANGED <<min, max, pc, request, fatal>>

\* A request comes in, with a time or without one.
Arrive(r) ==
  /\ pc[r] = "idle"
  /\ \/ /\ \E time \in 0 .. MaxTime : t' = [t EXCEPT ![r] = time]
        /\ Goto(r, "check") /\ UNCHANGED status
     \/ /\ Goto(r, "done") /\ status' = [status EXCEPT ![r] = 400]
        /\ UNCHANGED t
  /\ UNCHANGED <<now, min, max, name, fatal>>

\* A time that is too far from the clock is answered with an error, and then
\* saved like any other: there is no return after http.Error.
Check(r) ==
  /\ pc[r] = "check"
  /\ status' = [status EXCEPT ![r] =
                  IF now - t[r] > MaxTimeDelta \/ t[r] - now > MaxTimeDelta
                    THEN 400 ELSE @]
  /\ Goto(r, "readmin")
  /\ UNCHANGED <<now, min, max, name, t, fatal>>

\* saveTime: each map is read, compared and written.
ReadMin(r) ==
  /\ pc[r] = "readmin"
  /\ LET old == min[name[r]]
     IN IF old = NoTime THEN Goto(r, "writemin")
        ELSE Goto(r, IF t[r] < old THEN "writemin" ELSE "readmax")
  /\ UNCHANGED <<now, min, max, request, fatal>>

WriteMin(r) ==
  /\ pc[r] = "writemin"
  /\ min' = [min EXCEPT ![name[r]] = t[r]]
  /\ Goto(r, "readmax")
  /\ UNCHANGED <<now, max, request, fatal>>

ReadMax(r) ==
  /\ pc[r] = "readmax"
  /\ LET old == max[name[r]]
     IN IF old = NoTime THEN Goto(r, "writemax")
        ELSE Goto(r, IF t[r] > old THEN "writemax" ELSE "ok")
  /\ UNCHANGED <<now, min, max, request, fatal>>

WriteMax(r) ==
  /\ pc[r] = "writemax"
  /\ max' = [max EXCEPT ![name[r]] = t[r]]
  /\ Goto(r, "ok")
  /\ UNCHANGED <<now, min, request, fatal>>

\* WriteHeader(200): a second status is ignored.
Ok(r) ==
  /\ pc[r] = "ok"
  /\ status' = [status EXCEPT ![r] = IF @ = 0 THEN 200 ELSE @]
  /\ Goto(r, "done")
  /\ UNCHANGED <<now, min, max, name, t, fatal>>

\* Two requests are in the same map, one to write it: the Go runtime may find
\* out and end the process.
Conflict(q, r) ==
  /\ q # r
  /\ \/ pc[q] = "writemin" /\ pc[r] \in {"readmin", "writemin"}
     \/ pc[q] = "writemax" /\ pc[r] \in {"readmax", "writemax"}

ConcurrentMapAccess ==
  /\ ~fatal
  /\ \E q, r \in Requests : Conflict(q, r)
  /\ fatal' = TRUE
  /\ UNCHANGED <<now, min, max, pc, request>>

SaveTime(r) == ReadMin(r) \/ WriteMin(r) \/ ReadMax(r) \/ WriteMax(r)

Serve(r) == ~fatal /\ (Arrive(r) \/ Check(r) \/ SaveTime(r) \/ Ok(r))

Next == Tick \/ ConcurrentMapAccess \/ \E r \in Requests : Serve(r)

Spec == Init /\ [][Next]_vars
-----------------------------------------------------------------------------
\* The error that ServeHTTP answers with, "time is too far in the past or
\* future", says that the time is refused: the first and the last time of a
\* name are times of requests that were not answered with an error.
RefusedTimesDoNotCount ==
  \A n \in Names :
    min[n] # NoTime =>
      \E r \in Requests : name[r] = n /\ t[r] = min[n] /\ status[r] # 400

=============================================================================
