--------------------------- MODULE LogPullProofs ---------------------------
(***************************************************************************)
(* What pulling a log promises for any program, clock and number of        *)
(* crashes.                                                                *)
(***************************************************************************)
EXTENDS LogPull, FiniteSetTheorems, TLAPS

USE LogPullAssumption

-----------------------------------------------------------------------------
(***************************************************************************)
(* The invariant.                                                          *)
(***************************************************************************)
\* A line that no session has to look at any more.
Past(i) == i \in ToSet(got) \/ i \in backlog

\* The log is in the order of the clock.
LogInv == \A i \in DOMAIN log :
            log[i] <= now /\ \A j \in DOMAIN log : i <= j => log[i] <= log[j]

\* Where the session is goes with what it reads, and with how it ended.
PlaceInv ==
  /\ pc \in {"down", "since", "open"} => rd = 1
  /\ pc \notin {"cleanup", "deleting", "done"} => result = "none"
  /\ result = "ok" /\ ~killed => Len(log) = Len(script)

\* Before a stream is opened, the stamp claims no more than what is past: at
\* a crash all that was printed is, and what is printed later is not earlier
\* than the stamp.
StampInv ==
  /\ pc \in {"down", "since", "open"} /\ stamp # NoTime =>
       \A i \in DOMAIN log : log[i] < stamp => Past(i)
  /\ pc = "open" => since = stamp

\* What the session has read is past, and when it has come to the end of a
\* program that was not killed, so is everything.
ReadInv ==
  /\ \A i \in DOMAIN log : i < rd => Past(i)
  /\ result = "ok" /\ ~killed => \A i \in DOMAIN log : Past(i) \/ script[i] = "tail"

\* Without a crash, what was acted on is what was read.
FirstInv ==
  crashes = 0 =>
    /\ Len(got) = rd - 1
    /\ \A i \in DOMAIN got : got[i] = i
    /\ pc \in {"down", "since", "open"} => stamp = NoTime

LInv ==
  /\ TypeOK /\ got \in Seq(Nat)
  /\ LogInv /\ PlaceInv /\ StampInv /\ ReadInv /\ FirstInv

-----------------------------------------------------------------------------
\* A sequence with one more element.
LEMMA AppendSet ==
  ASSUME NEW S, NEW s \in Seq(S), NEW e \in S
  PROVE  /\ Append(s, e) \in Seq(S)
         /\ ToSet(Append(s, e)) = ToSet(s) \union {e}
         /\ Len(Append(s, e)) = Len(s) + 1 /\ Len(s) \in Nat
         /\ \A i \in 1 .. Len(s) : Append(s, e)[i] = s[i]
         /\ Append(s, e)[Len(s) + 1] = e
<1>1. /\ Append(s, e) \in Seq(S) /\ Len(Append(s, e)) = Len(s) + 1
      /\ Len(s) \in Nat /\ DOMAIN s = 1 .. Len(s)
      /\ DOMAIN Append(s, e) = 1 .. Len(s) + 1
      /\ \A i \in 1 .. Len(s) : Append(s, e)[i] = s[i]
      /\ Append(s, e)[Len(s) + 1] = e
  OBVIOUS
<1>2. ToSet(Append(s, e)) = ToSet(s) \union {e}
  BY <1>1 DEF ToSet
<1> QED
  BY <1>1, <1>2

\* The clock without what is below a second.
LEMMA WholeSeconds ==
  ASSUME NEW t \in Nat
  PROVE  t - (t % TicksPerSecond) \in 0 .. t
<1>1. t % TicksPerSecond \in 0 .. TicksPerSecond - 1
  OBVIOUS
<1>2. t = TicksPerSecond * (t \div TicksPerSecond) + (t % TicksPerSecond)
  OBVIOUS
<1>3. t \div TicksPerSecond \in Nat
  OBVIOUS
<1>4. TicksPerSecond * (t \div TicksPerSecond) \in Nat
  BY <1>3
<1> QED
  BY <1>1, <1>2, <1>4

\* The types of what every step may write.
LEMMA Facts ==
  ASSUME LInv
  PROVE  /\ script \in Seq(Kinds) /\ Len(script) \in Nat /\ DOMAIN script = 1 .. Len(script)
         /\ \A i \in DOMAIN script : script[i] = "tail" => i = Len(script)
         /\ log \in Seq(0 .. MaxTime) /\ Len(log) \in Nat /\ DOMAIN log = 1 .. Len(log)
         /\ Len(log) <= Len(script)
         /\ got \in Seq(Nat) /\ Len(got) \in Nat /\ DOMAIN got = 1 .. Len(got)
         /\ rd \in Nat /\ now \in Nat
BY DEF LInv, TypeOK

\* Nothing is printed at first.
LEMMA InitLInv == Init => LInv
<1> SUFFICES ASSUME Init
             PROVE  LInv
  OBVIOUS
<1>1. /\ log = <<>> /\ got = <<>> /\ backlog = {} /\ DOMAIN log = {} /\ Len(log) = 0
      /\ Len(got) = 0 /\ DOMAIN got = {} /\ ToSet(got) = {}
      /\ log \in Seq(0 .. MaxTime) /\ got \in Seq(Nat)
  BY DEF Init, ToSet
<1>2. /\ pc = "down" /\ rd = 1 /\ result = "none" /\ now = 0 /\ since = NoTime
      /\ stamp = NoTime /\ killed = FALSE /\ completed = FALSE /\ crashes = 0
  BY DEF Init
<1>3. TypeOK
  <2>1. Len(script) \in Nat /\ script \in Scripts
    BY DEF Init
  <2>2. ToSet(got) \subseteq DOMAIN log /\ backlog \subseteq DOMAIN log
        /\ Len(log) <= Len(script) /\ rd \in 1 .. Len(log) + 1
    BY <1>1, <1>2, <2>1
  <2>3. now \in 0 .. MaxTime /\ crashes \in 0 .. MaxCrashes
        /\ {since, stamp} \subseteq {NoTime} \union 0 .. now
    BY <1>2
  <2>4. midway \subseteq ToSet(got) /\ wiped \in BOOLEAN
    BY DEF Init
  <2> QED
    BY <1>1, <1>2, <2>1, <2>2, <2>3, <2>4 DEF TypeOK, PCs
<1>4. LogInv /\ PlaceInv /\ ReadInv
  <2>1. \A i \in DOMAIN log : FALSE
    BY <1>1
  <2> QED
    BY <1>2, <2>1 DEF LogInv, PlaceInv, ReadInv
<1>5. StampInv /\ FirstInv
  BY <1>1 DEF Init, StampInv, FirstInv
<1> QED
  BY <1>1, <1>3, <1>4, <1>5 DEF LInv

-----------------------------------------------------------------------------
\* The clock goes on.
LEMMA TickLInv ==
  ASSUME LInv, Tick
  PROVE  LInv'
<1>1. /\ now' = now + 1 /\ now < MaxTime /\ now \in 0 .. MaxTime
      /\ UNCHANGED <<script, log, killed, pc, since, rd, stamp, completed, result,
                     crashes, got, backlog, midway, wiped>>
  BY DEF LInv, TypeOK, Tick
<1>2. TypeOK'
  BY <1>1 DEF LInv, TypeOK
<1>3. LogInv'
  <2>1. \A i \in DOMAIN log : log[i] \in Nat
    BY Facts
  <2> QED
    BY <1>1, <2>1 DEF LInv, LogInv
<1> QED
  BY <1>1, <1>2, <1>3 DEF LInv, PlaceInv, StampInv, ReadInv, FirstInv, Past

\* A line is printed, at a time that no stamp is later than.
LEMMA EmitLInv ==
  ASSUME LInv, Emit
  PROVE  LInv'
<1>1. /\ ~killed /\ Len(log) < Len(script) /\ log' = Append(log, now)
      /\ UNCHANGED <<script, now, killed, pc, since, rd, stamp, completed, result,
                     crashes, got, backlog, midway, wiped>>
  BY DEF Emit
<1>2. /\ log' \in Seq(0 .. MaxTime) /\ Len(log') = Len(log) + 1
      /\ DOMAIN log' = 1 .. Len(log) + 1
      /\ \A i \in 1 .. Len(log) : log'[i] = log[i]
      /\ log'[Len(log) + 1] = now
      /\ DOMAIN log = 1 .. Len(log) /\ Len(log) \in Nat
  <2>1. now \in 0 .. MaxTime /\ log \in Seq(0 .. MaxTime)
    BY DEF LInv, TypeOK
  <2> QED
    BY <1>1, <2>1
<1>3. TypeOK'
  <2>1. TypeOK /\ Len(script) \in Nat
    BY Facts DEF LInv
  <2> QED
    BY <1>1, <1>2, <2>1 DEF TypeOK
<1>4. LogInv'
  <2>1. LogInv /\ now \in Nat /\ \A i \in DOMAIN log : log[i] \in Nat
    BY Facts DEF LInv
  <2> QED
    BY <1>1, <1>2, <2>1 DEF LogInv
<1>5. PlaceInv' /\ FirstInv'
  BY <1>1 DEF LInv, PlaceInv, FirstInv
<1>6. StampInv'
  <2>1. stamp # NoTime => stamp \in Nat /\ stamp <= now
    BY DEF LInv, TypeOK
  <2>2. now \in Nat
    BY Facts
  <2> QED
    BY <1>1, <1>2, <2>1, <2>2 DEF LInv, StampInv, Past
<1>7. ReadInv'
  <2>1. rd <= Len(log) + 1 /\ rd \in Nat
    BY <1>2 DEF LInv, TypeOK
  <2>2. ~(result = "ok" /\ ~killed)
    BY <1>1 DEF LInv, PlaceInv
  <2> QED
    BY <1>1, <1>2, <2>1, <2>2 DEF LInv, ReadInv, Past
<1> QED
  BY <1>1, <1>3, <1>4, <1>5, <1>6, <1>7 DEF LInv

\* A session begins, finds the stamp, and opens the stream.
LEMMA OpensLInv ==
  ASSUME LInv, Begin \/ ReadSince \/ Open
  PROVE  LInv'
<1>1. /\ UNCHANGED <<script, now, log, killed, stamp, completed, crashes, got, backlog, midway, wiped>>
      /\ pc \in {"down", "since", "open"} /\ rd = 1 /\ result = "none"
  BY DEF Begin, ReadSince, Open, LInv, PlaceInv
<1>2. /\ rd' \in 1 .. Len(log) + 1
      /\ pc' \in {"since", "open", "read", "cleanup"}
      /\ since' \in {since, stamp} /\ (pc' = "open" => since' = stamp)
      /\ pc' \in {"since", "open"} => rd' = 1
      /\ pc' # "cleanup" => result' = result
      /\ result' \in {"none", "err"}
  BY <1>1, Facts DEF Begin, ReadSince, Open, Fails
<1>3. TypeOK'
  BY <1>1, <1>2 DEF LInv, TypeOK, PCs
<1>4. LogInv' /\ PlaceInv' /\ StampInv'
  BY <1>1, <1>2 DEF LInv, LogInv, PlaceInv, StampInv, Past
<1>5. CASE rd' = 1
  <2>1. ReadInv'
    BY <1>1, <1>2, <1>5, Facts DEF ReadInv
  <2>2. FirstInv'
    BY <1>1, <1>5 DEF LInv, FirstInv
  <2> QED
    BY <1>1, <1>3, <1>4, <2>1, <2>2 DEF LInv
<1>6. CASE pc = "open" /\ pc' = "read" /\ StartsAt(rd', since)
  <2>1. since = stamp
    BY <1>6 DEF LInv, StampInv
  <2>2. \A i \in DOMAIN log : i < rd' => Past(i)
    BY <1>6, <2>1 DEF StartsAt, LInv, StampInv
  <2>3. crashes = 0 => rd' = 1
    <3> SUFFICES ASSUME crashes = 0, rd' # 1
                 PROVE  FALSE
      OBVIOUS
    <3>1. 1 \in DOMAIN log /\ 1 < rd'
      BY <1>2, Facts
    <3> QED
      BY <1>6, <2>1, <3>1 DEF StartsAt, LInv, FirstInv
  <2> QED
    BY <1>1, <1>2, <1>6, <2>2, <2>3, <1>3, <1>4 DEF LInv, ReadInv, FirstInv, Past
<1>7. rd' = 1 \/ (pc = "open" /\ pc' = "read" /\ StartsAt(rd', since))
  BY <1>1 DEF Begin, ReadSince, Open
<1> QED
  BY <1>1, <1>3, <1>4, <1>5, <1>6, <1>7 DEF LInv

\* A line is read and acted on.
LEMMA ReadLInv ==
  ASSUME LInv, Read
  PROVE  LInv'
<1>1. /\ pc = "read" /\ rd <= Len(log) /\ got' = Append(got, rd) /\ rd' = rd + 1
      /\ midway' = midway \union {rd}
      /\ UNCHANGED <<script, now, log, since, stamp, crashes, backlog, wiped>>
      /\ pc' \in {"stamp", "cleanup"} /\ result' \in {result, "err"}
      /\ pc' = "stamp" => result' = result
      /\ killed' \in {killed, TRUE} /\ completed' \in {completed, TRUE}
      /\ result = "none"
  BY DEF Read, Acts, Fails, LInv, PlaceInv
<1>2. /\ got' \in Seq(Nat) /\ ToSet(got') = ToSet(got) \union {rd}
      /\ Len(got') = Len(got) + 1 /\ DOMAIN got' = 1 .. Len(got) + 1
      /\ \A i \in 1 .. Len(got) : got'[i] = got[i]
      /\ got'[Len(got) + 1] = rd
  BY <1>1, Facts, AppendSet
<1>3. TypeOK'
  <2>1. rd \in DOMAIN log /\ rd' \in 1 .. Len(log) + 1
    BY <1>1, Facts DEF LInv, TypeOK
  <2>2. pc' \in PCs /\ result' \in {"none", "ok", "err"} /\ killed' \in BOOLEAN
        /\ completed' \in BOOLEAN
    BY <1>1 DEF LInv, TypeOK, PCs
  <2> QED
    BY <1>1, <1>2, <2>1, <2>2 DEF LInv, TypeOK
<1>4. LogInv' /\ PlaceInv' /\ StampInv'
  BY <1>1 DEF LInv, LogInv, PlaceInv, StampInv
<1>5. ReadInv'
  <2>1. \A i \in DOMAIN log : i < rd' => i < rd \/ i = rd
    BY <1>1, Facts
  <2> QED
    BY <1>1, <1>2, <2>1 DEF LInv, ReadInv, Past
<1>6. FirstInv'
  BY <1>1, <1>2, Facts DEF LInv, FirstInv
<1> QED
  BY <1>2, <1>3, <1>4, <1>5, <1>6 DEF LInv

\* The session stores its stamp, comes to an end, fails or cleans up.
LEMMA EndsLInv ==
  ASSUME LInv, Stamp \/ Eof \/ ReadFails \/ Cleanup \/ Leave
  PROVE  LInv'
<1>1. /\ UNCHANGED <<script, now, log, killed, since, rd, crashes, got, backlog,
                     wiped>>
      /\ midway' \subseteq midway
      /\ pc \in {"read", "stamp", "cleanup", "deleting"}
      /\ pc' \in {"read", "cleanup", "deleting", "done"}
      /\ pc' = "read" => result' = result /\ pc = "stamp"
      /\ completed' \in {completed, TRUE}
      /\ result' \in {"ok", "err", result}
      /\ result' = "ok" => result = "ok" \/ Eof
  BY DEF Stamp, Eof, ReadFails, Cleanup, Leave, Fails
<1>2. stamp' \in {NoTime} \union 0 .. now
  <2>1. stamp \in {NoTime} \union 0 .. now /\ now \in Nat
    BY Facts DEF LInv, TypeOK
  <2>2. now - (now % TicksPerSecond) \in 0 .. now
    BY <2>1, WholeSeconds
  <2> QED
    BY <2>1, <2>2 DEF Stamp, Eof, ReadFails, Cleanup, Leave
<1>3. TypeOK'
  BY <1>1, <1>2 DEF LInv, TypeOK, PCs
<1>4. LogInv' /\ StampInv' /\ FirstInv'
  BY <1>1 DEF LInv, LogInv, StampInv, FirstInv
<1>5. Eof /\ ~killed =>
        /\ Len(log) = Len(script)
        /\ \A i \in DOMAIN log : i < rd \/ script[i] = "tail"
  <2> SUFFICES ASSUME Eof, ~killed
               PROVE  /\ Len(log) = Len(script)
                      /\ \A i \in DOMAIN log : i < rd \/ script[i] = "tail"
    OBVIOUS
  <2>1. Len(log) = Len(script)
    BY DEF Eof, Ended
  <2>2. CASE rd > Len(log)
    BY <2>1, <2>2, Facts
  <2>3. CASE rd <= Len(log) /\ script[rd] = "tail"
    <3>1. rd \in DOMAIN script
      BY <2>1, <2>3, Facts DEF LInv, TypeOK
    <3>2. rd = Len(log)
      BY <2>1, <2>3, <3>1, Facts
    <3> QED
      BY <2>1, <2>3, <3>2, Facts
  <2> QED
    BY <2>1, <2>2, <2>3 DEF Eof
<1>6. PlaceInv' /\ ReadInv'
  BY <1>1, <1>5 DEF LInv, PlaceInv, ReadInv, Past
<1> QED
  BY <1>1, <1>3, <1>4, <1>6 DEF LInv

\* At a crash everything that was printed becomes past.
LEMMA CrashLInv ==
  ASSUME LInv, Crash
  PROVE  LInv'
<1>1. /\ crashes' = crashes + 1 /\ crashes < MaxCrashes /\ pc' = "down"
      /\ since' = NoTime /\ rd' = 1 /\ result' = "none"
      /\ backlog' = backlog \union (DOMAIN log \ ToSet(got))
      /\ wiped' = (wiped \/ (pc = "deleting" /\ stamp = NoTime))
      /\ UNCHANGED <<script, now, log, killed, stamp, completed, got, midway>>
  BY DEF Crash
<1>2. TypeOK'
  BY <1>1, Facts DEF LInv, TypeOK, PCs
<1>3. \A i \in DOMAIN log : Past(i)'
  BY <1>1 DEF Past
<1>4. crashes' # 0
  BY <1>1 DEF LInv, TypeOK
<1> QED
  BY <1>1, <1>2, <1>3, <1>4 DEF LInv, LogInv, PlaceInv, StampInv, ReadInv, FirstInv

\* No step of anyone breaks the invariant.
LEMMA NextLInv == LInv /\ [Next]_vars => LInv'
<1>1. ASSUME LInv, UNCHANGED vars
      PROVE  LInv'
  BY <1>1 DEF vars, LInv, TypeOK, LogInv, PlaceInv, StampInv, ReadInv, FirstInv, Past
<1> QED
  BY <1>1, TickLInv, EmitLInv, OpensLInv, ReadLInv, EndsLInv, CrashLInv
     DEF Next, Session

\* The invariant holds throughout.
THEOREM PullInvariance == Spec => []LInv
BY InitLInv, NextLInv, PTL DEF Spec

\* Type correctness; the stamp is never later than the clock.
THEOREM TypeCorrect == Spec => []TypeOK
<1>1. LInv => TypeOK
  BY DEF LInv
<1> QED
  BY <1>1, PullInvariance, PTL

\* Without a crash no line is acted on twice, left out or out of order.
THEOREM ActedOnce == Spec => []OnceWithoutCrash
<1>1. LInv => OnceWithoutCrash
  BY DEF LInv, FirstInv, OnceWithoutCrash
<1> QED
  BY <1>1, PullInvariance, PTL

\* However often managers die, only what a crash caught is passed over.
THEOREM BacklogOnly == Spec => []OnlyBacklogSkipped
<1>1. LInv => OnlyBacklogSkipped
  BY DEF LInv, ReadInv, Past, OnlyBacklogSkipped
<1> QED
  BY <1>1, PullInvariance, PTL

-----------------------------------------------------------------------------
(***************************************************************************)
(* What may be acted on again.  The stamp covers every line acted on but   *)
(* those that are midway, unless it was deleted; and what it covered when  *)
(* a session resumed is all that the session may repeat.                   *)
(***************************************************************************)
\* A line that was printed before the second that follows time t.
Covers(t, i) == t # NoTime /\ log[i] < t + TicksPerSecond

\* Every crash leaves at most one line midway, and the line at hand is.
MidwayInv ==
  /\ IsFiniteSet(midway)
  /\ Cardinality(midway) <= crashes + 1
  /\ pc \in {"down", "since", "open", "read"} => Cardinality(midway) <= crashes
  /\ pc = "stamp" => rd - 1 \in midway

\* What the stamp covers, and what the session's own one did.
CoverInv ==
  /\ \A i \in ToSet(got) :
       \/ i \in midway \/ wiped \/ Covers(stamp, i)
       \/ pc \in {"deleting", "done"} /\ stamp = NoTime
  /\ pc \in {"read", "stamp"} =>
       \A i \in ToSet(got) : i >= rd => i \in midway \/ wiped \/ Covers(since, i)

\* Nothing was acted on at first.
LEMMA InitRepeats == Init => MidwayInv /\ CoverInv
<1> SUFFICES ASSUME Init
             PROVE  MidwayInv /\ CoverInv
  OBVIOUS
<1>1. midway = {} /\ pc = "down" /\ crashes = 0 /\ ToSet(got) = {}
  BY DEF Init, ToSet
<1>2. IsFiniteSet({}) /\ Cardinality({}) = 0
  BY FS_EmptySet
<1> QED
  BY <1>1, <1>2 DEF MidwayInv, CoverInv

\* Reading puts a line midway, storing the stamp takes it out, a crash
\* leaves it there.
LEMMA NextMidway ==
  ASSUME LInv, MidwayInv, [Next]_vars
  PROVE  MidwayInv'
<1>1. /\ crashes \in Nat /\ rd \in Nat /\ IsFiniteSet(midway)
      /\ Cardinality(midway) \in Nat
  BY FS_CardinalityType DEF LInv, TypeOK, MidwayInv
<1>2. CASE Read
  <2>1. /\ midway' = midway \union {rd} /\ rd' = rd + 1 /\ pc = "read"
        /\ pc' \in {"stamp", "cleanup"} /\ crashes' = crashes
    BY <1>2 DEF Read, Acts, Fails
  <2>2. IsFiniteSet(midway') /\ Cardinality(midway') <= Cardinality(midway) + 1
    <3>1. /\ IsFiniteSet(midway \union {rd})
          /\ Cardinality(midway \union {rd})
               \in {Cardinality(midway), Cardinality(midway) + 1}
      BY <1>1, FS_AddElement, ZenonT(30)
    <3> QED
      BY <1>1, <2>1, <3>1
  <2>3. Cardinality(midway') \in Nat
    BY <2>2, FS_CardinalityType
  <2> QED
    BY <1>1, <2>1, <2>2, <2>3 DEF MidwayInv
<1>3. CASE Stamp /\ pc' = "read"
  <2>1. /\ midway' = midway \ {rd - 1} /\ rd - 1 \in midway /\ crashes' = crashes
    BY <1>3 DEF Stamp, Fails, MidwayInv
  <2>2. IsFiniteSet(midway') /\ Cardinality(midway') = Cardinality(midway) - 1
    BY <1>1, <2>1, FS_RemoveElement
  <2>3. Cardinality(midway') \in Nat
    BY <2>2, FS_CardinalityType
  <2> QED
    BY <1>1, <1>3, <2>1, <2>2, <2>3 DEF MidwayInv
<1>4. CASE Crash
  <2>1. midway' = midway /\ crashes' = crashes + 1 /\ pc' = "down"
    BY <1>4 DEF Crash
  <2> QED
    BY <1>1, <2>1 DEF MidwayInv
<1>5. CASE /\ midway' = midway /\ crashes' = crashes /\ rd' = rd
           /\ \/ pc' = pc \/ pc' \in {"cleanup", "deleting", "done"}
              \/ {pc, pc'} \subseteq {"down", "since", "open", "read"}
  BY <1>1, <1>5 DEF MidwayInv
<1>6. CASE Open
  BY <1>1, <1>6 DEF Open, Fails, MidwayInv
<1> QED
  BY <1>2, <1>3, <1>4, <1>5, <1>6
     DEF Next, Session, Tick, Emit, Begin, ReadSince, Stamp, Eof, Cleanup, Leave,
         ReadFails, Fails, vars

\* The stamp is stored after the line was acted on, at a time that is less
\* than a second later than the stamp says.
LEMMA StampCovers ==
  ASSUME LInv, NEW i \in DOMAIN log
  PROVE  log[i] < now - (now % TicksPerSecond) + TicksPerSecond
<1>1. log[i] <= now /\ now \in Nat /\ log[i] \in Nat
  BY Facts DEF LInv, LogInv
<1>2. now % TicksPerSecond \in 0 .. TicksPerSecond - 1
  BY <1>1
<1> QED
  BY <1>1, <1>2

\* What is covered stays covered, but for a stamp that is deleted.
LEMMA NextCover ==
  ASSUME LInv, MidwayInv, CoverInv, [Next]_vars
  PROVE  CoverInv'
<1>1. /\ \A i \in ToSet(got) : i \in DOMAIN log /\ i \in Nat /\ log[i] \in Nat
      /\ rd \in Nat /\ NoTime \notin Nat
      /\ stamp \in {NoTime} \union Nat /\ since \in {NoTime} \union Nat
  BY Facts DEF LInv, TypeOK
<1>2. CASE Read
  <2>1. /\ midway' = midway \union {rd} /\ rd' = rd + 1 /\ pc = "read"
        /\ pc' \in {"stamp", "cleanup"} /\ got' = Append(got, rd)
        /\ UNCHANGED <<log, since, stamp, wiped>>
    BY <1>2 DEF Read, Acts, Fails
  <2>2. ToSet(got') = ToSet(got) \union {rd}
    BY <2>1, Facts, AppendSet
  <2> QED
    BY <1>1, <2>1, <2>2 DEF CoverInv, Covers
<1>3. CASE Stamp
  <2> DEFINE t == now - (now % TicksPerSecond)
  <2>1. /\ midway' = midway \/ midway' = midway \ {rd - 1}
        /\ pc = "stamp" /\ pc' \in {"read", "cleanup"}
        /\ stamp' = t \/ (stamp' = stamp /\ midway' = midway)
        /\ UNCHANGED <<log, since, wiped, got, rd>>
    <3>1. CASE stamp' = t /\ pc' = "read" /\ midway' = midway \ {rd - 1}
      BY <1>3, <3>1 DEF Stamp
    <3>2. CASE stamp' \in {stamp, t} /\ Fails /\ midway' = midway
      BY <1>3, <3>2 DEF Stamp, Fails
    <3> QED
      BY <1>3, <3>1, <3>2 DEF Stamp
  <2>2. ASSUME NEW i \in ToSet(got)
        PROVE  i \in midway' \/ wiped' \/ Covers(stamp, i)'
    <3>1. CASE stamp' = t
      <4>1. t \in 0 .. now
        BY WholeSeconds, Facts
      <4> QED
        BY <1>1, <2>1, <3>1, <4>1, StampCovers DEF Covers
    <3>2. CASE stamp' = stamp /\ midway' = midway
      BY <2>1, <3>2 DEF CoverInv, Covers
    <3> QED
      BY <2>1, <3>1, <3>2
  <2>3. ASSUME NEW i \in ToSet(got), i >= rd
        PROVE  i \in midway' \/ wiped' \/ Covers(since, i)'
    BY <1>1, <2>1, <2>3 DEF CoverInv, Covers
  <2> QED
    BY <2>1, <2>2, <2>3 DEF CoverInv
<1>4. CASE Emit
  <2>1. /\ log' = Append(log, now)
        /\ UNCHANGED <<pc, since, rd, stamp, got, midway, wiped>>
    BY <1>4 DEF Emit
  <2>2. \A i \in DOMAIN log : log'[i] = log[i]
    BY <2>1, Facts
  <2> QED
    BY <1>1, <2>1, <2>2 DEF CoverInv, Covers
<1>5. CASE Open
  <2>1. /\ pc = "open" /\ pc' \in {"read", "cleanup"} /\ since = stamp
        /\ UNCHANGED <<log, since, stamp, got, midway, wiped>>
    BY <1>5 DEF Open, Fails, LInv, StampInv
  <2> QED
    BY <2>1 DEF CoverInv, Covers
<1>6. CASE Begin \/ ReadSince \/ Eof \/ ReadFails \/ Tick \/ UNCHANGED vars
  <2>1. /\ UNCHANGED <<log, stamp, got, midway, wiped>>
        /\ pc' \in {"read", "stamp"} => UNCHANGED <<pc, since, rd>>
        /\ pc' \in {"deleting", "done"} <=> pc \in {"deleting", "done"}
    BY <1>6 DEF Begin, ReadSince, Eof, ReadFails, Tick, Fails, vars
  <2> QED
    BY <2>1 DEF CoverInv, Covers
<1>7. CASE Cleanup \/ Leave
  BY <1>7 DEF Cleanup, Leave, CoverInv, Covers
<1>8. CASE Crash
  BY <1>8 DEF Crash, CoverInv, Covers
<1> QED
  BY <1>2, <1>3, <1>4, <1>5, <1>6, <1>7, <1>8 DEF Next, Session

\* For any program and however often managers die, a line is acted on again
\* only for one of the three reasons that OnlyRecentRepeated names.
THEOREM RecentRepeated == Spec => OnlyRecentRepeated
<1>1. LInv /\ MidwayInv /\ CoverInv /\ [Next]_vars
        => [got' # got /\ rd \in ToSet(got) =>
              \/ since # NoTime /\ log[rd] < since + TicksPerSecond
              \/ rd \in midway /\ Cardinality(midway) <= crashes
              \/ wiped]_vars
  <2> SUFFICES ASSUME LInv, MidwayInv, CoverInv, Next, got' # got, rd \in ToSet(got)
               PROVE  \/ since # NoTime /\ log[rd] < since + TicksPerSecond
                      \/ rd \in midway /\ Cardinality(midway) <= crashes
                      \/ wiped
    OBVIOUS
  <2>1. Read
    BY DEF Next, Session, Tick, Emit, Begin, ReadSince, Open, Stamp, Eof, Cleanup,
           Leave, ReadFails, Crash
  <2>2. pc = "read" /\ rd >= rd
    BY <2>1 DEF Read, LInv, TypeOK
  <2> QED
    BY <2>2 DEF MidwayInv, CoverInv, Covers
<1> QED
  BY <1>1, InitRepeats, NextMidway, NextCover, PullInvariance, PTL
     DEF Spec, OnlyRecentRepeated

=============================================================================
