--------------------------- MODULE WaitJobProofs ---------------------------
(***************************************************************************)
(* What waiting for a job and its pods promises for any number of pods,    *)
(* tries and events.                                                       *)
(***************************************************************************)
EXTENDS WaitJob, FiniteSetTheorems, TLAPS

USE WaitAssumption

-----------------------------------------------------------------------------
(***************************************************************************)
(* The invariant, in four parts.                                           *)
(***************************************************************************)
\* How often a pod has been looked at goes with where the judger is.
TriesInv ==
  /\ pc \in PCs \ {"verdict", "returned"} => tries < LogTries
  /\ pc = "verdict" => tries < StatusTries
  /\ cur = NoPod => tries = 0

\* The status, and every event on its way, is at most as new as the pods are:
\* what they have counted is counted, and listed or removed.
CountInv ==
  /\ count <= UpToDate
  /\ \A i \in 1 .. Len(events) : events[i].count <= UpToDate
  /\ pc = "list" => UpToDate >= Required
  /\ PodsAreThere

\* An event that ends the select's loop.
Wakes(e) ==
  \/ e.type = "Deleted"
  \/ e.type \in {"Added", "Modified"} /\ e.count >= Required

\* Whoever waits at an open watch has such an event coming, or a job that
\* has not got its pods yet and will notify the watch when it has.
WakeInv ==
  pc = "select" /\ watch = "open" =>
    \/ exists /\ count < Required
    \/ \E i \in 1 .. Len(events) : Wakes(events[i])

\* The pods that are no longer looked at have succeeded.
VerdictInv ==
  /\ \A p \in Pods : pod[p] = "succeeded" => p \in won
  /\ pc # "returned" => result = "none"
  /\ pc \in {"logs", "verdict"} =>
       pods \ todo \subseteq won /\ (cur = NoPod => todo = {})
  /\ SuccessIsReal

WInv == TypeOK /\ TriesInv /\ CountInv /\ WakeInv /\ VerdictInv

-----------------------------------------------------------------------------
\* The sets of pods are finite.
LEMMA Sizes ==
  /\ IsFiniteSet(Counted) /\ IsFiniteSet(Listed) /\ IsFiniteSet(Removed)
  /\ Cardinality(Counted) \in Nat /\ Cardinality(Listed) \in Nat
  /\ Cardinality(Removed) \in Nat
<1>1. Counted \in SUBSET Pods /\ Listed \in SUBSET Pods /\ Removed \in SUBSET Pods
  BY DEF Counted, Listed, Removed
<1> QED
  BY <1>1, FS_Subset, FS_CardinalityType

\* Whatever the status has counted is listed or removed.
LEMMA CountedAreThere == UpToDate <= Cardinality(Listed) + Cardinality(Removed)
<1>1. Counted \in SUBSET (Listed \union Removed)
  BY DEF Counted, Listed, Removed
<1>2. /\ IsFiniteSet(Listed \union Removed)
      /\ Cardinality(Listed \union Removed)
           = Cardinality(Listed) + Cardinality(Removed) - Cardinality(Listed \intersect Removed)
  BY Sizes, FS_Union
<1>3. Cardinality(Counted) <= Cardinality(Listed \union Removed)
  BY <1>1, <1>2, FS_Subset
<1>4. Listed \intersect Removed = {}
  BY DEF Listed, Removed
<1>5. Cardinality(Listed \intersect Removed) = 0
  BY <1>4, FS_EmptySet
<1> QED
  BY <1>2, <1>3, <1>5, Sizes DEF UpToDate

\* Pods that are counted stay counted, pods that are removed stay removed.
LEMMA PodsGrow ==
  ASSUME TypeOK, PodMoves
  PROVE  UpToDate <= UpToDate' /\ Cardinality(Removed) <= Cardinality(Removed')
         /\ UpToDate' \in Nat /\ Cardinality(Removed') \in Nat
<1>1. PICK p \in Pods, phase \in Phases :
        /\ \/ pod[p] = "absent" /\ exists /\ phase = "creating"
           \/ pod[p] = "creating" /\ phase \in {"running", "failed", "removed"}
           \/ pod[p] = "running" /\ phase \in {"succeeded", "failed", "terminating"}
           \/ pod[p] \in {"terminating", "succeeded", "failed"} /\ phase = "removed"
        /\ pod' = [pod EXCEPT ![p] = phase]
  BY DEF PodMoves
<1>2. Counted \in SUBSET Counted' /\ Removed \in SUBSET Removed'
  BY <1>1 DEF TypeOK, Counted, Removed
<1>3. IsFiniteSet(Counted') /\ IsFiniteSet(Removed')
  <2>1. Counted' \in SUBSET Pods /\ Removed' \in SUBSET Pods
    BY DEF Counted, Removed
  <2> QED
    BY <2>1, FS_Subset
<1> QED
  BY <1>2, <1>3, FS_Subset, FS_CardinalityType DEF UpToDate

\* What a notification adds.
LEMMA Notified ==
  ASSUME events \in Seq(Events), NEW type \in {"Added", "Modified", "Deleted", "other"},
         NEW n \in Nat, Notify(type, n)
  PROVE  /\ events' \in Seq(Events)
         /\ watch # "open" => events' = events
         /\ watch = "open" =>
              /\ Len(events') = Len(events) + 1 /\ Len(events) \in Nat
              /\ \A i \in 1 .. Len(events) : events'[i] = events[i]
              /\ events'[Len(events) + 1] = [type |-> type, count |-> n]
<1>1. [type |-> type, count |-> n] \in Events
  BY DEF Events
<1>2. CASE watch = "open"
  BY <1>1, <1>2 DEF Notify
<1>3. CASE watch # "open"
  BY <1>3 DEF Notify
<1> QED
  BY <1>2, <1>3

\* What is left when an event is received.
LEMMA Received ==
  ASSUME events \in Seq(Events), events # <<>>, events' = Tail(events)
  PROVE  /\ events' \in Seq(Events) /\ Head(events) = events[1]
         /\ Head(events) \in Events
         /\ Len(events) \in Nat \ {0} /\ Len(events') = Len(events) - 1
         /\ \A i \in 1 .. Len(events') : events'[i] = events[i + 1]
  OBVIOUS

-----------------------------------------------------------------------------
\* Nothing is known at first.
LEMMA InitWInv == Init => WInv
<1> SUFFICES ASSUME Init
             PROVE  WInv
  OBVIOUS
<1>1. Counted = {} /\ events = <<>> /\ events \in Seq(Events)
  BY DEF Init, Counted
<1>2. UpToDate = 0
  BY <1>1, FS_EmptySet DEF UpToDate
<1>3. TypeOK
  <2>1. pod \in [Pods -> Phases] /\ won \subseteq Pods
    BY DEF Init, Phases
  <2>2. count \in Nat /\ other \in 0 .. MaxOther /\ tries = 0 /\ tries < LogTries
    BY DEF Init
  <2>3. exists \in BOOLEAN /\ watch \in {"none", "open", "closed"} /\ pc \in PCs
        /\ result \in Results
    BY DEF Init, PCs, Results
  <2>4. pods \subseteq Pods /\ todo \subseteq pods /\ cur \in todo \union {NoPod}
    BY DEF Init
  <2> QED
    BY <1>1, <2>1, <2>2, <2>3, <2>4 DEF TypeOK
<1>4. TriesInv
  BY DEF Init, TriesInv, PCs
<1>5. CountInv
  BY <1>1, <1>2 DEF Init, CountInv, PodsAreThere
<1>6. WakeInv /\ VerdictInv
  BY DEF Init, WakeInv, VerdictInv, SuccessIsReal
<1> QED
  BY <1>3, <1>4, <1>5, <1>6 DEF WInv

-----------------------------------------------------------------------------
\* Kubernetes moves the pods, and nothing the judger knows becomes too new.
LEMMA MovesWInv ==
  ASSUME WInv, PodMoves
  PROVE  WInv'
<1>1. /\ UNCHANGED <<exists, count, watch, events, other, pc, pods, todo, cur, tries, result>>
      /\ UpToDate <= UpToDate' /\ UpToDate' \in Nat /\ UpToDate \in Nat
      /\ Cardinality(Removed) <= Cardinality(Removed')
      /\ Cardinality(Removed) \in Nat /\ Cardinality(Removed') \in Nat
  BY PodsGrow, Sizes DEF WInv, PodMoves, feed, work, UpToDate
<1>2. PICK p \in Pods, phase \in Phases :
        /\ \/ pod[p] = "absent" /\ exists /\ phase = "creating"
           \/ pod[p] = "creating" /\ phase \in {"running", "failed", "removed"}
           \/ pod[p] = "running" /\ phase \in {"succeeded", "failed", "terminating"}
           \/ pod[p] \in {"terminating", "succeeded", "failed"} /\ phase = "removed"
        /\ pod' = [pod EXCEPT ![p] = phase]
        /\ won' = IF phase = "succeeded" THEN won \union {p} ELSE won
  BY DEF PodMoves
<1>3. TypeOK'
  BY <1>1, <1>2 DEF WInv, TypeOK
<1>4. TriesInv' /\ WakeInv'
  BY <1>1 DEF WInv, TriesInv, WakeInv
<1>5. CountInv'
  <2>1. CountInv /\ Cardinality(pods) \in Nat /\ count \in Nat
    <3>1. pods \in SUBSET Pods
      BY DEF WInv, TypeOK
    <3> QED
      BY <3>1, FS_Subset, FS_CardinalityType DEF WInv, TypeOK
  <2>2. \A i \in 1 .. Len(events) : events[i].count \in Nat
    <3>1. events \in Seq(Events)
      BY DEF WInv, TypeOK
    <3>2. \A i \in 1 .. Len(events) : events[i] \in Events
      BY <3>1
    <3> QED
      BY <3>2 DEF Events
  <2>3. count' <= UpToDate' /\ (pc' = "list" => UpToDate' >= Required) /\ PodsAreThere'
    BY <1>1, <2>1 DEF CountInv, PodsAreThere
  <2>4. ASSUME NEW i \in 1 .. Len(events')
        PROVE  events'[i].count <= UpToDate'
    <3>1. events[i].count <= UpToDate /\ events[i].count \in Nat /\ events' = events
      BY <1>1, <2>1, <2>2 DEF CountInv
    <3> QED
      BY <1>1, <3>1
  <2> QED
    BY <2>3, <2>4 DEF CountInv
<1>6. VerdictInv'
  BY <1>1, <1>2 DEF WInv, TypeOK, VerdictInv, SuccessIsReal
<1> QED
  BY <1>3, <1>4, <1>5, <1>6 DEF WInv

\* Kubernetes notifies the watch of a new status, of the deletion of the job,
\* or of something else.
LEMMA NotifiesWInv ==
  ASSUME WInv, StatusUpdate \/ DeleteJob \/ OtherEvent
  PROVE  WInv'
<1>1. /\ UNCHANGED <<pod, won, watch, pc, pods, todo, cur, tries, result>>
      /\ UpToDate' = UpToDate /\ Removed' = Removed /\ UpToDate \in Nat
  BY Sizes DEF StatusUpdate, DeleteJob, OtherEvent, cluster, work, UpToDate, Counted, Removed
<1>2. PICK type \in {"Modified", "Deleted", "other"}, n \in Nat :
        /\ Notify(type, n) /\ n <= UpToDate
        /\ \/ type = "Modified" /\ exists' = exists /\ count' = UpToDate /\ n = UpToDate
              /\ other' = other
           \/ type = "Deleted" /\ exists' = FALSE /\ count' = count /\ other' = other
           \/ type = "other" /\ UNCHANGED <<exists, count>> /\ other' = other + 1
              /\ other < MaxOther
  <2>1. count \in Nat /\ count <= UpToDate
    BY DEF WInv, TypeOK, CountInv
  <2> QED
    BY <1>1, <2>1 DEF StatusUpdate, DeleteJob, OtherEvent, cluster
<1>3. /\ events' \in Seq(Events) /\ events \in Seq(Events)
      /\ watch # "open" => events' = events
      /\ watch = "open" =>
           /\ Len(events') = Len(events) + 1 /\ Len(events) \in Nat
           /\ \A i \in 1 .. Len(events) : events'[i] = events[i]
           /\ events'[Len(events) + 1] = [type |-> type, count |-> n]
  BY <1>2, Notified DEF WInv, TypeOK
<1>4. TypeOK'
  <2>1. TypeOK /\ exists' \in BOOLEAN /\ count' \in Nat
    BY <1>1, <1>2 DEF WInv, TypeOK
  <2>2. other' \in 0 .. MaxOther
    BY <1>2, <2>1 DEF TypeOK
  <2> QED
    BY <1>1, <1>3, <2>1, <2>2 DEF TypeOK
<1>5. TriesInv' /\ VerdictInv'
  BY <1>1 DEF WInv, TriesInv, VerdictInv, SuccessIsReal
<1>6. CountInv'
  <2>1. CountInv
    BY DEF WInv
  <2>2. count' <= UpToDate' /\ (pc' = "list" => UpToDate' >= Required) /\ PodsAreThere'
    BY <1>1, <1>2, <2>1 DEF CountInv, PodsAreThere
  <2>3. \A i \in 1 .. Len(events') : events'[i].count <= UpToDate'
    BY <1>1, <1>2, <1>3, <2>1 DEF CountInv
  <2> QED
    BY <2>2, <2>3 DEF CountInv
<1>7. WakeInv'
  <2> SUFFICES ASSUME pc = "select", watch = "open"
               PROVE  \/ exists' /\ count' < Required
                      \/ \E i \in 1 .. Len(events') : Wakes(events'[i])
    BY <1>1 DEF WakeInv
  <2>1. CASE \E i \in 1 .. Len(events) : Wakes(events[i])
    BY <1>3, <2>1
  <2>2. CASE exists /\ count < Required
    <3>1. CASE type = "other"
      BY <1>2, <2>2, <3>1
    <3>2. CASE type = "Deleted" \/ n >= Required
      <4>1. CASE type = "other"
        BY <1>2, <2>2, <4>1
      <4>2. CASE type # "other"
        <5>1. Wakes([type |-> type, count |-> n])
          BY <1>2, <3>2, <4>2 DEF Wakes
        <5>2. Len(events) + 1 \in 1 .. Len(events')
          BY <1>3
        <5> QED
          BY <1>3, <5>1, <5>2
      <4> QED
        BY <4>1, <4>2
    <3>3. CASE type = "Modified" /\ ~(n >= Required)
      BY <1>1, <1>2, <2>2, <3>3
    <3> QED
      BY <1>2, <3>1, <3>2, <3>3
  <2> QED
    BY <2>1, <2>2 DEF WInv, WakeInv
<1> QED
  BY <1>4, <1>5, <1>6, <1>7 DEF WInv

\* The server closes the watch.
LEMMA ClosesWInv ==
  ASSUME WInv, CloseWatch
  PROVE  WInv'
<1>1. /\ watch' = "closed"
      /\ UNCHANGED <<pod, won, exists, count, events, other, pc, pods, todo, cur, tries, result>>
      /\ UpToDate' = UpToDate /\ Removed' = Removed
  BY DEF CloseWatch, cluster, work, UpToDate, Counted, Removed
<1>2. TypeOK'
  BY <1>1 DEF WInv, TypeOK
<1>3. TriesInv' /\ VerdictInv' /\ WakeInv'
  BY <1>1 DEF WInv, TriesInv, VerdictInv, SuccessIsReal, WakeInv
<1>4. CountInv'
  BY <1>1 DEF WInv, CountInv, PodsAreThere
<1> QED
  BY <1>2, <1>3, <1>4 DEF WInv

\* The judger opens the watch, gets the job and receives events.
LEMMA WaitsWInv ==
  ASSUME WInv, OpenWatch \/ Get \/ Receive \/ SelectFails
  PROVE  WInv'
<1>1. /\ UNCHANGED <<pod, won, exists, count, other, pods, todo, cur, tries>>
      /\ UpToDate' = UpToDate /\ Removed' = Removed /\ UpToDate \in Nat
      /\ count \in Nat /\ count <= UpToDate
  BY Sizes DEF OpenWatch, Get, Receive, SelectFails, cluster, feed, work,
               UpToDate, Counted, Removed, WInv, TypeOK, CountInv
<1>2. /\ events' \in Seq(Events)
      /\ \A i \in 1 .. Len(events') : events'[i].count <= UpToDate
  <2>1. CASE OpenWatch
    <3>1. [type |-> "Added", count |-> count] \in Events
      BY <1>1 DEF Events
    <3>2. \/ events' = <<[type |-> "Added", count |-> count]>>
          \/ events' = <<>> \/ events' = events
      BY <2>1 DEF OpenWatch
    <3>3. CASE events' = <<[type |-> "Added", count |-> count]>>
      BY <1>1, <3>1, <3>3
    <3>4. CASE events' = <<>> \/ events' = events
      <4>1. CASE events' = <<>>
        BY <4>1
      <4>2. CASE events' = events
        BY <4>2 DEF WInv, TypeOK, CountInv
      <4> QED
        BY <3>4, <4>1, <4>2
    <3> QED
      BY <3>2, <3>3, <3>4
  <2>2. CASE Receive
    BY <2>2, Received DEF Receive, WInv, TypeOK, CountInv
  <2>3. CASE Get \/ SelectFails
    BY <2>3 DEF Get, SelectFails, feed, WInv, TypeOK, CountInv
  <2> QED
    BY <2>1, <2>2, <2>3
<1>3. /\ pc \in {"watch", "get", "select"} /\ result = "none"
      /\ \/ pc' \in {"get", "select", "list"} /\ result' = "none"
         \/ pc' = "returned" /\ result' = "error"
      /\ watch' \in {"none", "open", "closed"}
  <2>1. watch \in {"none", "open", "closed"} /\ (pc # "returned" => result = "none")
    BY DEF WInv, TypeOK, VerdictInv
  <2> QED
    BY <2>1 DEF OpenWatch, Get, Receive, SelectFails, Return, Goto, feed
<1>4. TypeOK'
  BY <1>1, <1>2, <1>3 DEF WInv, TypeOK, PCs, Results
<1>5. TriesInv' /\ VerdictInv'
  BY <1>1, <1>3 DEF WInv, TriesInv, VerdictInv, SuccessIsReal, PCs
<1>6. pc' = "list" => UpToDate >= Required
  <2>1. CASE Get
    BY <1>1, <1>3, <2>1 DEF Get, Goto, Return, Reached
  <2>2. CASE Receive
    <3>1. Head(events).count <= UpToDate /\ Head(events).count \in Nat
      BY <2>2, Received DEF Receive, WInv, TypeOK, CountInv, Events
    <3> QED
      BY <1>1, <2>2, <3>1 DEF Receive, Goto, Return, Reached
  <2> QED
    BY <2>1, <2>2 DEF OpenWatch, SelectFails, Goto, Return
<1>7. CountInv'
  BY <1>1, <1>2, <1>3, <1>6 DEF CountInv, PodsAreThere
<1>8. WakeInv'
  <2> SUFFICES ASSUME pc' = "select", watch' = "open"
               PROVE  \/ exists /\ count < Required
                      \/ \E i \in 1 .. Len(events') : Wakes(events'[i])
    BY <1>1 DEF WakeInv
  <2>1. CASE Get
    BY <1>1, <2>1 DEF Get, Goto, Return, Reached
  <2>2. CASE Receive
    <3>1. pc = "select" /\ watch = "open"
      BY <2>2 DEF Receive
    <3>2. ~Wakes(events[1])
      <4>1. Head(events) = events[1] /\ Head(events).count \in Nat
        BY <2>2, Received DEF Receive, WInv, TypeOK, Events
      <4> QED
        BY <2>2, <4>1 DEF Receive, Goto, Return, Reached, Wakes
    <3>3. CASE \E i \in 1 .. Len(events) : Wakes(events[i])
      <4>1. PICK i \in 1 .. Len(events) : Wakes(events[i])
        BY <3>3
      <4>2. i - 1 \in 1 .. Len(events') /\ events'[i - 1] = events[i]
        BY <2>2, <3>2, <4>1, Received DEF Receive, WInv, TypeOK
      <4> QED
        BY <4>1, <4>2
    <3> QED
      BY <3>1, <3>3 DEF WInv, WakeInv
  <2> QED
    BY <1>3, <2>1, <2>2 DEF OpenWatch, SelectFails, Goto, Return
<1> QED
  BY <1>4, <1>5, <1>7, <1>8 DEF WInv

\* The judger lists the pods.
LEMMA ListsWInv ==
  ASSUME WInv, List
  PROVE  WInv'
<1>1. /\ pc = "list" /\ result = "none"
      /\ UNCHANGED <<pod, won, exists, count, watch, events, other>>
      /\ UpToDate' = UpToDate /\ Removed' = Removed /\ UpToDate >= Required
  BY DEF List, cluster, feed, UpToDate, Counted, Removed, WInv, CountInv, VerdictInv
<1>2. CASE Return("error") /\ UNCHANGED work
  <2>1. /\ pc' = "returned" /\ result' = "error"
        /\ UNCHANGED <<pods, todo, cur, tries>>
    BY <1>2 DEF Return, work
  <2>2. TypeOK'
    BY <1>1, <2>1 DEF WInv, TypeOK, PCs, Results
  <2>3. TriesInv' /\ WakeInv' /\ VerdictInv'
    BY <1>1, <2>1 DEF WInv, TriesInv, WakeInv, VerdictInv, SuccessIsReal
  <2>4. CountInv'
    BY <1>1, <2>1 DEF WInv, CountInv, PodsAreThere
  <2> QED
    BY <2>2, <2>3, <2>4 DEF WInv
<1>3. CASE /\ pods' = Listed /\ LookAt(Listed)
           /\ Goto("logs") \/ Goto("verdict")
  <2>1. /\ pc' \in {"logs", "verdict"} /\ result' = result
        /\ pods' = Listed /\ todo' = Listed /\ tries' = 0
        /\ IF Listed = {} THEN cur' = NoPod ELSE cur' \in Listed
        /\ Listed \subseteq Pods
    BY <1>3 DEF LookAt, Goto, Listed
  <2>2. TypeOK'
    <3>1. pods' \subseteq Pods /\ todo' \subseteq pods' /\ cur' \in todo' \union {NoPod}
      BY <2>1
    <3>2. tries' \in Nat /\ tries' < LogTries
      BY <2>1
    <3> QED
      BY <1>1, <2>1, <3>1, <3>2 DEF WInv, TypeOK, PCs
  <2>3. TriesInv'
    BY <2>1 DEF TriesInv
  <2>4. WakeInv' /\ VerdictInv'
    BY <1>1, <2>1 DEF WInv, WakeInv, VerdictInv, SuccessIsReal
  <2>5. CountInv'
    <3>1. Cardinality(Listed) + Cardinality(Removed) >= Required
      BY <1>1, CountedAreThere, Sizes DEF UpToDate
    <3> QED
      BY <1>1, <2>1, <3>1 DEF WInv, CountInv, PodsAreThere
  <2> QED
    BY <2>2, <2>3, <2>4, <2>5 DEF WInv
<1> QED
  BY <1>2, <1>3 DEF List

\* The judger looks at the pods it was given, one by one.
LEMMA LooksWInv ==
  ASSUME WInv, \/ NoLogs \/ LogsRetry \/ LogsPanic \/ StatusRetry \/ StatusDecides
               \/ PodFails \/ AllSucceeded
  PROVE  WInv'
<1>1. /\ pc \in {"logs", "verdict"} /\ result = "none"
      /\ UNCHANGED <<pod, won, exists, count, watch, events, other, pods>>
      /\ UpToDate' = UpToDate /\ Removed' = Removed
      /\ pc' \in {"logs", "verdict", "returned"}
  BY DEF NoLogs, LogsRetry, LogsPanic, StatusRetry, StatusDecides, PodFails,
         AllSucceeded, cluster, feed, work, Goto, Return, LookAt, UpToDate, Counted,
         Removed, WInv, VerdictInv
<1>2. WakeInv' /\ CountInv'
  BY <1>1 DEF WInv, WakeInv, CountInv, PodsAreThere
<1>3. \/ /\ UNCHANGED <<todo, cur, tries>>
         /\ \/ pc = "logs" /\ cur = NoPod /\ pc' = "verdict" /\ result' = result
            \/ pc' = "returned" /\ result' \in {"error", "panic", "failure"}
            \/ pc = "verdict" /\ cur = NoPod /\ pc' = "returned" /\ result' = "success"
      \/ /\ UNCHANGED <<todo, cur, pc, result>> /\ cur # NoPod /\ tries' = tries + 1
         /\ pc = "logs" => tries' < LogTries
         /\ pc = "verdict" => tries' < StatusTries
      \/ /\ pc' = "verdict" /\ result' = result /\ cur # NoPod /\ LookAt(todo \ {cur})
         /\ pod[cur] = "succeeded" /\ pc = "verdict"
  BY DEF NoLogs, LogsRetry, LogsPanic, StatusRetry, StatusDecides, PodFails,
         AllSucceeded, work, Goto, Return, MoreTries, Successful
<1>4. TypeOK /\ TriesInv /\ VerdictInv
  BY DEF WInv
<1>5. CASE /\ pc' = "verdict" /\ result' = result /\ cur # NoPod /\ LookAt(todo \ {cur})
           /\ pod[cur] = "succeeded" /\ pc = "verdict"
  <2>1. /\ todo' = todo \ {cur} /\ tries' = 0 /\ cur \in Pods
        /\ IF todo' = {} THEN cur' = NoPod ELSE cur' \in todo'
    BY <1>4, <1>5 DEF LookAt, TypeOK
  <2>2. TypeOK'
    <3>1. todo' \subseteq pods' /\ cur' \in todo' \union {NoPod}
      BY <1>1, <1>4, <2>1 DEF TypeOK
    <3>2. tries' \in Nat /\ tries' < LogTries
      BY <2>1
    <3> QED
      BY <1>1, <1>4, <1>5, <3>1, <3>2 DEF TypeOK, PCs
  <2>3. TriesInv'
    BY <1>5, <2>1 DEF TriesInv
  <2>4. VerdictInv'
    <3>1. cur \in won
      BY <1>4, <1>5, <2>1 DEF VerdictInv
    <3>2. NoPod \notin todo'
      BY <1>4, <2>1 DEF TypeOK
    <3> QED
      BY <1>1, <1>4, <1>5, <2>1, <3>1, <3>2 DEF VerdictInv, SuccessIsReal
  <2> QED
    BY <1>2, <2>2, <2>3, <2>4 DEF WInv
<1>6. CASE /\ UNCHANGED <<todo, cur, pc, result>> /\ cur # NoPod /\ tries' = tries + 1
           /\ pc = "logs" => tries' < LogTries
           /\ pc = "verdict" => tries' < StatusTries
  <2>1. TypeOK'
    BY <1>1, <1>4, <1>6 DEF TypeOK
  <2>2. TriesInv' /\ VerdictInv'
    BY <1>1, <1>4, <1>6 DEF TriesInv, VerdictInv, SuccessIsReal
  <2> QED
    BY <1>2, <2>1, <2>2 DEF WInv
<1>7. CASE /\ UNCHANGED <<todo, cur, tries>>
           /\ \/ pc = "logs" /\ cur = NoPod /\ pc' = "verdict" /\ result' = result
              \/ pc' = "returned" /\ result' \in {"error", "panic", "failure"}
              \/ pc = "verdict" /\ cur = NoPod /\ pc' = "returned" /\ result' = "success"
  <2>1. TypeOK'
    BY <1>1, <1>4, <1>7 DEF TypeOK, PCs, Results
  <2>2. TriesInv' /\ VerdictInv'
    BY <1>1, <1>4, <1>7 DEF TriesInv, VerdictInv, SuccessIsReal
  <2> QED
    BY <1>2, <2>1, <2>2 DEF WInv
<1> QED
  BY <1>3, <1>5, <1>6, <1>7

\* No step of anyone breaks the invariant.
LEMMA NextWInv == WInv /\ [Next]_vars => WInv'
<1>1. ASSUME WInv, UNCHANGED vars
      PROVE  WInv'
  <2>1. /\ UNCHANGED <<pod, won, exists, count, watch, events, other, pc, pods, todo, cur,
                       tries, result>>
        /\ UpToDate' = UpToDate /\ Removed' = Removed
    BY <1>1 DEF vars, cluster, feed, work, UpToDate, Counted, Removed
  <2> QED
    BY <1>1, <2>1 DEF WInv, TypeOK, TriesInv, CountInv, PodsAreThere, WakeInv, VerdictInv,
       SuccessIsReal
<1> QED
  BY <1>1, MovesWInv, NotifiesWInv, ClosesWInv, WaitsWInv, ListsWInv, LooksWInv
     DEF Next, Kubernetes, Judger

\* The invariant holds throughout.
THEOREM WaitInvariance == Spec => []WInv
BY InitWInv, NextWInv, PTL DEF Spec

\* Type correctness, and the limits on how often a pod is looked at.
THEOREM TypeCorrect == Spec => []TypeOK
<1>1. WInv => TypeOK
  BY DEF WInv
<1> QED
  BY <1>1, WaitInvariance, PTL

\* Opening the watch before getting the job leaves no gap: whoever waits has
\* something to wait for.
THEOREM NeverMissed == Spec => []NoMissedWakeup
<1>1. WInv => NoMissedWakeup
  BY DEF WInv, TypeOK, WakeInv, NoMissedWakeup
<1> QED
  BY <1>1, WaitInvariance, PTL

\* The list has the pods that the status, or an event, has counted.
THEOREM Listing == Spec => []PodsAreThere
<1>1. WInv => PodsAreThere
  BY DEF WInv, CountInv
<1> QED
  BY <1>1, WaitInvariance, PTL

\* No success is reported that was not seen.
THEOREM RealSuccess == Spec => []SuccessIsReal
<1>1. WInv => SuccessIsReal
  BY DEF WInv, VerdictInv
<1> QED
  BY <1>1, WaitInvariance, PTL

=============================================================================
