------------------------------ MODULE WaitJob ------------------------------
(***************************************************************************)
(* How a judger waits for a Kubernetes job and its pods: WaitJobAndGetPods,*)
(* WaitPods, PodLogs and PodSuccessOrNot of pkg/framework/kube.go, WaitTill*)
(* of backoff.go.                                                          *)
(*                                                                         *)
(* The judger learns of pods in three ways that do not agree with each     *)
(* other at all times: the counters in the job's status, which the job     *)
(* controller brings up to date a while later, the watch, which delivers   *)
(* changes of the status later still, and the list of pods.  Pods can be   *)
(* deleted at any time; the job then counts them as failed, the list does  *)
(* not have them.                                                          *)
(*                                                                         *)
(* Time is left out: 120 minutes without an event may pass whenever the    *)
(* watch is open and has nothing to deliver; sleeps count as tries.        *)
(***************************************************************************)
EXTENDS Integers, Sequences, FiniteSets

CONSTANTS Pods,        \* the pods the job may ever have
          Required,    \* requiredPods
          LogTries,    \* tries of PodLogs: 24 in the code
          StatusTries, \* max of PodSuccessOrNot's WaitTill: 48 in the code
          MaxOther,    \* bound on events about something that is not a job
          Faults,      \* {"api"}: requests to Kubernetes may fail
          NoPod

ASSUME WaitAssumption ==
  /\ Required \in Nat /\ LogTries \in Nat \ {0} /\ StatusTries \in Nat \ {0}
  /\ MaxOther \in Nat /\ NoPod \notin Pods /\ IsFiniteSet(Pods)
  /\ Faults \subseteq {"api"}

VARIABLES
  pod,     \* the phase of each pod
  won,     \* history: the pods that have succeeded
  exists,  \* the job has not been deleted
  count,   \* what the job's status adds up to
  watch,   \* the watch: not yet open, open, or closed by the server
  events,  \* what it has still to deliver
  other,   \* events so far that are not about a job
  pc,      \* where the judger is
  pods,    \* the pods it was given
  todo,    \* those whose success it has not seen yet
  cur,     \* the pod it looks at
  tries,   \* how often it has looked at it
  result   \* what the call returned

cluster == <<pod, won, exists, count>>
feed    == <<watch, events, other>>
work    == <<pods, todo, cur, tries>>
vars    == <<cluster, feed, pc, work, result>>

\* "removed": deleted, and gone from the list.  The phase of a terminating
\* pod is still Running.
Phases  == {"absent", "creating", "running", "terminating", "succeeded", "failed", "removed"}
PCs     == {"watch", "get", "select", "list", "logs", "verdict", "returned"}
Results == {"none", "error", "panic", "success", "failure"}
Events  == [type : {"Added", "Modified", "Deleted", "other"}, count : Nat]

Faulty == "api" \in Faults

Removed == {p \in Pods : pod[p] = "removed"}
Listed  == {p \in Pods : pod[p] \notin {"absent", "removed"}}

\* calcReadyAndFinishedPods of an up-to-date status: ready, succeeded, failed
\* and terminating pods; the status counts a deleted pod as failed.
Counted  == {p \in Pods : pod[p] \notin {"absent", "creating"}}
UpToDate == Cardinality(Counted)

Init ==
  /\ pod = [p \in Pods |-> "absent"]
  /\ won = {}
  /\ exists = TRUE
  /\ count = 0
  /\ watch = "none"
  /\ events = <<>>
  /\ other = 0
  /\ pc = "watch"
  /\ pods = {} /\ todo = {} /\ cur = NoPod /\ tries = 0
  /\ result = "none"

-----------------------------------------------------------------------------
(***************************************************************************)
(* Kubernetes.                                                             *)
(***************************************************************************)
\* An open watch will deliver this.
Notify(type, n) ==
  events' = IF watch = "open"
              THEN Append(events, [type |-> type, count |-> n])
              ELSE events

\* A pod is created, starts, ends, is deleted.
PodMoves ==
  /\ \E p \in Pods, phase \in Phases :
       /\ \/ pod[p] = "absent" /\ exists /\ phase = "creating"
          \/ pod[p] = "creating" /\ phase \in {"running", "failed", "removed"}
          \/ pod[p] = "running" /\ phase \in {"succeeded", "failed", "terminating"}
          \/ pod[p] \in {"terminating", "succeeded", "failed"} /\ phase = "removed"
       /\ pod' = [pod EXCEPT ![p] = phase]
       /\ won' = IF phase = "succeeded" THEN won \union {p} ELSE won
  /\ UNCHANGED <<exists, count, feed, pc, work, result>>

\* The job controller writes the status.
StatusUpdate ==
  /\ exists /\ count # UpToDate
  /\ count' = UpToDate
  /\ Notify("Modified", UpToDate)
  /\ UNCHANGED <<pod, won, exists, watch, other, pc, work, result>>

DeleteJob ==
  /\ exists
  /\ exists' = FALSE
  /\ Notify("Deleted", count)
  /\ UNCHANGED <<pod, won, count, watch, other, pc, work, result>>

\* The watch delivers something that is not a job.
OtherEvent ==
  /\ watch = "open" /\ other < MaxOther
  /\ other' = other + 1
  /\ Notify("other", 0)
  /\ UNCHANGED <<cluster, watch, pc, work, result>>

\* The server closes the watch, as it does to every watch sooner or later.
CloseWatch ==
  /\ watch = "open"
  /\ watch' = "closed"
  /\ UNCHANGED <<cluster, events, other, pc, work, result>>

-----------------------------------------------------------------------------
(***************************************************************************)
(* WaitJobAndGetPods.                                                      *)
(***************************************************************************)
Return(value) == pc' = "returned" /\ result' = value
Goto(label) == pc' = label /\ UNCHANGED result

\* Mutant: one pod too many is waited for.
MoreThanRequired(n) == n > Required

\* calcReadyAndFinishedPods(status) >= requiredPods
Reached(n) == n >= Required

\* Watch: it begins with the job as it is.
OpenWatch ==
  /\ pc = "watch"
  /\ \/ /\ watch' = "open"
        /\ events' = IF exists THEN <<[type |-> "Added", count |-> count]>> ELSE <<>>
        /\ Goto("get")
     \/ Faulty /\ Return("error") /\ UNCHANGED <<watch, events>>
  /\ UNCHANGED <<cluster, other, work>>

\* Get, once the watch is open.
Get ==
  /\ pc = "get"
  /\ \/ exists /\ Goto(IF Reached(count) THEN "list" ELSE "select")
     \/ (~exists \/ Faulty) /\ Return("error")
  /\ UNCHANGED <<cluster, feed, work>>

\* Mutant: the pods are listed at the first event that is about the job.
ReceiveAny ==
  /\ pc = "select" /\ events # <<>>
  /\ events' = Tail(events)
  /\ \/ Head(events).type = "other" /\ Goto("select")
     \/ Head(events).type = "Deleted" /\ Return("error")
     \/ Head(events).type \in {"Added", "Modified"} /\ Goto("list")
  /\ UNCHANGED <<cluster, watch, other, work>>

\* An event is received.
Receive ==
  /\ pc = "select" /\ events # <<>>
  /\ events' = Tail(events)
  /\ \/ Head(events).type = "other" /\ Goto("select")
     \/ Head(events).type = "Deleted" /\ Return("error")
     \/ /\ Head(events).type \in {"Added", "Modified"}
        /\ Goto(IF Reached(Head(events).count) THEN "list" ELSE "select")
  /\ UNCHANGED <<cluster, watch, other, work>>

\* Mutant: a closed channel is taken for an event that is not about a job.
SelectSpins ==
  /\ pc = "select" /\ events = <<>> /\ watch = "open"
  /\ Return("error")
  /\ UNCHANGED <<cluster, feed, work>>

\* Everything is delivered: the server has closed the channel, or 120 minutes
\* pass without an event.
SelectFails ==
  /\ pc = "select" /\ events = <<>>
  /\ Return("error")
  /\ UNCHANGED <<cluster, feed, work>>

\* The first of these pods is the next to be looked at.
LookAt(some) ==
  /\ todo' = some
  /\ tries' = 0
  /\ IF some = {} THEN cur' = NoPod ELSE cur' \in some

\* The pods are listed.  WaitJobFinish goes on with WaitPods; a judger that
\* called WaitJobAndGetPods itself asks for the success of each.
List ==
  /\ pc = "list"
  /\ \/ /\ pods' = Listed
        /\ LookAt(Listed)
        /\ Goto("logs") \/ Goto("verdict")
     \/ Faulty /\ Return("error") /\ UNCHANGED work
  /\ UNCHANGED <<cluster, feed>>

-----------------------------------------------------------------------------
(***************************************************************************)
(* WaitPods.                                                               *)
(***************************************************************************)
\* Without a pod the loop over the logs is empty.
NoLogs ==
  /\ pc = "logs" /\ cur = NoPod
  /\ Goto("verdict")
  /\ UNCHANGED <<cluster, feed, work>>

\* PodLogs: the container is being created, which is an error of the request
\* for its log; sleep and try again, 24 times.
LogsRetry ==
  /\ pc = "logs" /\ cur # NoPod /\ pod[cur] = "creating"
  /\ IF tries + 1 < LogTries
       THEN tries' = tries + 1 /\ Goto("logs")
       ELSE tries' = tries /\ Return("error")
  /\ UNCHANGED <<cluster, feed, pods, todo, cur>>

\* The request succeeds.  err is nil, and err.Error() is called before it is
\* looked at: PodLogs panics.
LogsPanic ==
  /\ pc = "logs" /\ cur # NoPod
  /\ pod[cur] \notin {"creating", "removed"}
  /\ Return("panic")
  /\ UNCHANGED <<cluster, feed, work>>

\* Mutant: a pod that has not failed has succeeded.
NotFailed(phase) == phase # "failed"

\* podObj.Status.Phase == corev1.PodSucceeded
Successful(phase) == phase = "succeeded"

\* Mutant: tries are not counted.
MoreTriesUnbounded == pod[cur] \in {"running", "terminating"}

\* WaitTill(get, not running, 48): the last try decides, running or not.
MoreTries ==
  pod[cur] \in {"running", "terminating"} /\ tries + 1 < StatusTries

\* PodSuccessOrNot: the pod is running, sleep and try again.
StatusRetry ==
  /\ pc = "verdict" /\ cur # NoPod /\ MoreTries
  /\ tries' = tries + 1
  /\ UNCHANGED <<cluster, feed, pc, pods, todo, cur, result>>

\* The pod is looked at for the last time: the loop goes on if it succeeded.
\* A pod that is still being created, or running, has not.
StatusDecides ==
  /\ pc = "verdict" /\ cur # NoPod /\ ~MoreTries /\ pod[cur] # "removed"
  /\ IF Successful(pod[cur])
       THEN LookAt(todo \ {cur}) /\ Goto("verdict")
       ELSE Return("failure") /\ UNCHANGED <<todo, cur, tries>>
  /\ UNCHANGED <<cluster, feed, pods>>

\* The request for a log or a status fails: there is no such pod any more.
PodFails ==
  /\ pc \in {"logs", "verdict"} /\ cur # NoPod
  /\ pod[cur] = "removed" \/ Faulty
  /\ Return("error")
  /\ UNCHANGED <<cluster, feed, work>>

\* Every pod has succeeded.
AllSucceeded ==
  /\ pc = "verdict" /\ cur = NoPod
  /\ Return("success")
  /\ UNCHANGED <<cluster, feed, work>>

-----------------------------------------------------------------------------
Kubernetes == PodMoves \/ StatusUpdate \/ DeleteJob \/ OtherEvent \/ CloseWatch

Judger ==
  \/ OpenWatch \/ Get \/ Receive \/ SelectFails \/ List
  \/ NoLogs \/ LogsRetry \/ LogsPanic
  \/ StatusRetry \/ StatusDecides \/ PodFails \/ AllSucceeded

Next == Kubernetes \/ Judger

Spec == Init /\ [][Next]_vars

\* The judger goes on: requests are answered, time passes.
FairSpec == Spec /\ WF_vars(Judger)
-----------------------------------------------------------------------------
\* Every variable has its type; a pod is looked at no more often than the code
\* allows.
TypeOK ==
  /\ pod \in [Pods -> Phases]
  /\ won \subseteq Pods
  /\ exists \in BOOLEAN
  /\ count \in Nat
  /\ watch \in {"none", "open", "closed"}
  /\ events \in Seq(Events)
  /\ other \in 0 .. MaxOther
  /\ pc \in PCs
  /\ pods \subseteq Pods /\ todo \subseteq pods
  /\ cur \in todo \union {NoPod}
  /\ tries \in Nat /\ (tries < LogTries \/ tries < StatusTries)
  /\ result \in Results

\* WaitJobAndGetPods sleeps only while there is something to wait for: if the
\* watch is open and has nothing to deliver, the job exists and its status has
\* not reached the required count, whatever happened between Watch and Get.
\* So 120 minutes are never waited out for pods that are there.
NoMissedWakeup ==
  pc = "select" /\ watch = "open" /\ events = <<>> =>
    exists /\ count < Required

\* The pods it returns are as many as required, but for those that were
\* deleted: the list, which is read after the status, or after an event with
\* an older status, never lags behind what the status has counted.
PodsAreThere ==
  pc \in {"logs", "verdict"} =>
    Cardinality(pods) + Cardinality(Removed) >= Required

\* Success is only reported if every pod that was listed has succeeded: not
\* if one still runs after the last try, or was deleted before it was seen.
SuccessIsReal ==
  result = "success" => pods \subseteq won

\* Every call returns: with the pods, with a verdict, or with an error when
\* the job is deleted, the watch is closed or nothing happens any more.
WaitEnds == <>(pc = "returned")

\* PodLogs tries until the pod has "quit ContainerCreating" (the text of its
\* last error) and returns its log then: it does not panic.
LogsAreReturned == result # "panic"

=============================================================================
