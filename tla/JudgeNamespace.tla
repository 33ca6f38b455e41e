--------------------------- MODULE JudgeNamespace ---------------------------
(***************************************************************************)
(* The Kubernetes side of judging one solution (run, ensureNamespace-      *)
(* Presence, createNamespace, ensureJobPresence, watchJobTillReady,        *)
(* deleteNamespace and runningCleanup of internal/manager/running.go, and  *)
(* Create of internal/kube/dynamic.go): the namespace "j-<task>" and the   *)
(* other objects of the templates are created one request at a time, then  *)
(* the job "judge"; in the end the namespace goes, and with it all but the *)
(* ClusterRoleBinding, which needs a request of its own.                   *)
(*                                                                         *)
(* Attempts follow each other, at most one at a time (SessionLock): a      *)
(* crash leaves an attempt where it is, and the next one starts over.  The *)
(* log is pulled in one step (LogPull is its inside).                      *)
(***************************************************************************)
EXTENDS Integers

CONSTANTS Objects,     \* how many objects the templates have
          Binding,     \* which of them is the ClusterRoleBinding, or 0
          KubeFails,   \* may a request to Kubernetes fail?
          MaxAttempts  \* bound on the attempts

\* Object 1 is the Namespace (00_namespace.yaml).
ASSUME NamespaceAssumption ==
  /\ Objects \in Nat \ {0} /\ MaxAttempts \in Nat \ {0}
  /\ Binding \in {0} \union (2 .. Objects)
  /\ KubeFails \in BOOLEAN

VARIABLES
  ns,        \* the namespace
  made,      \* the objects of the templates that exist in it
  binding,   \* the ClusterRoleBinding, which is in no namespace
  job,       \* the job "judge" in the namespace
  pc,        \* where the attempt is
  item,      \* the object createNamespace is at
  err,       \* run returns an error
  attempts,  \* attempts begun so far
  untidy,    \* history: a crash or a failed deletion left something behind
  undeleted  \* history: the deletion of the last session's namespace failed

vars == <<ns, made, binding, job, pc, item, err, attempts, untidy, undeleted>>
cluster == <<ns, made, binding, job>>
history == <<untidy, undeleted>>

PCs == {"idle", "getns", "create", "getjob", "createjob", "watch", "pull",
        "delns", "delbinding", "returned"}

\* The objects of a namespace that is complete.
Whole == 1 .. Objects \ {Binding}

Init ==
  /\ ns = "absent" /\ made = {} /\ binding = FALSE /\ job = "none"
  /\ pc = "idle" /\ item = 1 /\ err = FALSE
  /\ attempts = 0 /\ untidy = FALSE /\ undeleted = FALSE

-----------------------------------------------------------------------------
(***************************************************************************)
(* Kubernetes.                                                             *)
(***************************************************************************)
\* A namespace that is being deleted is gone with everything in it.
Finalize ==
  /\ ns = "terminating"
  /\ ns' = "absent" /\ made' = {} /\ job' = "none"
  /\ UNCHANGED <<binding, pc, item, err, attempts, history>>

\* The pod of the job becomes ready, and ends.
JobProceeds ==
  /\ \/ job = "waiting" /\ ns = "active" /\ job' = "ready"
     \/ job = "ready" /\ job' = "ended"
  /\ UNCHANGED <<ns, made, binding, pc, item, err, attempts, history>>

\* Deleting the namespace begins.
Deleted == /\ ns' = IF ns = "absent" THEN "absent" ELSE "terminating"
           /\ UNCHANGED <<made, job>>

-----------------------------------------------------------------------------
(***************************************************************************)
(* An attempt.                                                             *)
(***************************************************************************)
\* run() returns through runningCleanup.
Fails == pc' = "delns" /\ err' = TRUE

\* A session starts run(): for the first time, after a crash, or, when the
\* solution could not be removed from Redis, once more.
Begin ==
  /\ pc \in {"idle", "returned"}
  /\ attempts < MaxAttempts
  /\ attempts' = attempts + 1
  /\ pc' = "getns" /\ item' = 1 /\ err' = FALSE
  /\ UNCHANGED <<cluster, history>>

\* ensureNamespacePresence asks for the namespace.  One that exists is taken
\* as it is; any error, not only NotFound, is taken for its absence.
GetNamespace ==
  /\ pc = "getns"
  /\ \/ ns # "absent" /\ pc' = "getjob"
     \/ (ns = "absent" \/ KubeFails) /\ pc' = "create"
  /\ UNCHANGED <<cluster, item, err, attempts, history>>

\* What creating object i does when the request succeeds: the namespace and
\* the binding must not exist yet, the rest needs a live namespace.
Creates(i) ==
  \/ /\ i = 1 /\ ns = "absent"
     /\ ns' = "active" /\ made' = {1} /\ UNCHANGED <<binding, job>>
  \/ /\ i = Binding /\ ~binding
     /\ binding' = TRUE /\ UNCHANGED <<ns, made, job>>
  \/ /\ i \in Whole \ {1} /\ ns = "active" /\ i \notin made
     /\ made' = made \union {i} /\ UNCHANGED <<ns, binding, job>>

CanCreate(i) ==
  \/ i = 1 /\ ns = "absent"
  \/ i = Binding /\ ~binding
  \/ i \in Whole \ {1} /\ ns = "active" /\ i \notin made

\* Mutant: the next object is created although one could not be.
CreateItemContinues ==
  /\ pc = "create"
  /\ Creates(item) \/ (UNCHANGED cluster /\ (KubeFails \/ ~CanCreate(item)))
  /\ item' = item + 1
  /\ pc' = IF item = Objects THEN "getjob" ELSE "create"
  /\ UNCHANGED <<err, attempts, history>>

\* Mutant: the loop over the objects runs once too often.
CreateItemPastEnd ==
  /\ pc = "create"
  /\ \/ /\ Creates(item)
        /\ item' = item + 1
        /\ pc' = IF item > Objects THEN "getjob" ELSE "create"
        /\ UNCHANGED err
     \/ /\ ~CanCreate(item) \/ KubeFails
        /\ Fails /\ UNCHANGED <<cluster, item>>
  /\ UNCHANGED <<attempts, history>>

\* kc.Create with continueOnFailure = false: the first object that cannot be
\* created ends createNamespace, and run with it.
CreateItem ==
  /\ pc = "create"
  /\ \/ /\ Creates(item)
        /\ item' = item + 1
        /\ pc' = IF item = Objects THEN "getjob" ELSE "create"
        /\ UNCHANGED err
     \/ /\ ~CanCreate(item)
        /\ Fails /\ UNCHANGED <<cluster, item>>
     \/ /\ KubeFails
        /\ Creates(item) \/ UNCHANGED cluster
        /\ Fails /\ UNCHANGED item
  /\ UNCHANGED <<attempts, history>>

\* ensureJobPresence: a job that exists is resumed.
GetJob ==
  /\ pc = "getjob"
  /\ \/ job # "none" /\ pc' = "watch"
     \/ (job = "none" \/ KubeFails) /\ pc' = "createjob"
  /\ UNCHANGED <<cluster, item, err, attempts, history>>

\* createJob; a config without a job template fails it as well, and so does,
\* as far as the cluster is concerned, the panic of its loop over the
\* environments (JobEnv), after which the deferred runningCleanup runs.
CreateJob ==
  /\ pc = "createjob"
  /\ \/ /\ ns = "active" /\ job = "none"
        /\ job' = "waiting"
        /\ (pc' = "watch" /\ UNCHANGED err) \/ (KubeFails /\ Fails)
     \/ Fails /\ UNCHANGED job
  /\ UNCHANGED <<ns, made, binding, item, attempts, history>>

\* watchJobTillReady: the job is ready or ended, or it was deleted, the
\* watch breaks, or nothing happens for watchJobTimeout.
Watch ==
  /\ pc = "watch"
  /\ \/ job \in {"ready", "ended"} /\ pc' = "pull" /\ UNCHANGED err
     \/ job \in {"none", "waiting"} /\ Fails
     \/ KubeFails /\ Fails
  /\ UNCHANGED <<cluster, item, attempts, history>>

\* The two requests of deleteNamespace.  An error of the first, NotFound
\* too, skips the second.
DeletesAll ==
  \/ ns # "absent" /\ Deleted /\ binding' = FALSE /\ UNCHANGED untidy
  \/ ns = "absent" /\ UNCHANGED <<cluster, untidy>>
  \/ /\ KubeFails /\ untidy' = TRUE
     /\ UNCHANGED cluster \/ (ns # "absent" /\ Deleted /\ UNCHANGED binding)

\* The program asks for the namespace to be deleted (ActionQuit).
Quit ==
  /\ pc = "pull"
  /\ DeletesAll
  /\ UNCHANGED <<pc, item, err, attempts, undeleted>>

\* pullJobLogs returns: the log ends when the job does, or fails before, or
\* the job has no pod and closing the reader panics: runningCleanup is
\* deferred and runs all the same (what dies with it is in JudgeManager).
PullEnds ==
  /\ pc = "pull"
  /\ \/ (job \in {"ended", "none"} \/ ns # "active")
        /\ pc' = "delns" /\ UNCHANGED err
     \/ Fails
  /\ UNCHANGED <<cluster, item, attempts, history>>

\* Mutant: the namespace is deleted only by a run that succeeded.
DeleteNamespaceIfOk ==
  /\ pc = "delns"
  /\ \/ /\ ns # "absent" /\ ~err
        /\ Deleted
        /\ pc' = "delbinding" /\ undeleted' = FALSE
     \/ /\ ns = "absent" \/ KubeFails \/ err
        /\ pc' = "returned" /\ undeleted' \in {FALSE, KubeFails}
        /\ UNCHANGED <<ns, made, job>>
  /\ UNCHANGED <<binding, item, err, attempts, untidy>>

\* runningCleanup: the first request of deleteNamespace.
DeleteNamespace ==
  /\ pc = "delns"
  /\ \/ /\ ns # "absent"
        /\ Deleted
        /\ pc' = "delbinding" /\ undeleted' = FALSE /\ UNCHANGED untidy
     \/ /\ ns = "absent"
        /\ pc' = "returned" /\ undeleted' = FALSE
        /\ UNCHANGED <<ns, made, job, untidy>>
     \/ /\ KubeFails
        /\ Deleted \/ UNCHANGED <<ns, made, job>>
        /\ pc' = "returned" /\ untidy' = TRUE /\ undeleted' = TRUE
  /\ UNCHANGED <<binding, item, err, attempts>>

\* Mutant: the binding is forgotten.
DeleteBindingForgets ==
  /\ pc = "delbinding"
  /\ pc' = "returned"
  /\ UNCHANGED <<ns, made, binding, job, item, err, attempts, history>>

\* The second one; it may find nothing, and its error is only logged.
DeleteBinding ==
  /\ pc = "delbinding"
  /\ \/ binding' = FALSE /\ UNCHANGED untidy
     \/ KubeFails /\ untidy' = TRUE /\ UNCHANGED binding
  /\ pc' = "returned"
  /\ UNCHANGED <<ns, made, job, item, err, attempts, undeleted>>

\* The manager dies; a janitor will start another attempt.
Crash ==
  /\ pc \notin {"idle", "returned"}
  /\ attempts < MaxAttempts
  /\ pc' = "idle"
  /\ untidy' = TRUE
  /\ UNCHANGED <<cluster, item, err, attempts, undeleted>>

Attempt ==
  \/ Begin \/ GetNamespace \/ CreateItem \/ GetJob \/ CreateJob \/ Watch
  \/ PullEnds \/ DeleteNamespace \/ DeleteBinding

Next == Attempt \/ Quit \/ Finalize \/ JobProceeds \/ Crash

Spec == Init /\ [][Next]_vars

\* An attempt goes on while it can, the job's pod starts and ends (or the
\* watch times out), and Kubernetes finishes the deletion of a namespace.
Fairness == WF_vars(Attempt) /\ WF_vars(Finalize) /\ WF_vars(JobProceeds)

FairSpec == Spec /\ Fairness

-----------------------------------------------------------------------------
\* Every variable has its type.
TypeOK ==
  /\ ns \in {"absent", "active", "terminating"}
  /\ made \subseteq Whole /\ (ns = "absent" => made = {})
  /\ binding \in BOOLEAN
  /\ job \in {"none", "waiting", "ready", "ended"}
  /\ pc \in PCs
  /\ item \in 1 .. Objects + 1 /\ (pc = "create" => item <= Objects)
  /\ err \in BOOLEAN /\ untidy \in BOOLEAN /\ undeleted \in BOOLEAN
  /\ attempts \in 0 .. MaxAttempts

\* The namespace is complete.
Complete == Whole \subseteq made /\ (Binding # 0 => binding)

\* What is there of the templates is a beginning of them, without a gap.
NoGap == \A i \in made : (1 .. i) \ {Binding} \subseteq made

\* A job starts in a namespace that has everything the templates put there,
\* the binding included: a namespace is taken as it is by an attempt that
\* finds one (ensureNamespacePresence), but only a crash, or a deletion that
\* failed, leaves one that createNamespace did not get to the end of.  Even
\* then no object is there without those that come before it, however many
\* attempts were made at it and wherever they stopped.
JobInWholeNamespace ==
  job # "none" /\ ns = "active" => NoGap /\ (~untidy => Complete)

\* When a session is over its namespace goes, on every path out of run, unless
\* its own deletion of it failed: what earlier attempts left goes as well.
\* Unless a deletion failed or a manager died, also before the attempt, the
\* binding is gone too and nothing stays behind (runningCleanup).
NothingLeft ==
  pc = "returned" =>
    /\ ns = "active" => undeleted
    /\ ~untidy => ns # "active" /\ ~binding

\* What the cluster holds at each point of an attempt as long as nothing went
\* wrong before.
Tidy ==
  /\ pc \in {"idle", "getns", "returned"} \/ (pc = "create" /\ item = 1) =>
       ns # "active" /\ ~binding
  /\ pc = "create" /\ item > 1 =>
       /\ Binding \in 1 .. item - 1 => binding
       /\ Binding \notin 1 .. item - 1 => ~binding
  /\ pc \in {"getjob", "createjob", "watch", "pull"} /\ ns = "active" => Complete
  /\ pc \in {"getjob", "createjob", "watch", "pull", "delns"} /\ ns # "active" =>
       ~binding
  /\ pc = "delbinding" => ns # "active"

\* What createNamespace has made so far, whatever went wrong before.
Creating ==
  pc = "create" /\ item > 1 =>
    ns = "active" /\ job = "none" /\ made = (1 .. item - 1) \ {Binding}

\* What is behind the deletion of the namespace.
GivenUp == pc \in {"delbinding", "returned"} /\ ns = "active" => undeleted

\* The inductive invariant.
IInv ==
  /\ TypeOK
  /\ ns = "absent" => job = "none"
  /\ pc = "getns" => item = 1
  /\ NoGap
  /\ Creating
  /\ GivenUp
  /\ ~untidy => Tidy
  /\ JobInWholeNamespace

\* Whatever crashes leave behind and whichever requests fail, the attempts
\* of the janitor end with the namespace deleted, unless the very last
\* deletion failed: nobody repeats it (the binding is another matter: see the
\* README).
NamespaceGoes == <>[](undeleted \/ (ns = "absent" /\ made = {} /\ job = "none"))

=============================================================================
