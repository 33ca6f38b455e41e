------------------------ MODULE JudgeNamespaceProofs ------------------------
(***************************************************************************)
(* What JudgeNamespace promises, for any templates, any number of attempts *)
(* and whether or not requests to Kubernetes fail.                         *)
(***************************************************************************)
EXTENDS JudgeNamespace, TLAPS

USE NamespaceAssumption DEF NamespaceAssumption, history

\* Nothing is there when the first attempt begins.
LEMMA InitIInv == Init => IInv
<1> SUFFICES ASSUME Init
             PROVE  IInv
  OBVIOUS
<1>1. TypeOK
  <2>1. binding \in BOOLEAN /\ err \in BOOLEAN
        /\ untidy \in BOOLEAN /\ undeleted \in BOOLEAN
    BY Zenon DEF Init
  <2>2. item \in 1 .. Objects + 1 /\ attempts \in 0 .. MaxAttempts
    BY DEF Init
  <2> QED
    BY <2>1, <2>2 DEF Init, TypeOK, PCs
<1>2. Tidy /\ NoGap /\ Creating /\ GivenUp /\ JobInWholeNamespace /\ job = "none"
  BY DEF Init, Tidy, NoGap, Creating, GivenUp, JobInWholeNamespace
<1> QED
  BY <1>1, <1>2 DEF Init, IInv

-----------------------------------------------------------------------------
(***************************************************************************)
(* One lemma per group of actions.                                         *)
(***************************************************************************)

\* The Boolean variables are only ever set to TRUE or FALSE.
LEMMA Booleans ==
  ASSUME TypeOK, Next
  PROVE  binding' \in BOOLEAN /\ err' \in BOOLEAN /\ untidy' \in BOOLEAN
        /\ undeleted' \in BOOLEAN
<1> USE DEF TypeOK, cluster, Fails
<1>1. CASE Begin \/ GetNamespace \/ GetJob \/ Watch \/ PullEnds \/ Crash
  BY <1>1, Zenon DEF Begin, GetNamespace, GetJob, Watch, PullEnds, Crash
<1>2. CASE CreateItem \/ CreateJob
  BY <1>2, Zenon DEF CreateItem, Creates, CreateJob
<1>3. CASE Quit \/ DeleteNamespace \/ DeleteBinding
  BY <1>3, Zenon DEF Quit, DeletesAll, DeleteNamespace, DeleteBinding
<1>4. CASE Finalize \/ JobProceeds
  BY <1>4, Zenon DEF Finalize, JobProceeds
<1> QED
  BY <1>1, <1>2, <1>3, <1>4, Zenon DEF Next, Attempt

\* Kubernetes only removes a namespace that was given up, and moves a job
\* on that is there.
LEMMA KubernetesIInv ==
  ASSUME IInv, Finalize \/ JobProceeds
  PROVE  IInv'
<1> USE DEF IInv, TypeOK, Tidy, NoGap, Creating, GivenUp,
            JobInWholeNamespace, Complete, Whole, PCs
<1>1. CASE Finalize
  BY <1>1 DEF Finalize
<1>2. CASE JobProceeds
  BY <1>2 DEF JobProceeds
<1> QED
  BY <1>1, <1>2

\* Looking changes nothing; what was found decides where the attempt goes.
LEMMA LookIInv ==
  ASSUME IInv, Begin \/ GetNamespace \/ GetJob \/ Watch \/ PullEnds \/ Crash
  PROVE  IInv'
<1> USE DEF IInv, TypeOK, Tidy, NoGap, Creating, GivenUp,
            JobInWholeNamespace, Complete, Whole, PCs,
            cluster, Fails
<1>0. binding' \in BOOLEAN /\ err' \in BOOLEAN /\ untidy' \in BOOLEAN
        /\ undeleted' \in BOOLEAN
  BY Booleans DEF Next, Attempt
<1>1. CASE Begin
  BY <1>0, <1>1 DEF Begin
<1>2. CASE GetNamespace
  BY <1>0, <1>2 DEF GetNamespace
<1>3. CASE GetJob
  BY <1>3 DEF GetJob
<1>4. CASE Watch
  BY <1>4 DEF Watch
<1>5. CASE PullEnds
  BY <1>5 DEF PullEnds
<1>6. CASE Crash
  BY <1>6 DEF Crash
<1> QED
  BY <1>1, <1>2, <1>3, <1>4, <1>5, <1>6

\* createNamespace works through the objects in order: what exists is what
\* comes before the object it is at.
LEMMA CreateItemIInv ==
  ASSUME IInv, CreateItem
  PROVE  IInv'
<1> USE DEF IInv, TypeOK, Whole, PCs, cluster, Fails
<1>0. binding' \in BOOLEAN /\ err' \in BOOLEAN /\ untidy' \in BOOLEAN
        /\ undeleted' \in BOOLEAN
  BY Booleans DEF Next, Attempt
<1>1. TypeOK'
  <2>1. made' \subseteq Whole /\ (ns' = "absent" => made' = {})
    <3>1. CASE UNCHANGED cluster
      BY <3>1
    <3>2. CASE Creates(item)
      <4>1. 1 \in Whole
        OBVIOUS
      <4> QED
        BY <3>2, <4>1 DEF Creates
    <3> QED
      BY <3>1, <3>2 DEF CreateItem
  <2>2. /\ ns' \in {"absent", "active", "terminating"}
        /\ job' \in {"none", "waiting", "ready", "ended"}
        /\ pc' \in PCs /\ attempts' = attempts
    BY DEF CreateItem, Creates
  <2>3. item' \in 1 .. Objects + 1 /\ (pc' = "create" => item' <= Objects)
    BY DEF CreateItem
  <2> QED
    BY <1>0, <2>1, <2>2, <2>3
<1>2. (ns = "absent" => job = "none")' /\ (pc = "getns" => item = 1)'
  BY DEF CreateItem, Creates
<1>3. Creating' /\ NoGap'
  <2>1. CASE UNCHANGED cluster /\ (pc' # "create")
    BY <2>1 DEF CreateItem, Fails, Creating, NoGap
  <2>2. CASE Creates(item) /\ item = 1
    <3>1. made' = {1} /\ ns' = "active" /\ job' = "none" /\ item' \in {1, 2}
          /\ 1 # Binding
      BY <2>2 DEF CreateItem, Creates
    <3> QED
      BY <3>1 DEF Creating, NoGap
  <2>3. CASE Creates(item) /\ item = Binding
    BY <2>3 DEF CreateItem, Creates, Creating, NoGap
  <2>4. CASE Creates(item) /\ item \in Whole \ {1}
    <3>1. /\ made = (1 .. item - 1) \ {Binding} /\ ns = "active" /\ job = "none"
          /\ made' = made \union {item} /\ ns' = ns /\ job' = job
          /\ item # Binding /\ item \in 1 .. Objects
      BY <2>4 DEF CreateItem, Creates, Creating
    <3>2. made' = (1 .. item) \ {Binding}
      BY <3>1
    <3>3. item' = item + 1 \/ pc' # "create"
      BY <2>4 DEF CreateItem
    <3> QED
      BY <3>1, <3>2, <3>3 DEF Creating, NoGap
  <2> QED
    BY <2>1, <2>2, <2>3, <2>4 DEF CreateItem, Creates
<1>4. (~untidy => Tidy)'
  <2> SUFFICES ASSUME ~untidy
               PROVE  Tidy'
    BY DEF CreateItem
  <2>1. CASE ~Creates(item)
    BY <2>1 DEF CreateItem, Creating, Tidy
  <2>2. CASE Creates(item) /\ item = 1
    BY <2>2 DEF CreateItem, Creates, Creating, Tidy, Complete
  <2>3. CASE Creates(item) /\ item = Binding
    BY <2>3 DEF CreateItem, Creates, Creating, Tidy, Complete
  <2>4. CASE Creates(item) /\ item \in Whole \ {1}
    BY <2>4 DEF CreateItem, Creates, Creating, Tidy, Complete
  <2> QED
    BY <2>1, <2>2, <2>3, <2>4 DEF CreateItem
<1>5. JobInWholeNamespace'
  BY <1>3 DEF CreateItem, Creates, JobInWholeNamespace, Complete, Creating, Tidy
<1>6. GivenUp'
  BY DEF CreateItem, GivenUp
<1> QED
  BY <1>1, <1>2, <1>3, <1>4, <1>5, <1>6

\* The job is created in the namespace the attempt found or made.
LEMMA CreateJobIInv ==
  ASSUME IInv, CreateJob
  PROVE  IInv'
BY DEF IInv, TypeOK, Tidy, NoGap, Creating, GivenUp, JobInWholeNamespace,
       Complete, Whole, PCs, CreateJob, Fails

\* A deletion that does not fail leaves nothing: one that finds no
\* namespace skips the binding, but then there is none.
LEMMA DeletionIInv ==
  ASSUME IInv, Quit \/ DeleteNamespace \/ DeleteBinding
  PROVE  IInv'
<1> USE DEF IInv, TypeOK, Tidy, NoGap, Creating, GivenUp,
            JobInWholeNamespace, Complete, Whole, PCs,
            cluster, Deleted
<1>0. binding' \in BOOLEAN /\ err' \in BOOLEAN /\ untidy' \in BOOLEAN
        /\ undeleted' \in BOOLEAN
  BY Booleans DEF Next, Attempt
<1>1. CASE Quit
  BY <1>0, <1>1 DEF Quit, DeletesAll
<1>2. CASE DeleteNamespace
  BY <1>2 DEF DeleteNamespace
<1>3. CASE DeleteBinding
  BY <1>3 DEF DeleteBinding
<1> QED
  BY <1>1, <1>2, <1>3

-----------------------------------------------------------------------------
\* The inductive invariant of the attempts at one solution holds throughout.
THEOREM Invariance == Spec => []IInv
<1>1. IInv /\ [Next]_vars => IInv'
  <2> SUFFICES ASSUME IInv, [Next]_vars
               PROVE  IInv'
    OBVIOUS
  <2>1. CASE UNCHANGED vars
    BY <2>1 DEF vars, IInv, TypeOK, Tidy, NoGap, Creating, GivenUp,
                JobInWholeNamespace, Complete
  <2>2. CASE Next
    BY <2>2, KubernetesIInv, LookIInv, CreateItemIInv, CreateJobIInv,
       DeletionIInv DEF Next, Attempt
  <2> QED
    BY <2>1, <2>2
<1> QED
  BY <1>1, InitIInv, PTL DEF Spec

\* Every variable keeps its type.
THEOREM TypeCorrect == Spec => []TypeOK
<1>1. IInv => TypeOK
  BY DEF IInv
<1> QED
  BY <1>1, Invariance, PTL

\* As long as nothing crashed and no deletion failed, a job is only ever in
\* a namespace that has all the templates put there, even if requests fail,
\* the program quits or the solution is judged again; and whatever crashed or
\* failed, it is in one that lacks no object before one it has.
THEOREM JobsInWholeNamespaces == Spec => []JobInWholeNamespace
<1>1. IInv => JobInWholeNamespace
  BY DEF IInv
<1> QED
  BY <1>1, Invariance, PTL

\* A session that is over leaves no active namespace unless its own deletion
\* of it failed, whatever happened before and whichever way run() was left;
\* as long as nothing crashed and no deletion failed, no binding either.
THEOREM NothingIsLeft == Spec => []NothingLeft
<1>1. IInv => NothingLeft
  BY DEF IInv, Tidy, GivenUp, NothingLeft
<1> QED
  BY <1>1, Invariance, PTL

=============================================================================
