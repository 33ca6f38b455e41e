------------------------------- MODULE JobEnv -------------------------------
(***************************************************************************)
(* The environment of the judge job (createJob of internal/manager/        *)
(* running.go): in every container of the job template a variable          *)
(* SOLUTION_URL is unset, and then set to the URL of the solution.  The    *)
(* loop over the containers takes the index of the container for that of   *)
(* the variable.                                                           *)
(***************************************************************************)
EXTENDS Integers, Sequences, SequencesExt

CONSTANTS Templates,  \* job templates: for each container its variables
          VarName     \* SOLUTION_URL

VARIABLES template,  \* the job template of this solution
          envs,      \* the variables of the job, as rewritten so far
          k,         \* the container the loop is at
          pc         \* "loop", "created", "panicked"

vars == <<template, envs, k, pc>>

Init ==
  /\ template \in Templates
  /\ envs = template
  /\ k = 1
  /\ pc = "loop"

\* The container's variables with SOLUTION_URL set at the end.
SetLast(env) == envs' = [envs EXCEPT ![k] = Append(env, VarName)]

\* A container without the variable: it is appended.
SetNew ==
  /\ pc = "loop" /\ k <= Len(envs) /\ VarName \notin ToSet(envs[k])
  /\ SetLast(envs[k])
  /\ k' = k + 1
  /\ UNCHANGED <<template, pc>>

\* A container with it: variable number k is removed, if there are as many.
Replace ==
  /\ pc = "loop" /\ k <= Len(envs) /\ VarName \in ToSet(envs[k])
  /\ IF k <= Len(envs[k])
       THEN SetLast(RemoveAt(envs[k], k)) /\ k' = k + 1 /\ UNCHANGED pc
       ELSE pc' = "panicked" /\ UNCHANGED <<envs, k>>
  /\ UNCHANGED template

\* The job is created.
CreateJob ==
  /\ pc = "loop" /\ k > Len(envs)
  /\ pc' = "created"
  /\ UNCHANGED <<template, envs, k>>

Next == SetNew \/ Replace \/ CreateJob

Spec == Init /\ [][Next]_vars
-----------------------------------------------------------------------------
\* The comment in createJob: "Unset if exists".  Each container that the loop
\* has passed has the variable once, and its others as the template has them;
\* and the loop gets through every template.
UnsetIfExists ==
  /\ pc # "panicked"
  /\ \A c \in 1 .. k - 1 :
       envs[c] = Append(SelectSeq(template[c], LAMBDA v : v # VarName), VarName)

=============================================================================
