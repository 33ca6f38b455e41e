------------------------------- MODULE Leases -------------------------------
(***************************************************************************)
(* What the judge locks promise to everyone who judges: a table of leases, *)
(* one per item.  It is what the managers rely on (JudgeManager) and what  *)
(* the lock of one solution, in time, provides (SessionLock).              *)
(*                                                                         *)
(* A client that takes a free lease keeps it until it gives it back or     *)
(* abandons it; an abandoned lease stays taken, kept by nobody, until it   *)
(* lapses.  No lease passes from one client to another without being free  *)
(* in between, and none lapses under a client that keeps it.               *)
(***************************************************************************)

CONSTANTS Items,     \* what there is a lease for
          Clients    \* everyone who may ask for a lease

VARIABLES taken,     \* the items whose lease is not free
          keepers    \* who keeps the lease of each item

vars == <<taken, keepers>>

Init == /\ taken = {}
        /\ keepers = [i \in Items |-> {}]

\* A client takes a free lease.
Acquire(i, c) ==
  /\ i \notin taken
  /\ taken' = taken \union {i}
  /\ keepers' = [keepers EXCEPT ![i] = {c}]

\* A client takes a free lease and is not told that it did.
AcquireUnaware(i) ==
  /\ i \notin taken
  /\ taken' = taken \union {i}
  /\ UNCHANGED keepers

\* Its only keeper gives a lease back.
Release(i, c) ==
  /\ i \in taken /\ keepers[i] = {c}
  /\ taken' = taken \ {i}
  /\ keepers' = [keepers EXCEPT ![i] = {}]

\* Clients give up or die, several at once when they share a process: what
\* they kept stays taken.
Abandon(C) ==
  /\ keepers' = [i \in Items |-> keepers[i] \ C]
  /\ UNCHANGED taken

\* A lease that nobody keeps runs out.
Lapse(i) ==
  /\ i \in taken /\ keepers[i] = {}
  /\ taken' = taken \ {i}
  /\ UNCHANGED keepers

Next ==
  \/ \E i \in Items :
       \/ \E c \in Clients : Acquire(i, c) \/ Release(i, c)
       \/ AcquireUnaware(i) \/ Lapse(i)
  \/ \E C \in SUBSET Clients : Abandon(C)

Spec == Init /\ [][Next]_vars

=============================================================================
