------------------------------- MODULE Lease -------------------------------
(***************************************************************************)
(* What the judge lock of one solution promises to the judge sessions: an  *)
(* exclusive lease.  A client that gets the lease keeps it until it gives  *)
(* it back.  Only a client that is gone (it gave up, its process died, or  *)
(* the goroutine that keeps its lease alive did) may lose the lease        *)
(* without giving it back.                                                 *)
(***************************************************************************)

CONSTANTS Clients,   \* everyone who may ever ask for the lease
          NoOne      \* the holder of a free lease: no client

VARIABLES holder,    \* the client that has the lease, or NoOne
          gone       \* clients that will never again defend a lease

vars == <<holder, gone>>

Init == /\ holder = NoOne
        /\ gone = {}

\* A client takes a free lease.
Acquire(c) ==
  /\ holder = NoOne
  /\ c \notin gone
  /\ holder' = c
  /\ UNCHANGED gone

\* A client takes a free lease and is not told that it did.
AcquireUnaware(c) ==
  /\ holder = NoOne
  /\ c \notin gone
  /\ holder' = c
  /\ gone' = gone \union {c}

\* The holder, and nobody else, gives the lease back and is done with it.
Release(c) ==
  /\ holder = c
  /\ c \notin gone
  /\ holder' = NoOne
  /\ gone' = gone \union {c}

\* Clients give up or die, possibly several at once (they share a process).
Leave(C) ==
  /\ gone' = gone \union C
  /\ UNCHANGED holder

\* A lease runs out under a client that is gone, and under no other.
Lapse(c) ==
  /\ holder = c
  /\ c \in gone
  /\ holder' = NoOne
  /\ UNCHANGED gone

Next ==
  \/ \E c \in Clients :
       Acquire(c) \/ AcquireUnaware(c) \/ Release(c) \/ Lapse(c)
  \/ \E C \in SUBSET Clients : Leave(C)

Spec == Init /\ [][Next]_vars

=============================================================================
