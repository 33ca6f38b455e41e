------------------------------ MODULE SetSizes ------------------------------
(***************************************************************************)
(* How a step may change a finite set, and what that does to its size:     *)
(* sets of live runs, awake loops and busy workers are counted against     *)
(* counters that the program keeps.                                        *)
(***************************************************************************)
EXTENDS Integers, FiniteSets, FiniteSetTheorems, TLAPS

Same(old, new)     == new = old
Joins(x, old, new) == x \notin old /\ new = old \union {x}
Parts(x, old, new) == x \in old /\ new = old \ {x}

\* What the three kinds of change do to the size of a finite set.
LEMMA SizeChange ==
  ASSUME NEW S, IsFiniteSet(S), NEW T, NEW x
  PROVE  /\ Cardinality(S) \in Nat
         /\ Same(S, T) => IsFiniteSet(T) /\ Cardinality(T) = Cardinality(S)
         /\ Joins(x, S, T) =>
              IsFiniteSet(T) /\ Cardinality(T) = Cardinality(S) + 1
         /\ Parts(x, S, T) =>
              IsFiniteSet(T) /\ Cardinality(T) = Cardinality(S) - 1
BY FS_CardinalityType, FS_AddElement, FS_RemoveElement DEF Same, Joins, Parts

=============================================================================
