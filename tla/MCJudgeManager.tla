--------------------------- MODULE MCJudgeManager ---------------------------
(***************************************************************************)
(* Small instances of JudgeManager.  Managers, solutions and run slots are *)
(* interchangeable (BadConfig is empty where the symmetry is used).        *)
(***************************************************************************)
EXTENDS JudgeManager, TLC

Symmetry ==
  Permutations(Managers) \union Permutations(Solutions) \union Permutations(Runs)

=============================================================================
