---------------------------- MODULE MCMultiPoint ----------------------------
(***************************************************************************)
(* Four points on two workers: more points than the workers and the one    *)
(* late job can settle after a stop.                                       *)
(***************************************************************************)
EXTENDS MultiPoint

=============================================================================
