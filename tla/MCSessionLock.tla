--------------------------- MODULE MCSessionLock ---------------------------
(***************************************************************************)
(* Three sessions for one solution, two of them on the same manager: the   *)
(* smallest instance in which a key can be confused with that of another   *)
(* session of the same manager, and with that of another manager.          *)
(* Times are in minutes.                                                   *)
(***************************************************************************)
EXTENDS SessionLock, TLC

CONSTANTS s1, s2, s3, m1, m2

MCMgr == s1 :> m1 @@ s2 :> m1 @@ s3 :> m2

=============================================================================
