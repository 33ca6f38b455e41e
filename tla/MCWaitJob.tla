----------------------------- MODULE MCWaitJob -----------------------------
(***************************************************************************)
(* Two pods.  With one of them required, one may be deleted, and counted,  *)
(* before the other is there, and be listed while it is being created.     *)
(***************************************************************************)
EXTENDS WaitJob

=============================================================================
