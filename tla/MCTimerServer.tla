--------------------------- MODULE MCTimerServer ---------------------------
(***************************************************************************)
(* Two requests, one name, and a clock that leaves room for a time that is *)
(* too far away.                                                           *)
(***************************************************************************)
EXTENDS TimerServer

=============================================================================
