----------------------------- MODULE MCLogPull -----------------------------
(***************************************************************************)
(* A few programs: one that is well-behaved, one that asks to be killed    *)
(* before its end, one that fails, one that ends in the middle of a line.  *)
(* Two clock ticks make a second.                                          *)
(***************************************************************************)
EXTENDS LogPull

MCScripts ==
  { <<"plain", "plain", "complete">>,
    <<"plain", "quit", "plain">>,
    <<"plain", "bad", "plain">>,
    <<"plain", "plain", "tail">> }

=============================================================================
