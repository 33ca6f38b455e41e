------------------------------ MODULE Judging ------------------------------
(***************************************************************************)
(* What judging a solution on several points promises to the judger: each  *)
(* report is given one message more than the one before, a whole judging   *)
(* has settled every point before it ends, and once it is stopped only a   *)
(* limited number of points can still be settled.                          *)
(***************************************************************************)
EXTENDS Naturals, Sequences, SequencesExt

CONSTANTS Points,     \* what the solution is judged on
          LateLimit   \* how many points may be settled after a stop

VARIABLES reports,  \* the points reported so far, in order
          dropped,  \* the points that ended without a message
          outcome,  \* "open", "skipped", "whole" or "stopped"
          left      \* how many more may be settled after a stop

vars == <<reports, dropped, outcome, left>>

Settled == ToSet(reports) \union dropped

Init ==
  /\ reports = <<>>
  /\ dropped = {}
  /\ outcome = "open"
  /\ left = LateLimit

\* Points are settled in any order, after a stop only a few.
MaySettle(p) ==
  /\ p \in Points \ Settled
  /\ \/ outcome = "open" /\ UNCHANGED left
     \/ outcome = "stopped" /\ left > 0 /\ left' = left - 1
  /\ UNCHANGED outcome

Report(p) ==
  /\ MaySettle(p)
  /\ reports' = Append(reports, p)
  /\ UNCHANGED dropped

Drop(p) ==
  /\ MaySettle(p)
  /\ dropped' = dropped \union {p}
  /\ UNCHANGED reports

\* Nothing is judged at all.
Skip ==
  /\ outcome = "open" /\ Settled = {}
  /\ outcome' = "skipped"
  /\ UNCHANGED <<reports, dropped, left>>

\* The judging ends with every point settled.
Conclude ==
  /\ outcome = "open" /\ Settled = Points
  /\ outcome' = "whole"
  /\ UNCHANGED <<reports, dropped, left>>

\* The judging is stopped.
Stop ==
  /\ outcome = "open"
  /\ outcome' = "stopped"
  /\ left' \in 0 .. LateLimit
  /\ UNCHANGED <<reports, dropped>>

Next ==
  \/ \E p \in Points : Report(p) \/ Drop(p)
  \/ Skip \/ Conclude \/ Stop

Spec == Init /\ [][Next]_vars

=============================================================================
