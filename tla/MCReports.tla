------------------------------ MODULE MCReports -------------------------------
(***************************************************************************)
(* Shift reports and the calendar their shifts come from.  The two share   *)
(* no state, so a behaviour moves only the one chosen when it starts.      *)
(***************************************************************************)
EXTENDS ReportOutbox, Shifts

VARIABLE moving         \* the part that moves in this behaviour

MCInit ==
  /\ moving \in {"reports", "shifts"}
  /\ Init /\ ShiftInit

MCNext ==
  /\ UNCHANGED moving
  /\ \/ moving = "reports" /\ Next /\ UNCHANGED shVars
     \/ moving = "shifts" /\ ShiftNext /\ UNCHANGED vars

MCSpec == MCInit /\ [][MCNext]_<<moving, vars, shVars>>
===============================================================================
