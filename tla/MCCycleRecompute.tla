--------------------------- MODULE MCCycleRecompute ---------------------------
(* An instance of CycleRecompute.                                          *)
EXTENDS CycleRecompute

\* The tick alone, with ingest running ahead of the cursor, a loader's marks and a failure;
\* and a rebuild over the history in slices beside it, where ingest runs no further ahead of
\* the cursor than the lookback.
MCBudgets ==
  {[until |-> 5, ahead |-> 5, demands |-> 0, marks |-> 2, faults |-> 1],
   [until |-> 5, ahead |-> 1, demands |-> 1, marks |-> 1, faults |-> 1]}
===============================================================================
