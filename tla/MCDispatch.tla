----------------------------- MODULE MCDispatch ------------------------------
(***************************************************************************)
(* Instances of Dispatch for TLC: two processes on one run.                *)
(***************************************************************************)
EXTENDS Dispatch, TLC

CONSTANTS p1, p2

\* The run is resumed by the same process over and over, under one budget, or by
\* a second one with a larger budget.
SameBudget == [p \in Proc |-> 2]
RaisedBudget == p1 :> 1 @@ p2 :> 3
==============================================================================
