----------------------------- MODULE MCDispatch -----------------------------
(* Model-checking instance of Dispatch: driver threads are model values.  *)
EXTENDS Dispatch, TLC

CONSTANTS d1, d2, d3

MC_Drivers == {d1, d2, d3}

=============================================================================
