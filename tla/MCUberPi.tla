------------------------------ MODULE MCUberPi ------------------------------
(* Model-checking instance of UberPi: passengers are model values.        *)
EXTENDS UberPi, TLC

CONSTANTS q1, q2, q3

MC_Passengers == {q1, q2, q3}

=============================================================================
