------------------------------ MODULE MCUbler ------------------------------
(* Model-checking instance of Ubler: two orders from a restaurant that    *)
(* keeps its orders straight.                                              *)
EXTENDS Ubler, TLC

CONSTANTS u1, u2, u3, cA, cB, mA, mB

MC_Drivers   == {u1, u2, u3}
MC_Customers == {cA, cB}
MC_Meals     == {mA, mB}
MC_MealOf    == (cA :> mA) @@ (cB :> mB)
\* meal->customer as set up by a restaurant that keeps its orders straight
MC_Straight  == (mA :> cA) @@ (mB :> cB)
\* the mix-up of ubler.c's header comment: meal A points to customer B and
\* back (ExclusivePickup fails with it)
MC_Mixed     == (mA :> cB) @@ (mB :> cA)

=============================================================================
