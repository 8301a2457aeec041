---------------------- MODULE MCPositionReconciliation ----------------------
(* Model checking of PositionReconciliation: two shares by hand are unexpected   *)
(* beside an empty ledger, beyond the tolerance of one share at 50 expected, and *)
(* just within the tolerance of 2% at 100.                                       *)
EXTENDS PositionReconciliation

MCFillSteps == {50}
MCHandQuantities == {0, 2}
==============================================================================
