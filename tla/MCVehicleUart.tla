----------------------------- MODULE MCVehicleUart -----------------------------
(***************************************************************************)
(* Instances of VehicleUart for TLC: answers shorter than stream values.   *)
(***************************************************************************)
EXTENDS VehicleUart

Lengths == [t \in Tasks |-> IF t = Uart THEN 2 ELSE 3]
=============================================================================
