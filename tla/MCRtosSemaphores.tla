--------------------------- MODULE MCRtosSemaphores ---------------------------
(***************************************************************************)
(* Instances of RtosSemaphores for TLC: three tasks of three priorities,   *)
(* the bus mutex with the driver's mutex under it, and a mutex of its own. *)
(***************************************************************************)
EXTENDS RtosSemaphores

CONSTANTS low, middle, high, i2c_mx, driver_mx

Priorities == [t \in Tasks |-> CASE t = low -> 1 [] t = middle -> 2 [] OTHER -> 3]

DriverUnderBus == [m \in {driver_mx} |-> i2c_mx]
NoneInner == [m \in {} |-> i2c_mx]
=============================================================================
