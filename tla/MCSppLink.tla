------------------------------ MODULE MCSppLink ------------------------------
(***************************************************************************)
(* Instances of SppLink for TLC.                                           *)
(***************************************************************************)
EXTENDS SppLink, TLC

CONSTANTS c1, c2, c3, c4

\* One vehicle with two properties: the flight software's list id is 0.
OneList == [c \in Clients |-> <<"imu", "esc_pwm">>]
AllZero == [c \in Clients |-> 0]

\* Three vehicles of one kind, and one of another kind.
FleetList == [c \in Clients |-> IF c = c3 THEN <<"lidar">> ELSE <<"imu", "esc_pwm">>]
FleetId == [c \in Clients |-> IF c = c3 THEN 1 ELSE 0]

\* The vehicles of one kind are interchangeable.
SameKind == Permutations(Clients \ {c3})
=============================================================================
