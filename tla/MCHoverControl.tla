--------------------------- MODULE MCHoverControl ---------------------------
(***************************************************************************)
(* Instances of HoverControl for TLC.                                      *)
(***************************************************************************)
EXTENDS HoverControl

\* A value below the ESC's range, one inside and one above it.
AnyPulse == {9, 15, 25}
=============================================================================
