---------------------------- MODULE MCControlInputs ----------------------------
(***************************************************************************)
(* Instance of ControlInputs for TLC; the bounds are in the configuration. *)
(***************************************************************************)
EXTENDS ControlInputs
=============================================================================
