-------------------------- MODULE MCControlChannel --------------------------
(* Bounded instances of ControlChannel. *)
EXTENDS ControlChannel
=============================================================================
