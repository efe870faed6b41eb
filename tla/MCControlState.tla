----------------------------- MODULE MCControlState ----------------------------
(* A small instance of ControlState for TLC. *)
EXTENDS ControlState, TLC

HandlerSymmetry == Permutations(Handler)
=============================================================================
