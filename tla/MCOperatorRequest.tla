--------------------------- MODULE MCOperatorRequest ---------------------------
(* A small instance of OperatorRequest for TLC. *)
EXTENDS OperatorRequest
=============================================================================
