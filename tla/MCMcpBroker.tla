------------------------------ MODULE MCMcpBroker ------------------------------
(* A small instance of McpBroker for TLC. *)
EXTENDS McpBroker

HandlerSymmetry == Permutations(Handler)
=============================================================================
