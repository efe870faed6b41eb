---------------------------- MODULE MCSessionLease ----------------------------
(* A small instance of SessionLease for TLC. *)
EXTENDS SessionLease, TLC

CONSTANTS a, b, k1, k2

\* b is another resource than the rest of the scopes.
MCConflictKeyOf == [r \in Scope |-> IF r = b THEN k2 ELSE k1]

HandlerSymmetry == Permutations(Handler)
=============================================================================
