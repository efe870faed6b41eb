---------------------------- MODULE MCCommandKernel ----------------------------
(* Small instances of CommandKernel for TLC. *)
EXTENDS CommandKernel, TLC

CONSTANTS a, b, k1, k2, c1, d1, l1, l2, l3, s1

MCConflictKeyOf == [r \in Scope |-> IF r = b THEN k2 ELSE k1]

Ask(c, d, l, action, explicit) ==
  [command |-> c, dedup |-> d, session |-> s1, lease |-> l, scope |-> a,
   action |-> action, explicit |-> explicit, keyOk |-> TRUE]

\* One command, submitted as a write or as a live deploy that needs an approval,
\* under one lease; two other leases compete for the resource.
RivalRequests ==
  {Ask(c1, d1, l1, "github_write", FALSE), Ask(c1, d1, l1, "deploy_live", FALSE)}

KernelSymmetry == Permutations(Handler) \cup Permutations({l2, l3})
=============================================================================
