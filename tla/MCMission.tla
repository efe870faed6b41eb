------------------------------- MODULE MCMission -------------------------------
(* A small instance of Mission for TLC: two workers, the second one spawned *)
(* by the first.                                                            *)
EXTENDS Mission, TLC

CONSTANTS w1, w2

Report(mcp, w, status, parent) ==
  [mcp |-> mcp, worker |-> w, status |-> status, parent |-> parent]

\* Every status a mission can have, and one update through the tool.
MixedUpdates ==
  {Report(FALSE, w1, status, NoWorker) : status \in {"running", "failed", "completed"}}
    \cup {Report(FALSE, w2, "waiting_approval", w1), Report(TRUE, w2, "completed", w1)}

HandlerSymmetry == Permutations(Handler)
=============================================================================
