---------------------------- MODULE MCControlQueue ----------------------------
(* Small instances of ControlQueue for TLC. *)
EXTENDS ControlQueue, TLC

CONSTANTS a, k1, c1, d1, d2, l1, l2, s1

MCConflictKeyOf == [r \in Scope |-> k1]

Ask(d, action) ==
  [command |-> c1, dedup |-> d, session |-> s1, lease |-> l1, scope |-> a,
   action |-> action, explicit |-> TRUE, keyOk |-> TRUE]

\* One command, submitted as a write, as an asynchronous check, as a template
\* mutation and with a conflict key that is not the scope's.
MixedRequests == {Ask(d1, "github_write"), Ask(d2, "browser_check"),
                  Ask(d1, "template_mutation"),
                  [Ask(d2, "github_write") EXCEPT !.keyOk = FALSE]}

\* Requests for one action only.
Only(action) == {q \in {Ask(d1, other) : other \in Action} : q.action = action}

CheckRequests  == Only("browser_check")
DeployRequests == Only("deploy_live")

\* A check, and a deploy that the guardrail refuses.
RefusedRequests == CheckRequests \cup
                   {[Ask(d1, "deploy_live") EXCEPT !.explicit = FALSE]}

HandlerSymmetry == Permutations(Handler)

\* No guard reads the log, and the properties of the queue only ask which statuses
\* it holds: states that differ in the order or number of the events are one.
StatusesLogged == [c \in CommandId |-> {events[c][i].status : i \in DOMAIN events[c]}]

QueueView == <<storeVars, commands, StatusesLogged, dedup, approvals, call, started,
               changed, approvedUntil, queue, job>>
=============================================================================
