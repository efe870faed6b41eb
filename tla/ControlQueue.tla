------------------------------ MODULE ControlQueue ------------------------------
(***************************************************************************)
(* The control queue around the command services: the HTTP routes that     *)
(* make calls and enqueue what was queued, and processControlQueueBatch,   *)
(* which consumes the messages.                                            *)
(*                                                                         *)
(* The queue delivers at least once and in any order; a message carries     *)
(* the number of its delivery.  After MaxAttempts deliveries the platform   *)
(* moves it to the dead-letter queue, which no code reads.  Operator        *)
(* requests, projections and notifications are only sources of failure      *)
(* here: their updates change nothing the commands depend on.              *)
(***************************************************************************)
EXTENDS CommandKernel, Bags

CONSTANTS
  MaxAttempts,   \* MAX_QUEUE_ATTEMPTS; also max_retries + 1 of wrangler.toml
  Failures       \* the failures that may happen

ASSUME ControlQueueAssumption ==
  /\ MaxAttempts \in Nat \ {0}
  /\ Failures \subseteq {"store", "evicted", "browser", "sync", "batch"}

VARIABLES
  queue,         \* bag of the messages waiting for delivery
  job            \* what each handler is there for

allVars == <<vars, queue, job>>

Kind == {"retry-command", "execute-command", "browser-evidence-postprocess"}

Message == [kind : Kind, command : CommandId, attempts : 1..MaxAttempts]

\* The routes and tools by what they enqueue when the command comes back queued;
\* each one that enqueues nothing is "other".
Route == {"submit", "submit_command", "approve", "retry", "requeue", "other"}

\* The statement processControlQueueBatch has reached with the message.
Stage == {"retry", "exhaust", "execute", "complete", "sync", "catch"}

NoJob == [role |-> "none"]

Job == [role : {"none"}] \cup [role : {"client"}, route : Route]
         \cup [role : {"consumer"}, msg : Message, stage : Stage]

InitQueue ==
  /\ Init
  /\ queue = EmptyBag
  /\ job = [h \in Handler |-> NoJob]

\* Mutant: deliveries are counted from zero.
NewFromZero(kind, c) == [kind |-> kind, command |-> c, attempts |-> 0]

New(kind, c) == [kind |-> kind, command |-> c, attempts |-> 1]

Sent(m) == queue (+) SetToBag({m})

\* What is in the queue once these messages have come back from a delivery:
\* after the last one they go to the dead-letter queue instead.
Redelivered(msgs, from) ==
  from (+) SetToBag({[m EXCEPT !.attempts = @ + 1] :
                       m \in {x \in msgs : x.attempts < MaxAttempts}})
-----------------------------------------------------------------------------
(***************************************************************************)
(* Clients.                                                                *)
(***************************************************************************)
Serve(h, route, c) ==
  /\ job[h] = NoJob
  /\ Begin(h, c)
  /\ job' = [job EXCEPT ![h] = [role |-> "client", route |-> route]]
  /\ queue' = queue

ClientCall(h) ==
  \/ \E q \in Request, route \in {"submit", "submit_command"} : Serve(h, route, Submit(q))
  \/ \E c \in CommandId :
       \/ Serve(h, "approve", Approve(c))
       \/ \E route \in {"retry", "requeue"} : Serve(h, route, Retry(c))
       \/ \E op \in {"reject", "cancel"} : Serve(h, "other", Move(op, c))

\* enqueueIfQueued and enqueueQueuedCommand.  The route that requeues a dead letter
\* does not look at the action, and the answer submit_command passes on has none;
\* the other tools pass the record, like the route "retry".
KindFor(route, cmd) ==
  IF cmd.req.action = "browser_check" /\ route \notin {"requeue", "submit_command"}
  THEN "execute-command" ELSE "retry-command"

Done(h, role) == job[h].role = role /\ call[h].step \in {"done", "refused", "thrown"}

Leave(h) ==
  /\ Become(h, NoCall)
  /\ job' = [job EXCEPT ![h] = NoJob]

Respond(h) ==
  LET cmd == call[h].result IN
  /\ Done(h, "client")
  /\ Leave(h)
  /\ queue' = IF /\ call[h].step = "done"
                 /\ job[h].route # "other"
                 /\ cmd.status = "queued"
              THEN Sent(New(KindFor(job[h].route, cmd), cmd.req.command))
              ELSE queue
-----------------------------------------------------------------------------
(***************************************************************************)
(* The consumer.                                                           *)
(***************************************************************************)
At(h, stage) == job[h].role = "consumer" /\ job[h].stage = stage

Finished(h, stage, step) == At(h, stage) /\ call[h].step = step

Exhausted(h) == job[h].msg.attempts >= MaxAttempts

Deliver(h, m) ==
  /\ job[h] = NoJob
  /\ Idle(h)
  /\ BagIn(m, queue)
  /\ queue' = queue (-) SetToBag({m})
  /\ job' = [job EXCEPT ![h] =
       [role |-> "consumer", msg |-> m,
        stage |-> CASE m.kind = "retry-command"   -> "retry"
                    [] m.kind = "execute-command" -> "execute"
                    [] OTHER                      -> "sync"]]
  /\ Become(h, IF m.kind = "retry-command" THEN Retry(m.command) ELSE NoCall)

GoOn(h, stage, c) ==
  /\ Become(h, c)
  /\ job' = [job EXCEPT ![h].stage = stage]
  /\ queue' = queue

Ack(h) == Leave(h) /\ queue' = queue

TryLater(h) == Leave(h) /\ queue' = Redelivered({job[h].msg}, queue)

\* fail, called where its own errors are caught or where they are not.
FailCommand(h, stage, reason) == GoOn(h, stage, Fail(job[h].msg.command, reason))

\* Mutants: exhaustion does not fail the command; nor does a client error.
ThrownAcks(h) == IF Exhausted(h) THEN Ack(h) ELSE TryLater(h)

RejectedAcks(h, code) == Ack(h)

\* The catch clause, for an error of the server and one of the client.
Thrown(h) == IF Exhausted(h) THEN FailCommand(h, "catch", "retry_exhausted")
                             ELSE TryLater(h)

Rejected(h, code) == IF job[h].msg.kind = "execute-command"
                     THEN FailCommand(h, "catch", code) ELSE Ack(h)

\* Mutant: a message is acknowledged while its command is queued.
AfterRetryAcks(h) ==
  \E stage \in {"retry", "exhaust"}, step \in {"done", "refused"} :
    Finished(h, stage, step) /\ Ack(h)

AfterRetry(h) ==
  \/ /\ Finished(h, "retry", "done")
     /\ IF call[h].result.status # "queued" THEN GoOn(h, "sync", NoCall)
        ELSE IF Exhausted(h) THEN FailCommand(h, "exhaust", "retry_exhausted")
        ELSE TryLater(h)
  \/ Finished(h, "exhaust", "done") /\ Ack(h)
  \/ \E stage \in {"retry", "exhaust"} : Finished(h, stage, "refused") /\ Ack(h)

\* browserQa.execute, and complete, which looks at no status.
RunBrowser(h) ==
  /\ At(h, "execute")
  /\ \/ GoOn(h, "complete", Move("complete", job[h].msg.command))
     \/ "browser" \in Failures /\ (Rejected(h, "service_error") \/ Thrown(h))
     \/ "command" \in Unread /\ Rejected(h, "not_found")

AfterComplete(h) ==
  \/ Finished(h, "complete", "done") /\ GoOn(h, "sync", NoCall)
  \/ Finished(h, "complete", "refused") /\ Rejected(h, "not_found")

\* syncRelatedRequestsForCommand, then the postprocess message.
Sync(h) ==
  /\ At(h, "sync")
  /\ \/ /\ Leave(h)
        /\ queue' = IF job[h].msg.kind = "execute-command"
                    THEN Sent(New("browser-evidence-postprocess", job[h].msg.command))
                    ELSE queue
     \/ "sync" \in Failures /\ (Rejected(h, "service_error") \/ Thrown(h))

StoreThrew(h) ==
  /\ \E stage \in Stage \ {"catch"} : Finished(h, stage, "thrown")
  /\ Thrown(h)

AfterCatch(h) == Finished(h, "catch", "done") /\ Ack(h)

\* An error that leaves the catch clause ends the batch: this message and those
\* behind it come back, one delivery older.
BatchAborts(h) ==
  /\ \E step \in {"refused", "thrown"} : Finished(h, "catch", step)
  /\ Leave(h)
  /\ \/ queue' = Redelivered({job[h].msg}, queue)
     \/ /\ "batch" \in Failures
        /\ \E m \in BagToSet(queue) :
             queue' = Redelivered({job[h].msg},
                        Redelivered({m}, queue (-) SetToBag({m})))

Consume(h) ==
  \/ \E m \in BagToSet(queue) : Deliver(h, m)
  \/ AfterRetry(h)
  \/ RunBrowser(h)
  \/ AfterComplete(h)
  \/ Sync(h)
  \/ StoreThrew(h)
  \/ AfterCatch(h)
  \/ BatchAborts(h)
-----------------------------------------------------------------------------
Throws(h) ==
  /\ "store" \in Failures
  /\ Abort(h)
  /\ UNCHANGED <<queue, job>>

\* The Worker of a message goes away and the platform redelivers it; for the call
\* of a client this is one that throws.
Evicted(h) ==
  /\ "evicted" \in Failures
  /\ job[h].role = "consumer"
  /\ Leave(h)
  /\ queue' = Redelivered({job[h].msg}, queue)

ServerStep(h) ==
  \/ CallStep(h) /\ UNCHANGED <<queue, job>>
  \/ Respond(h)
  \/ Consume(h)

NextQueue ==
  \/ Environment /\ UNCHANGED <<queue, job>>
  \/ \E h \in Handler : ClientCall(h) \/ ServerStep(h) \/ Throws(h) \/ Evicted(h)

SpecQueue == InitQueue /\ [][NextQueue]_allVars

\* Workers run what they started, and the queue delivers what it holds.
FairQueue == SpecQueue /\ WF_allVars(\E h \in Handler : ServerStep(h))
-----------------------------------------------------------------------------
QueueTypeOK ==
  /\ TypeOK
  /\ IsABag(queue)
  /\ BagToSet(queue) \subseteq Message
  /\ job \in [Handler -> Job]

ReturnsQueued(c, id) == c.result.status = "queued" /\ c.result.req.command = id

Records(c) == {i \in DOMAIN c.todo : c.todo[i].kind = "record"}

\* Will this call still write the record of the command, or return it queued?
Pursues(c, id) ==
  /\ c.req.command = id
  /\ \/ c.step \in {"get", "read"}
     \/ c.step = "check" /\ c.op # "approve"
     \/ c.step = "write" /\ Records(c) # {}
     \/ c.op \in {"approve", "retry"} /\ c.step \in {"write", "final"}
     \/ c.op \in Submitting /\ c.step \in {"write", "done"} /\ ReturnsQueued(c, id)

\* Has a handler with this job and this call the command in its hands?  What a
\* call returns queued must meet somebody who acts on it.
Takes(j, c, id) ==
  \/ /\ j.role = "client"
     /\ Pursues(c, id)
     /\ c.step = "done" => j.route # "other"
  \/ /\ j.role = "consumer"
     /\ j.msg.command = id
     /\ \/ j.stage = "execute"
        \/ j.stage # "sync" /\ c.step = "thrown"
        \/ j.stage # "sync" /\ Pursues(c, id) /\ (c.step = "done" => j.stage = "retry")

Waiting(id) ==
  \E m \in BagToSet(queue) : m.command = id /\ m.kind # "browser-evidence-postprocess"

Attended(id) == Waiting(id) \/ \E h \in Handler : Takes(job[h], call[h], id)

Stranded(c) == commands[c].status = "queued" /\ ~Attended(c)

\* A command is never left queued with nobody to take it up: as long as no store
\* call fails and no Worker is evicted, a queued record has a message in the
\* queue or a handler still at work on it, whatever the routes, the redeliveries
\* and the operator do at the same time (commands.route.ts:62-77,
\* process-control-queue.ts:69-79).
QueuedIsAttended ==
  \A c \in CommandId : ~Stranded(c)

\* With every failure, only three things leave a queued command with nobody to
\* take it up: a client's call is cut short between its record and its message
\* (commands.route.ts:14-16), a message has been delivered for the last time, or a
\* call is refused, because it cannot read the record or because one of these
\* happened before.
OnlyFaultsStrand ==
  [][\A c \in CommandId : ~Stranded(c) /\ Stranded(c)' =>
       \/ \E h \in Handler : job[h].role = "client" /\ call'[h].step = "thrown"
       \/ \E h \in Handler : /\ job[h].role = "consumer" /\ job'[h] = NoJob
                             /\ job[h].msg.attempts = MaxAttempts
       \/ \E m \in BagToSet(queue) : m.attempts = MaxAttempts /\ ~BagIn(m, queue')
       \/ \E h \in Handler : call[h].step # "refused" /\ call'[h].step = "refused"
    ]_allVars

\* README.md:35, "Queues handle retry and deferred execution": when the clients
\* are done, every command ends rejected, completed, failed or cancelled.  The
\* attempts of a message are what ends it when the resource is never released.
EveryCommandSettles ==
  \A c \in CommandId :
    commands[c].status \in {"queued", "emitted"} ~>
      commands[c].status \notin {"queued", "emitted"}

\* A check handed to the queue is never dropped without an outcome: the consumer
\* acknowledges an execute-command only once the log holds a completion or a
\* failure of the command, even when stores throw and Workers are evicted.
AckedCheckHasOutcome ==
  [][\A h \in Handler :
       /\ job[h].role = "consumer"
       /\ job[h].msg.kind = "execute-command"
       /\ job'[h] = NoJob
       /\ job[h].msg.attempts < MaxAttempts
       /\ ~BagIn([job[h].msg EXCEPT !.attempts = @ + 1], queue')
       => Logged(job[h].msg.command, "completed") \/ Logged(job[h].msg.command, "failed")
    ]_allVars

\* docs/derived/00_session_refined.md:65, "no implicit deploy trigger".  A live
\* deploy the operator has rejected is still retried by the message that waits in
\* the queue (process-control-queue.ts:70, command-lifecycle.service.ts:36).
RejectedDeployNeedsACommand ==
  [][\A c \in CommandId :
       /\ commands[c].status = "rejected"
       /\ commands[c].req.action = "deploy_live"
       /\ commands'[c].status = "emitted"
       => \E h \in Handler : job[h].role = "client" /\ call[h].req.command = c]_allVars
=============================================================================
