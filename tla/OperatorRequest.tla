---------------------------- MODULE OperatorRequest ----------------------------
(***************************************************************************)
(* Operator requests: submission, dispatch through the queue, claims and   *)
(* heartbeats of the orchestrators, status updates, and the updates that   *)
(* follow a command (syncRelatedRequestsForCommand).                       *)
(*                                                                         *)
(* Every operation but submit reads the record in one store call and       *)
(* writes it back whole in a later one; handlers interleave in between.    *)
(* The command is only a status here: CommandKernel says how it changes.   *)
(***************************************************************************)
EXTENDS Naturals, FiniteSets, Bags

CONSTANTS
  Handler,      \* concurrent calls and deliveries
  RequestId,
  Owner,        \* orchestrators
  NoOwner,      \* claimOwner is undefined
  Update,       \* the statuses callers set: the route and the tool pass any string
  Outcome,      \* the statuses of the command that calls return
  MaxAttempts,  \* MAX_QUEUE_ATTEMPTS; also max_retries + 1 of wrangler.toml
  MaxCalls,     \* bound on the number of client calls
  Failures      \* the failures that may happen

Claimable == {"queued_for_orchestrator", "planning", "awaiting_approval",
              "browser_action_pending"}

Finished == {"completed", "failed", "cancelled"}

Status == Claimable \cup Finished \cup {"received", "claimed", "executing"}

ASSUME OperatorRequestAssumption ==
  /\ RequestId # {}
  /\ NoOwner \notin Owner
  /\ Update \subseteq Status
  /\ Outcome \subseteq {"queued", "emitted", "rejected"} \cup Finished
  /\ MaxAttempts \in Nat \ {0}
  /\ MaxCalls \in Nat
  /\ Failures \subseteq {"store", "read", "publish", "evicted"}

VARIABLES
  requests,     \* RequestId -> the request record
  messages,     \* bag of dispatch-operator-request messages
  call,         \* what each handler is doing
  started,      \* number of client calls, bounded by MaxCalls
  holder,       \* history: the owner of the last claim or heartbeat written
  grants,       \* history: who was granted the request since it was last open
  undone,       \* history: a write of the request was computed from an older copy
  dropped       \* history: a failure ended the dispatch of the request, or a
                \* caller set the request back to received without one

history == <<holder, grants, undone, dropped>>
vars == <<requests, messages, call, started, history>>

\* related: relatedCommandId names the command; completed: completedAt is set.
Record == [status : Status \cup {"absent"}, owner : Owner \cup {NoOwner},
           related : BOOLEAN, completed : BOOLEAN]

NoRecord == [status |-> "absent", owner |-> NoOwner, related |-> FALSE,
             completed |-> FALSE]

Message == [id : RequestId, attempts : 1..MaxAttempts]

\* A request that syncRelatedRequestsForCommand has listed.
Listed == [id : RequestId, record : Record]

Op == {"none", "submit", "claim", "heartbeat", "status", "dispatch", "exhaust", "sync"}

\* owner and status are the arguments, base the copy read and next the record
\* to be written, todo what a sync has still to update.
Call == [op : Op, step : {"idle", "get", "put", "enqueue", "publish", "list", "next"},
         id : RequestId, owner : Owner \cup {NoOwner}, status : Status \cup {"none"},
         base : Record, next : Record, listed : Record, todo : SUBSET Listed,
         attempts : 0..MaxAttempts]

AnyRequest == CHOOSE r \in RequestId : TRUE

NoCall == [op |-> "none", step |-> "idle", id |-> AnyRequest, owner |-> NoOwner,
           status |-> "none", base |-> NoRecord, next |-> NoRecord,
           listed |-> NoRecord, todo |-> {}, attempts |-> 0]

Init ==
  /\ requests = [r \in RequestId |-> NoRecord]
  /\ messages = EmptyBag
  /\ call = [h \in Handler |-> NoCall]
  /\ started = 0
  /\ holder = [r \in RequestId |-> NoOwner]
  /\ grants = [r \in RequestId |-> {}]
  /\ undone = [r \in RequestId |-> FALSE]
  /\ dropped = [r \in RequestId |-> FALSE]
-----------------------------------------------------------------------------
(***************************************************************************)
(* What an operation does to the record it has read.                       *)
(***************************************************************************)
\* Mutant: a request can be claimed until it is finished.
ClaimAllowedAlways(rec) == rec.status \notin Finished

ClaimAllowed(rec) == rec.status \in Claimable

OtherOwner(rec, owner) == rec.owner \notin {NoOwner, owner}

\* 404, or one of the 409s.
Refused(c, rec) ==
  \/ rec.status = "absent"
  \/ c.op = "claim" /\ ~ClaimAllowed(rec)
  \/ c.op = "heartbeat" /\ OtherOwner(rec, c.owner)
  \/ c.op \in {"status", "exhaust", "sync"} /\ c.owner # NoOwner /\ OtherOwner(rec, c.owner)

\* Mutant: a finished request gives up its owner.
WithStatusReleasing(rec, status) ==
  [rec EXCEPT !.status = status, !.completed = @ \/ status \in Finished,
              !.owner = IF status \in Finished THEN NoOwner ELSE @]

WithStatus(rec, status) ==
  [rec EXCEPT !.status = status, !.completed = @ \/ status \in Finished]

Saved(c, rec) ==
  CASE c.op = "dispatch"  -> [rec EXCEPT !.status = "queued_for_orchestrator"]
    [] c.op = "claim"     -> [rec EXCEPT !.status = "claimed", !.owner = c.owner]
    [] c.op = "heartbeat" -> [rec EXCEPT !.owner = c.owner]
    [] OTHER              -> WithStatus(rec, c.status)

\* Mutant: a rejected command rejects its requests.
StatusForRejected(outcome) ==
  CASE outcome = "queued"  -> "awaiting_approval"
    [] outcome = "emitted" -> "executing"
    [] OTHER               -> outcome

\* requestStatusForCommand
StatusFor(outcome) ==
  CASE outcome = "queued"   -> "awaiting_approval"
    [] outcome = "emitted"  -> "executing"
    [] outcome = "rejected" -> "none"
    [] OTHER                -> outcome

\* Mutant: finished requests are listed too.
RelatedAll == {[id |-> r, record |-> requests[r]] : r \in {q \in RequestId : requests[q].related}}

\* The list of syncRelatedRequestsForCommand.
RelatedOpen ==
  {[id |-> r, record |-> requests[r]] :
     r \in {q \in RequestId : requests[q].related /\ requests[q].status \notin Finished}}
-----------------------------------------------------------------------------
(***************************************************************************)
(* The steps of a call.                                                    *)
(***************************************************************************)
Become(h, c) ==
  /\ call' = [call EXCEPT ![h] = c]
  /\ UNCHANGED <<requests, messages, started, history>>

Leave(h) == call' = [call EXCEPT ![h] = NoCall]

Begin(h, c) ==
  /\ call[h].step = "idle"
  /\ started < MaxCalls
  /\ started' = started + 1
  /\ call' = [call EXCEPT ![h] = c]
  /\ UNCHANGED <<requests, messages, history>>

\* SubmitOperatorRequestService reads nothing: a record under the id is replaced.
Submit(r, related) ==
  [NoCall EXCEPT !.op = "submit", !.step = "put", !.id = r,
                 !.next = [NoRecord EXCEPT !.status = "received", !.related = related]]

Claim(r, o)     == [NoCall EXCEPT !.op = "claim", !.step = "get", !.id = r, !.owner = o]
Heartbeat(r, o) == [NoCall EXCEPT !.op = "heartbeat", !.step = "get", !.id = r, !.owner = o]

UpdateStatus(op, r, o, status) ==
  [NoCall EXCEPT !.op = op, !.step = "get", !.id = r, !.owner = o, !.status = status]

\* A route, a tool or the consumer has a command that ended with this outcome.
Sync(outcome) ==
  [NoCall EXCEPT !.op = "sync", !.step = "list", !.status = StatusFor(outcome)]

List(h) ==
  /\ call[h].step = "list"
  /\ Become(h, IF call[h].status = "none" THEN NoCall
               ELSE [call[h] EXCEPT !.step = "next", !.todo = RelatedOpen])

NextListed(h, l) ==
  /\ call[h].step = "next"
  /\ l \in call[h].todo
  /\ Become(h, [call[h] EXCEPT !.step = "get", !.id = l.id, !.owner = l.record.owner,
                               !.listed = l.record, !.todo = @ \ {l}])

EndSync(h) ==
  /\ call[h].step = "next"
  /\ call[h].todo = {}
  /\ Become(h, NoCall)

\* The call of h once its record is written.
AfterPut(c) == CASE c.op = "submit"   -> [c EXCEPT !.step = "enqueue"]
                 [] c.op = "dispatch" -> [c EXCEPT !.step = "publish"]
                 [] c.op = "sync"     -> [c EXCEPT !.step = "next"]
                 [] OTHER             -> NoCall

Put(h) ==
  LET c == call[h] IN
  /\ c.step = "put"
  /\ requests' = [requests EXCEPT ![c.id] = c.next]
  /\ call' = [call EXCEPT ![h] = AfterPut(c)]
  /\ holder' = [holder EXCEPT ![c.id] =
                  IF c.op = "submit" THEN NoOwner
                  ELSE IF c.op \in {"claim", "heartbeat"} THEN c.owner ELSE @]
  /\ grants' = [grants EXCEPT ![c.id] =
                  IF c.op = "submit" \/ c.next.status \in Claimable THEN {}
                  ELSE IF c.op = "claim" THEN @ \cup {c.owner} ELSE @]
  /\ undone' = [undone EXCEPT ![c.id] =
                  c.op # "submit" /\ (@ \/ c.base # requests[c.id])]
  /\ dropped' = [dropped EXCEPT ![c.id] =
                  c.op # "submit" /\ (@ \/ (c.op = "status" /\ c.status = "received"))]
  /\ UNCHANGED <<messages, started>>

Enqueue(h) ==
  /\ call[h].step = "enqueue"
  /\ messages' = messages (+) SetToBag({[id |-> call[h].id, attempts |-> 1]})
  /\ Leave(h)
  /\ UNCHANGED <<requests, started, history>>

\* The notification is out and the message acknowledged.
Publish(h) == call[h].step = "publish" /\ Become(h, NoCall)
-----------------------------------------------------------------------------
(***************************************************************************)
(* Delivery and failures.                                                  *)
(***************************************************************************)
Deliver(h, m) ==
  /\ call[h].step = "idle"
  /\ BagIn(m, messages)
  /\ messages' = messages (-) SetToBag({m})
  /\ call' = [call EXCEPT ![h] = [NoCall EXCEPT !.op = "dispatch", !.step = "get",
                                                !.id = m.id, !.attempts = m.attempts]]
  /\ UNCHANGED <<requests, started, history>>

\* The message comes back, or has been delivered for the last time.
Redeliver(h) ==
  LET c == call[h] IN
  /\ Leave(h)
  /\ messages' = IF c.attempts < MaxAttempts
                 THEN messages (+) SetToBag({[id |-> c.id, attempts |-> c.attempts + 1]})
                 ELSE messages
  /\ dropped' = [dropped EXCEPT ![c.id] = @ \/ c.attempts >= MaxAttempts]
  /\ UNCHANGED <<requests, started, holder, grants, undone>>

\* Mutant: an exhausted message is acknowledged as it is.
CaughtAcks(h) ==
  IF call[h].attempts < MaxAttempts THEN Redeliver(h) ELSE Become(h, NoCall)

\* The catch clause for an error of the server.
Caught(h) ==
  IF call[h].attempts < MaxAttempts THEN Redeliver(h)
  ELSE Become(h, [UpdateStatus("exhaust", call[h].id, NoOwner, "failed")
                    EXCEPT !.attempts = call[h].attempts])

\* The call ends here, done or not.
CutShort(h) ==
  /\ Leave(h)
  /\ dropped' = [dropped EXCEPT ![call[h].id] = @ \/ call[h].op \in {"submit", "dispatch"}]
  /\ UNCHANGED <<requests, messages, started, holder, grants, undone>>

StoreThrows(h) ==
  /\ "store" \in Failures
  /\ call[h].step \in {"get", "put", "enqueue", "list"}
  /\ CASE call[h].op = "dispatch" -> Caught(h)
       [] call[h].op = "exhaust"  -> Redeliver(h)
       [] OTHER                   -> CutShort(h)

\* A request is refused or not found: a call ends, and so does a sync with what
\* is left of it; a dispatch is acknowledged; in the catch clause it ends the batch.
Refuse(h) == IF call[h].op = "exhaust" THEN Redeliver(h) ELSE CutShort(h)

\* requireRequest found rec.
Get(h, rec) ==
  LET c == call[h] IN
  /\ c.step = "get"
  /\ IF Refused(c, rec) THEN Refuse(h)
     ELSE Become(h, [c EXCEPT !.step = "put", !.base = rec, !.next = Saved(c, rec)])

\* A failed read of a file counts as an absent record.
ReadFails(h) == "read" \in Failures /\ Get(h, NoRecord)

PublishFails(h) ==
  /\ "publish" \in Failures
  /\ call[h].step = "publish"
  /\ Caught(h)

Evicted(h) ==
  /\ "evicted" \in Failures
  /\ call[h].step # "idle"
  /\ IF call[h].op \in {"dispatch", "exhaust"} THEN Redeliver(h) ELSE CutShort(h)
-----------------------------------------------------------------------------
ClientCall(h) ==
  \/ \E r \in RequestId :
       \/ \E related \in BOOLEAN : Begin(h, Submit(r, related))
       \/ \E o \in Owner :
            \/ Begin(h, Claim(r, o))
            \/ Begin(h, Heartbeat(r, o))
       \/ \E o \in Owner \cup {NoOwner}, status \in Update :
            Begin(h, UpdateStatus("status", r, o, status))
  \/ \E outcome \in Outcome : Begin(h, Sync(outcome))

ServerStep(h) ==
  \/ List(h)
  \/ \E l \in call[h].todo : NextListed(h, l)
  \/ EndSync(h)
  \/ Get(h, requests[call[h].id])
  \/ Put(h)
  \/ Enqueue(h)
  \/ Publish(h)
  \/ \E m \in BagToSet(messages) : Deliver(h, m)

Failure(h) == StoreThrows(h) \/ ReadFails(h) \/ PublishFails(h) \/ Evicted(h)

Next == \E h \in Handler : ClientCall(h) \/ ServerStep(h) \/ Failure(h)

Spec == Init /\ [][Next]_vars

\* Workers run what they started, and the queue delivers what it holds.
FairSpec == Spec /\ WF_vars(\E h \in Handler : ServerStep(h))
-----------------------------------------------------------------------------
TypeOK ==
  /\ requests \in [RequestId -> Record]
  /\ IsABag(messages)
  /\ BagToSet(messages) \subseteq Message
  /\ call \in [Handler -> Call]
  /\ started \in 0..MaxCalls
  /\ holder \in [RequestId -> Owner \cup {NoOwner}]
  /\ grants \in [RequestId -> SUBSET Owner]
  /\ undone \in [RequestId -> BOOLEAN]
  /\ dropped \in [RequestId -> BOOLEAN]

\* operator-request-lifecycle.service.ts:25-30: between two moments at which a
\* request is open for claims only one orchestrator is granted it, whatever the
\* dispatches, syncs and updates do meanwhile.  Two are only granted it when some
\* write was computed from an older copy of the record.
DoubleClaimOnlyUnseen ==
  \A r \in RequestId : ~undone[r] => Cardinality(grants[r]) <= 1

\* operator-request-lifecycle.service.ts:42, 55: the owner a heartbeat or an
\* update is compared with is the orchestrator that claimed the request last or,
\* when nobody had, sent the last heartbeat: redelivered dispatches, exhausted
\* ones and syncs never take a request from its owner.
OwnerIsLastHolder ==
  \A r \in RequestId : ~undone[r] => requests[r].owner = holder[r]

\* command-side-effects.ts:27-29: a finished request is opened again only by a
\* resubmission, by a dispatch (late or redelivered), by a status the caller names,
\* or by a write decided on while the request was not finished yet.
ReopenedOnlyOnPurpose ==
  [][\A r \in RequestId :
       requests[r].status \in Finished /\ requests'[r].status \notin Finished =>
         \E h \in Handler :
           /\ call[h].id = r
           /\ call[h].step = "put"
           /\ \/ call[h].op \in {"submit", "dispatch", "status"}
              \/ call[h].base # requests[r]
              \/ call[h].op = "sync" /\ call[h].listed.status \notin Finished]_vars

\* process-control-queue.ts:117-127, 32-41: a received request is handed to the
\* orchestrators or failed, through redelivery and exhaustion, unless a failure
\* the code does not recover from ended its dispatch or a caller named the status
\* received (requests.route.ts:58), which enqueues nothing.
EveryRequestIsDispatched ==
  \A r \in RequestId :
    requests[r].status = "received" ~>
      requests[r].status # "received" \/ dropped[r] \/ undone[r]
=============================================================================
