--------------------------- MODULE ControlQueue_proofs ---------------------------
(***************************************************************************)
(* Proofs about ControlQueue, for any number of handlers, commands and     *)
(* deliveries, whatever fails.  Every step of the queue is a step of the   *)
(* command services, or begins or ends a call of theirs, so their          *)
(* invariant IInv holds here too.  QInv adds what a consumer knows of its  *)
(* message at each stage, and that a transition is logged before it is     *)
(* over.  SInv adds who may bring a command back to queued; each step that *)
(* takes a queued command's last attendant away is then a Fault.           *)
(***************************************************************************)
EXTENDS ControlQueue, CommandKernel_proofs

\* A call that changes the status has logged it when it is over, and reads nothing back.
Logs(c) ==
  c.op \in Transition =>
    /\ c.step = "write" => \/ Logged(c.req.command, StatusOf(c.op))
                           \/ \E i \in DOMAIN c.todo : c.todo[i] = EventOf(StatusOf(c.op))
    /\ c.step = "done" => Logged(c.req.command, StatusOf(c.op))
    /\ c.step # "final"

\* The call is this transition of the command, or ended without it.
Runs(c, op, id) == c.step \in {"refused", "thrown"} \/ (c.op = op /\ c.req.command = id)

\* What a consumer knows of its message and of its call.
JobFits(j, c) ==
  j.role = "consumer" =>
    /\ j.stage \in {"retry", "exhaust"} => j.msg.kind = "retry-command"
    /\ j.stage = "complete" => Runs(c, "complete", j.msg.command)
    /\ j.stage = "catch" => Runs(c, "fail", j.msg.command)
    /\ j.stage = "sync" /\ j.msg.kind = "execute-command" =>
         Logged(j.msg.command, "completed")

MessageBag(q) == IsABag(q) /\ BagToSet(q) \subseteq Message

QInv ==
  /\ IInv
  /\ \A c \in Calls : Logs(c)
  /\ MessageBag(queue)
  /\ job \in [Handler -> Job]
  /\ \A h \in Handler : JobFits(job[h], call[h])
-----------------------------------------------------------------------------
(***************************************************************************)
(* The queue.                                                              *)
(***************************************************************************)
LEMMA Adding ==
  ASSUME NEW q, MessageBag(q), NEW S \in SUBSET Message
  PROVE  /\ MessageBag(q (+) SetToBag(S))
         /\ \A m \in S : BagIn(m, q (+) SetToBag(S))
         /\ BagToSet(q) \subseteq BagToSet(q (+) SetToBag(S))
<1> DEFINE r == q (+) SetToBag(S)
<1>1. q \in [DOMAIN q -> {n \in Nat : n > 0}] /\ DOMAIN q \subseteq Message
  BY DEF MessageBag, IsABag, BagToSet
<1>2. DOMAIN SetToBag(S) = S /\ \A m \in S : SetToBag(S)[m] = 1
  BY DEF SetToBag
<1>3. /\ DOMAIN r = DOMAIN q \cup S
      /\ r = [e \in DOMAIN q \cup S |->
                (IF e \in DOMAIN q THEN q[e] ELSE 0) + (IF e \in S THEN SetToBag(S)[e] ELSE 0)]
  BY <1>2 DEF (+)
<1>4. ASSUME NEW e \in DOMAIN q \cup S
      PROVE  (IF e \in DOMAIN q THEN q[e] ELSE 0) + (IF e \in S THEN SetToBag(S)[e] ELSE 0)
               \in {n \in Nat : n > 0}
  BY <1>1, <1>2
<1> HIDE DEF r
<1>5. r \in [DOMAIN r -> {n \in Nat : n > 0}]
  BY <1>3, <1>4
<1> QED
  BY <1>1, <1>3, <1>5 DEF MessageBag, IsABag, BagToSet, BagIn, r

LEMMA Taking ==
  ASSUME NEW q, MessageBag(q), NEW m
  PROVE  /\ MessageBag(q (-) SetToBag({m}))
         /\ BagToSet(q) \subseteq BagToSet(q (-) SetToBag({m})) \cup {m}
<1> DEFINE r == q (-) SetToBag({m})
           left(e) == IF e \in {m} THEN q[e] - SetToBag({m})[e] ELSE q[e]
           B == [e \in DOMAIN q |-> left(e)]
<1>1. q \in [DOMAIN q -> {n \in Nat : n > 0}] /\ DOMAIN q \subseteq Message
  BY DEF MessageBag, IsABag, BagToSet
<1>2. DOMAIN SetToBag({m}) = {m} /\ SetToBag({m})[m] = 1
  BY DEF SetToBag
<1>3. r = [e \in {d \in DOMAIN B : B[d] > 0} |-> B[e]]
  BY <1>2 DEF (-)
<1>4. \A e \in DOMAIN B : e \in DOMAIN q /\ B[e] \in Int
  BY <1>1, <1>2
<1> HIDE DEF r, B
<1>5. /\ DOMAIN r = {d \in DOMAIN B : B[d] > 0}
      /\ \A e \in DOMAIN r : r[e] = B[e]
  BY <1>3
<1>6. r \in [DOMAIN r -> {n \in Nat : n > 0}]
  BY <1>3, <1>4, <1>5
<1>7. DOMAIN q \subseteq DOMAIN r \cup {m}
  BY <1>1, <1>5 DEF B
<1> QED
  BY <1>1, <1>4, <1>5, <1>6, <1>7 DEF MessageBag, IsABag, BagToSet, r

\* A message that comes back is in the queue, unless it was delivered for the last time.
LEMMA ComingBack ==
  ASSUME NEW q, MessageBag(q), NEW m \in Message
  PROVE  /\ MessageBag(Redelivered({m}, q))
         /\ m.attempts < MaxAttempts => BagIn([m EXCEPT !.attempts = @ + 1], Redelivered({m}, q))
         /\ BagToSet(q) \subseteq BagToSet(Redelivered({m}, q))
<1> DEFINE back == {[x EXCEPT !.attempts = @ + 1] : x \in {y \in {m} : y.attempts < MaxAttempts}}
<1>1. MaxAttempts \in Nat /\ m.attempts \in 1..MaxAttempts
  BY ControlQueueAssumption DEF Message
<1>2. m.attempts < MaxAttempts => [m EXCEPT !.attempts = @ + 1] \in Message
  <2>1. m.attempts < MaxAttempts => m.attempts + 1 \in 1..MaxAttempts
    BY <1>1
  <2> QED
    BY <2>1 DEF Message
<1>3. back \in SUBSET Message
  BY <1>2
<1>4. m.attempts < MaxAttempts => [m EXCEPT !.attempts = @ + 1] \in back
  OBVIOUS
<1> HIDE DEF back
<1> QED
  BY <1>3, <1>4, Adding DEF Redelivered, back

LEMMA NewIsMessage ==
  ASSUME NEW kind \in Kind, NEW id \in CommandId
  PROVE  New(kind, id) \in Message
BY ControlQueueAssumption DEF New, Message
-----------------------------------------------------------------------------
(***************************************************************************)
(* One handler moves on.                                                   *)
(***************************************************************************)
\* Nothing that was logged is lost.
LogKept == \A id \in CommandId : \A status : Logged(id, status) => Logged(id, status)'

LEMMA QuietLog ==
  ASSUME UNCHANGED events
  PROVE  LogKept
BY DEF LogKept, Logged

LEMMA JobsAreTyped ==
  ASSUME QInv, NEW h \in Handler
  PROVE  /\ job[h] \in Job /\ JobFits(job[h], call[h])
         /\ job[h].role = "consumer" =>
              /\ job[h] = [role |-> "consumer", msg |-> job[h].msg, stage |-> job[h].stage]
              /\ job[h].msg \in Message /\ job[h].stage \in Stage
              /\ job[h].msg.command \in CommandId /\ job[h].msg.kind \in Kind
<1>1. job[h] \in Job /\ JobFits(job[h], call[h])
  BY DEF QInv
<1>2. ASSUME job[h].role = "consumer"
      PROVE  job[h] \in [role : {"consumer"}, msg : Message, stage : Stage]
  BY <1>1, <1>2 DEF Job
<1> QED
  BY <1>1, <1>2 DEF Message

LEMMA FitsStay ==
  ASSUME LogKept, NEW j \in Job, NEW c, JobFits(j, c)
  PROVE  JobFits(j, c)'
<1>1. ASSUME j.role = "consumer" PROVE j.msg.command \in CommandId
  BY <1>1 DEF Job, Message
<1> QED
  BY <1>1 DEF JobFits, Runs, LogKept

LEMMA LogsStay ==
  ASSUME LogKept, NEW c \in Call, Logs(c), NEW x,
         x.op = c.op, x.step = c.step, x.req = c.req, x.todo = c.todo
  PROVE  Logs(x)'
<1>1. c.req.command \in CommandId
  BY DEF Call, Envelope
<1> QED
  BY <1>1 DEF Logs, LogKept

LEMMA MoveQueue ==
  ASSUME QInv, IInv', LogKept, NEW h \in Handler,
         NEW c, call' = [call EXCEPT ![h] = c], Logs(c)',
         NEW j \in Job, job' = [job EXCEPT ![h] = j], JobFits(j, c)',
         MessageBag(queue')
  PROVE  QInv'
<1>1. call \in [Handler -> Call] /\ job \in [Handler -> Job]
  BY DEF QInv, IInv, TypeOK
<1>2. job' \in [Handler -> Job]
  BY <1>1
<1>3. ASSUME NEW x \in Calls' PROVE Logs(x)'
  <2>1. PICK g \in Handler : x = call'[g]
    BY DEF Calls
  <2>2. CASE g = h
    BY <1>1, <2>1, <2>2
  <2>3. CASE g # h
    <3>1. x = call[g] /\ x \in Call /\ x \in Calls
      BY <1>1, <2>1, <2>3 DEF Calls
    <3> QED
      BY <3>1, LogsStay DEF QInv
  <2> QED
    BY <2>2, <2>3
<1>4. ASSUME NEW g \in Handler PROVE JobFits(job[g], call[g])'
  <2>1. PICK k, x : k = job'[g] /\ x = call'[g]
    OBVIOUS
  <2>2. JobFits(k, x)'
    <3>1. CASE g = h
      BY <1>1, <2>1, <3>1
    <3>2. CASE g # h
      <4>1. k = job[g] /\ x = call[g] /\ k \in Job
        BY <1>1, <2>1, <3>2
      <4> QED
        BY <4>1, FitsStay DEF QInv
    <3> QED
      BY <3>1, <3>2
  <2> QED
    BY <2>1, <2>2 DEF JobFits, Runs
<1> QED
  BY <1>2, <1>3, <1>4 DEF QInv, MessageBag

\* The calls of clients and consumers, and the end of a call.
LEMMA Openings ==
  ASSUME IInv, NEW id \in CommandId, NEW reason \in FailReason,
         NEW c \in {NoCall, Retry(id), Fail(id, reason), Move("complete", id)}
  PROVE  c \in Call /\ CallInv(c) /\ Logs(c)
<1>1. TypeOK
  BY DEF IInv
<1>2. CASE c = NoCall
  <2>1. NoCall.step = "idle" /\ NoCall.todo = <<>> /\ NoCall.now <= clock /\ NoCall.op = "none"
    BY <1>1 DEF TypeOK, NoCall
  <2>2. NoCall \in Call /\ CallInv(NoCall)
    BY <2>1, Rest, QuietIsLegal DEF Quiet
  <2> QED
    BY <1>2, <2>1, <2>2 DEF Logs, Transition
<1>3. ASSUME c.step \in {"check", "get"} PROVE Logs(c)
  BY <1>3 DEF Logs
<1>4. CASE c = Retry(id)
  <2>1. c.step = "check"
    BY <1>4 DEF Retry, OnCommand, NoCall
  <2>2. reason \in Reason /\ "retry" \in Submitting \cup Transition
    BY DEF Reason, Submitting
  <2>3. c = OnCommand("retry", "check", id)
    BY <1>4 DEF Retry
  <2> QED
    BY <1>1, <1>3, <2>1, <2>2, <2>3, OnCommandIsLegal
<1>5. CASE c = Fail(id, reason)
  <2>1. c.step = "check"
    BY <1>5 DEF Fail, OnCommand, NoCall
  <2>2. reason \in Reason /\ "fail" \in Submitting \cup Transition
    BY DEF Reason, Transition
  <2>3. c = [OnCommand("fail", "check", id) EXCEPT !.reason = reason]
    BY <1>5 DEF Fail
  <2> QED
    BY <1>1, <1>3, <2>1, <2>2, <2>3, OnCommandIsLegal
<1>6. CASE c = Move("complete", id)
  <2>1. c.step = "get"
    BY <1>6 DEF Move, OnCommand, NoCall
  <2>2. "other" \in Reason /\ "complete" \in Transition /\ "complete" \in Submitting \cup Transition
    BY DEF Reason, Transition
  <2>3. c = [OnCommand("complete", "get", id) EXCEPT !.reason = "other"]
    BY <1>6 DEF Move
  <2> QED
    BY <1>1, <1>3, <2>1, <2>2, <2>3, OnCommandIsLegal
<1> QED
  BY <1>2, <1>4, <1>5, <1>6

LEMMA BecomeQueue ==
  ASSUME QInv, NEW h \in Handler, NEW c \in Call, CallInv(c), Logs(c), Become(h, c),
         NEW j \in Job, job' = [job EXCEPT ![h] = j], JobFits(j, c),
         MessageBag(queue')
  PROVE  QInv'
<1>1. IInv'
  BY BecomeKeeps DEF QInv
<1>2. LogKept /\ call' = [call EXCEPT ![h] = c]
  BY QuietLog DEF Become
<1>3. Logs(c)' /\ JobFits(j, c)'
  BY <1>2, LogsStay, FitsStay
<1> QED
  BY <1>1, <1>2, <1>3, MoveQueue

LEMMA LeaveQueue ==
  ASSUME QInv, NEW h \in Handler, Leave(h), MessageBag(queue')
  PROVE  QInv'
<1>1. CommandId # {}
  BY Rest DEF Envelope
<1>2. PICK id : id \in CommandId
  BY <1>1
<1>3. "not_found" \in FailReason
  BY DEF FailReason
<1>4. NoCall \in Call /\ CallInv(NoCall) /\ Logs(NoCall)
  BY <1>2, <1>3, Openings DEF QInv
<1>5. NoJob \in Job /\ JobFits(NoJob, NoCall)
  BY DEF NoJob, Job, JobFits
<1> QED
  BY <1>4, <1>5, BecomeQueue DEF Leave

LEMMA LaterQueue ==
  ASSUME QInv, NEW h \in Handler, job[h].role = "consumer", TryLater(h) \/ Ack(h)
  PROVE  QInv'
<1>1. job[h].msg \in Message
  BY JobsAreTyped
<1>2. MessageBag(queue')
  BY <1>1, ComingBack DEF TryLater, Ack, QInv
<1> QED
  BY <1>2, LeaveQueue DEF TryLater, Ack

LEMMA GoOnQueue ==
  ASSUME QInv, NEW h \in Handler, job[h].role = "consumer", NEW stage \in Stage,
         NEW c \in Call, CallInv(c), Logs(c),
         JobFits([role |-> "consumer", msg |-> job[h].msg, stage |-> stage], c),
         GoOn(h, stage, c)
  PROVE  QInv'
<1> DEFINE j == [role |-> "consumer", msg |-> job[h].msg, stage |-> stage]
<1>1. job[h] \in Job /\ job[h].msg \in Message
      /\ job[h] = [role |-> "consumer", msg |-> job[h].msg, stage |-> job[h].stage]
  BY JobsAreTyped
<1>2. j \in Job
  BY <1>1 DEF Job
<1>3. job' = [job EXCEPT ![h] = j]
  <2>1. [job[h] EXCEPT !.stage = stage] = j
    BY <1>1
  <2> QED
    BY <2>1 DEF GoOn
<1>4. MessageBag(queue')
  BY DEF GoOn, QInv, MessageBag
<1> HIDE DEF j
<1> QED
  BY <1>2, <1>3, <1>4, BecomeQueue DEF GoOn, j

LEMMA FailQueue ==
  ASSUME QInv, NEW h \in Handler, job[h].role = "consumer",
         NEW stage \in {"exhaust", "catch"}, NEW reason \in FailReason,
         stage = "exhaust" => job[h].msg.kind = "retry-command",
         FailCommand(h, stage, reason)
  PROVE  QInv'
<1> DEFINE c == Fail(job[h].msg.command, reason)
<1>1. job[h].msg.command \in CommandId
  BY JobsAreTyped
<1>2. c \in Call /\ CallInv(c) /\ Logs(c)
  BY <1>1, Openings DEF QInv
<1>3. c.op = "fail" /\ c.req.command = job[h].msg.command
  BY Rest DEF Fail, OnCommand, NoCall, Envelope
<1> HIDE DEF c
<1>4. JobFits([role |-> "consumer", msg |-> job[h].msg, stage |-> stage], c)
  BY <1>3 DEF JobFits, Runs
<1>5. stage \in Stage
  BY DEF Stage
<1> QED
  BY <1>2, <1>4, <1>5, GoOnQueue DEF FailCommand, c

\* The catch clause.
LEMMA CatchQueue ==
  ASSUME QInv, NEW h \in Handler, job[h].role = "consumer",
         Thrown(h) \/ \E code \in {"service_error", "not_found"} : Rejected(h, code)
  PROVE  QInv'
<1>1. CASE Ack(h) \/ TryLater(h)
  BY <1>1, LaterQueue
<1>2. ASSUME NEW reason \in FailReason, FailCommand(h, "catch", reason) PROVE QInv'
  BY <1>2, FailQueue
<1> QED
  BY <1>1, <1>2 DEF Thrown, Rejected, FailReason
-----------------------------------------------------------------------------
(***************************************************************************)
(* Clients.                                                                *)
(***************************************************************************)
LEMMA ServeQueue ==
  ASSUME QInv, NEW h \in Handler, NEW route \in Route, NEW c, Serve(h, route, c), Logs(c), IInv'
  PROVE  QInv'
<1> DEFINE j == [role |-> "client", route |-> route]
<1>1. j \in Job
  BY DEF Job
<1>2. events' = events /\ LogKept /\ call' = [call EXCEPT ![h] = c]
  BY QuietLog DEF Serve, Begin
<1>3. Logs(c)'
  BY <1>2 DEF Logs, Logged
<1>4. JobFits(j, c)'
  BY DEF JobFits
<1>5. MessageBag(queue') /\ job' = [job EXCEPT ![h] = j]
  BY DEF Serve, QInv, MessageBag
<1> HIDE DEF j
<1> QED
  BY <1>1, <1>2, <1>3, <1>4, <1>5, MoveQueue

LEMMA ClientQueue ==
  ASSUME QInv, NEW h \in Handler, ClientCall(h)
  PROVE  QInv'
<1>1. IInv
  BY DEF QInv
<1>2. ASSUME NEW q \in Request, NEW route \in {"submit", "submit_command"},
             Serve(h, route, Submit(q))
      PROVE  QInv'
  <2>1. IInv'
    BY <1>1, <1>2, SubmitKeeps DEF Serve
  <2>2. Submit(q).op = "submit"
    BY DEF Submit, Execute, NoCall
  <2> QED
    BY <1>2, <2>1, <2>2, ServeQueue DEF Logs, Transition, Route
<1>3. ASSUME NEW id \in CommandId, NEW route \in Route,
             NEW c, c \in {Approve(id), Retry(id), Move("reject", id), Move("cancel", id)},
             Serve(h, route, c)
      PROVE  QInv'
  <2>1. Begin(h, c)
    BY <1>3 DEF Serve
  <2>2. IInv'
    BY <1>1, <1>3, <2>1, BeginKeeps
  <2>3. c.step \in {"check", "get"}
    BY <1>3 DEF Approve, Retry, Move, OnCommand, NoCall
  <2> QED
    BY <1>3, <2>2, <2>3, ServeQueue DEF Logs
<1> QED
  BY <1>2, <1>3 DEF ClientCall, Route

\* The command a call returns is the one it is about.
LEMMA RespondQueue ==
  ASSUME QInv, NEW h \in Handler, Respond(h)
  PROVE  QInv'
<1> DEFINE cmd == call[h].result
<1>1. cmd.req.command \in CommandId
  BY CallsAreLegal DEF QInv, Call, Command, Envelope
<1>2. KindFor(job[h].route, cmd) \in Kind
  BY DEF KindFor, Kind
<1>3. New(KindFor(job[h].route, cmd), cmd.req.command) \in Message
  BY <1>1, <1>2, NewIsMessage
<1>4. MessageBag(Sent(New(KindFor(job[h].route, cmd), cmd.req.command)))
  BY <1>3, Adding DEF Sent, QInv
<1>5. MessageBag(queue')
  BY <1>4 DEF Respond, QInv
<1> QED
  BY <1>5, LeaveQueue DEF Respond
-----------------------------------------------------------------------------
(***************************************************************************)
(* The consumer.                                                           *)
(***************************************************************************)
LEMMA DeliverQueue ==
  ASSUME QInv, NEW h \in Handler, NEW m \in BagToSet(queue), Deliver(h, m)
  PROVE  QInv'
<1> DEFINE stage == CASE m.kind = "retry-command"   -> "retry"
                      [] m.kind = "execute-command" -> "execute"
                      [] OTHER                      -> "sync"
           j == [role |-> "consumer", msg |-> m, stage |-> stage]
           c == IF m.kind = "retry-command" THEN Retry(m.command) ELSE NoCall
<1>1. m \in Message /\ m.kind \in Kind /\ m.command \in CommandId
  BY DEF QInv, MessageBag, Message
<1>2. c \in Call /\ CallInv(c) /\ Logs(c)
  <2>1. "not_found" \in FailReason
    BY DEF FailReason
  <2>2. NoCall \in Call /\ CallInv(NoCall) /\ Logs(NoCall)
        /\ Retry(m.command) \in Call /\ CallInv(Retry(m.command)) /\ Logs(Retry(m.command))
    BY <1>1, <2>1, Openings DEF QInv
  <2> QED
    BY <2>2
<1>3. stage \in Stage
  BY DEF Stage
<1>4. j \in Job
  BY <1>1, <1>3 DEF Job
<1>5. /\ stage \notin {"exhaust", "complete", "catch"}
      /\ stage = "retry" => m.kind = "retry-command"
      /\ stage = "sync" => m.kind # "execute-command"
  OBVIOUS
<1> HIDE DEF stage
<1>6. JobFits(j, c)
  BY <1>5 DEF JobFits
<1>7. MessageBag(queue')
  BY Taking DEF Deliver, QInv
<1>8. Become(h, c) /\ job' = [job EXCEPT ![h] = j]
  BY DEF Deliver, stage
<1> HIDE DEF c, j
<1> QED
  BY <1>2, <1>4, <1>6, <1>7, <1>8, BecomeQueue

\* Nothing is called while the statements behind a call run.
LEMMA SyncQueue ==
  ASSUME QInv, NEW h \in Handler, job[h].role = "consumer", GoOn(h, "sync", NoCall),
         job[h].msg.kind = "execute-command" => Logged(job[h].msg.command, "completed")
  PROVE  QInv'
<1>1. job[h].msg.command \in CommandId /\ "not_found" \in FailReason
  BY JobsAreTyped DEF FailReason
<1>2. NoCall \in Call /\ CallInv(NoCall) /\ Logs(NoCall)
  BY <1>1, Openings DEF QInv
<1>3. JobFits([role |-> "consumer", msg |-> job[h].msg, stage |-> "sync"], NoCall)
  BY DEF JobFits
<1> QED
  BY <1>2, <1>3, GoOnQueue DEF Stage

\* The consumer completes or fails the command of its message: when the call is
\* over, the log holds the outcome.
LEMMA OverIsLogged ==
  ASSUME QInv, NEW h \in Handler, At(h, "complete") \/ At(h, "catch"), call[h].step = "done"
  PROVE  Logged(job[h].msg.command, IF job[h].stage = "complete" THEN "completed" ELSE "failed")
<1>1. JobFits(job[h], call[h]) /\ Logs(call[h])
  BY DEF QInv, Calls
<1>2. /\ call[h].op = (IF job[h].stage = "complete" THEN "complete" ELSE "fail")
      /\ call[h].req.command = job[h].msg.command
  BY <1>1 DEF At, JobFits, Runs
<1> QED
  BY <1>1, <1>2 DEF Logs, Transition, StatusOf

LEMMA AfterRetryQueue ==
  ASSUME QInv, NEW h \in Handler, AfterRetry(h)
  PROVE  QInv'
<1>1. /\ job[h].role = "consumer" /\ JobFits(job[h], call[h])
      /\ job[h].msg.kind = "retry-command"
  BY DEF AfterRetry, Finished, At, QInv, JobFits
<1>2. CASE GoOn(h, "sync", NoCall)
  BY <1>1, <1>2, SyncQueue
<1>3. CASE FailCommand(h, "exhaust", "retry_exhausted")
  BY <1>1, <1>3, FailQueue DEF FailReason
<1>4. CASE TryLater(h) \/ Ack(h)
  BY <1>1, <1>4, LaterQueue
<1> QED
  BY <1>2, <1>3, <1>4 DEF AfterRetry

LEMMA RunBrowserQueue ==
  ASSUME QInv, NEW h \in Handler, RunBrowser(h)
  PROVE  QInv'
<1> DEFINE c == Move("complete", job[h].msg.command)
<1>1. /\ job[h].role = "consumer" /\ job[h].msg.command \in CommandId
      /\ "not_found" \in FailReason
  BY JobsAreTyped DEF RunBrowser, At, FailReason
<1>2. CASE GoOn(h, "complete", c)
  <2>1. c \in Call /\ CallInv(c) /\ Logs(c)
    BY <1>1, Openings DEF QInv
  <2>2. c.op = "complete" /\ c.req.command = job[h].msg.command
    BY Rest DEF Move, OnCommand, NoCall, Envelope
  <2> HIDE DEF c
  <2>3. JobFits([role |-> "consumer", msg |-> job[h].msg, stage |-> "complete"], c)
    BY <2>2 DEF JobFits, Runs
  <2> QED
    BY <1>1, <1>2, <2>1, <2>3, GoOnQueue DEF Stage
<1>3. CASE Thrown(h) \/ \E code \in {"service_error", "not_found"} : Rejected(h, code)
  BY <1>1, <1>3, CatchQueue
<1> QED
  BY <1>2, <1>3 DEF RunBrowser

LEMMA AfterCompleteQueue ==
  ASSUME QInv, NEW h \in Handler, AfterComplete(h)
  PROVE  QInv'
<1>1. job[h].role = "consumer" /\ At(h, "complete") /\ job[h].stage = "complete"
  BY DEF AfterComplete, Finished, At
<1>2. CASE call[h].step = "done" /\ GoOn(h, "sync", NoCall)
  BY <1>1, <1>2, OverIsLogged, SyncQueue
<1>3. CASE Rejected(h, "not_found")
  BY <1>1, <1>3, CatchQueue
<1> QED
  BY <1>2, <1>3 DEF AfterComplete, Finished

LEMMA SyncStepQueue ==
  ASSUME QInv, NEW h \in Handler, Sync(h)
  PROVE  QInv'
<1> DEFINE m == New("browser-evidence-postprocess", job[h].msg.command)
<1>1. job[h].role = "consumer" /\ job[h].msg.command \in CommandId
  BY JobsAreTyped DEF Sync, At
<1>2. MessageBag(Sent(m))
  BY <1>1, NewIsMessage, Adding DEF Sent, QInv, Kind
<1>3. CASE Leave(h) /\ queue' \in {Sent(m), queue}
  BY <1>2, <1>3, LeaveQueue DEF QInv
<1>4. CASE Thrown(h) \/ \E code \in {"service_error", "not_found"} : Rejected(h, code)
  BY <1>1, <1>4, CatchQueue
<1> QED
  BY <1>3, <1>4 DEF Sync

LEMMA AbortsQueue ==
  ASSUME QInv, NEW h \in Handler, job[h].role = "consumer", BatchAborts(h) \/ Evicted(h)
  PROVE  /\ QInv'
         /\ job[h].msg.attempts < MaxAttempts =>
              BagIn([job[h].msg EXCEPT !.attempts = @ + 1], queue')
<1>1. job[h].msg \in Message /\ MessageBag(queue)
  BY JobsAreTyped DEF QInv
<1>2. PICK q : MessageBag(q) /\ queue' = Redelivered({job[h].msg}, q)
  <2>1. CASE queue' = Redelivered({job[h].msg}, queue)
    BY <1>1, <2>1
  <2>2. ASSUME NEW m \in BagToSet(queue),
               queue' = Redelivered({job[h].msg}, Redelivered({m}, queue (-) SetToBag({m})))
        PROVE  \E q : MessageBag(q) /\ queue' = Redelivered({job[h].msg}, q)
    <3>1. m \in Message /\ MessageBag(queue (-) SetToBag({m}))
      BY <1>1, Taking DEF MessageBag
    <3>2. MessageBag(Redelivered({m}, queue (-) SetToBag({m})))
      BY <3>1, ComingBack
    <3> QED
      BY <2>2, <3>2
  <2> QED
    BY <2>1, <2>2 DEF BatchAborts, Evicted
<1>3. /\ MessageBag(queue')
      /\ job[h].msg.attempts < MaxAttempts =>
           BagIn([job[h].msg EXCEPT !.attempts = @ + 1], queue')
  BY <1>1, <1>2, ComingBack
<1> QED
  BY <1>3, LeaveQueue DEF BatchAborts, Evicted

LEMMA ConsumeQueue ==
  ASSUME QInv, NEW h \in Handler, Consume(h)
  PROVE  QInv'
<1>1. CASE StoreThrew(h)
  BY <1>1, CatchQueue DEF StoreThrew, Finished, At
<1>2. CASE AfterCatch(h)
  BY <1>2, LaterQueue DEF AfterCatch, Finished, At
<1>3. CASE BatchAborts(h)
  BY <1>3, AbortsQueue DEF BatchAborts, Finished, At
<1> QED
  BY <1>1, <1>2, <1>3, DeliverQueue, AfterRetryQueue, RunBrowserQueue, AfterCompleteQueue,
     SyncStepQueue DEF Consume
-----------------------------------------------------------------------------
(***************************************************************************)
(* The calls themselves.                                                   *)
(***************************************************************************)
\* A step leaves a transition what it is, for the command it is for, or ends it
\* unmade; what it is over with is logged.
Follows(c, x) ==
  /\ Logs(x)'
  /\ c.op \in Transition => x.step = "refused" \/ (x.op = c.op /\ x.req.command = c.req.command)

LEMMA WriteFollows ==
  ASSUME QInv, NEW h \in Handler, WriteNext(h)
  PROVE  LogKept /\ \E x : call' = [call EXCEPT ![h] = x] /\ Follows(call[h], x)
<1>0. PICK c : c = call[h]
  OBVIOUS
<1> DEFINE w == Head(c.todo)
           id == c.req.command
           e == [status |-> w.status, req |-> c.req, at |-> c.now, submitted |-> c.op = "submit"]
           rec == UpdateCommandRecord(c.base, w.status, w.reason)
           next == [c EXCEPT !.todo = Tail(@), !.result = IF w.kind = "record" THEN rec ELSE @]
           x == IF Len(c.todo) = 1 THEN AfterWrites(next) ELSE next
<1>1. /\ c \in Call /\ CallInv(c) /\ Logs(c) /\ c.step = "write" /\ c.todo \in Seq(Write)
      /\ c.todo # <<>> /\ c.req \in Envelope /\ id \in CommandId /\ c.now \in Nat
  BY <1>0, CallsAreLegal DEF QInv, Calls, WriteNext, CallInv, Call, Envelope
<1>2. /\ w = c.todo[1] /\ w \in Write /\ 1 \in DOMAIN c.todo
      /\ Tail(c.todo) = <<>> <=> Len(c.todo) = 1
      /\ \A i \in DOMAIN c.todo : i > 1 => i - 1 \in DOMAIN Tail(c.todo)
      /\ \A i \in DOMAIN Tail(c.todo) : Tail(c.todo)[i] = c.todo[i + 1]
      /\ DOMAIN c.todo \subseteq Nat \ {0}
  BY <1>1, TailOf
<1>3. call' = [call EXCEPT ![h] = x]
  BY <1>0 DEF WriteNext
<1>4. /\ LogKept
      /\ w.kind = "event" => Logged(id, w.status)'
  <2>1. events[id] \in Seq(Event) /\ events \in [CommandId -> Seq(Event)]
    BY <1>1 DEF QInv, IInv, TypeOK
  <2>2. ASSUME w.kind = "event", NEW log \in Logging(events[id], e),
               events' = [events EXCEPT ![id] = log]
        PROVE  LogKept /\ Logged(id, w.status)'
    <3>1. e \in Event /\ e.status = w.status
      BY <1>1, <1>2, <2>2 DEF Write, Event
    <3> HIDE DEF e
    <3>2. /\ DOMAIN events[id] \subseteq DOMAIN events'[id]
          /\ \A i \in DOMAIN events[id] : events'[id][i].status = events[id][i].status
          /\ \E i \in DOMAIN events'[id] : events'[id][i] = e
      BY <1>1, <2>1, <2>2, <3>1, LogGrows
    <3>3. \A k \in CommandId : k # id => events'[k] = events[k]
      BY <2>1, <2>2
    <3> QED
      BY <3>1, <3>2, <3>3 DEF LogKept, Logged
  <2>3. CASE w.kind # "event" /\ UNCHANGED events
    BY <2>3, QuietLog
  <2> QED
    BY <1>0, <2>2, <2>3 DEF WriteNext
<1> HIDE DEF e
<1>5. /\ next.op = c.op /\ next.step = "write" /\ next.req = c.req /\ next.todo = Tail(c.todo)
  BY <1>1 DEF Call
<1> HIDE DEF w, next, rec
<1>6. ASSUME c.op \in Transition
      PROVE  \/ Logged(id, StatusOf(c.op))'
             \/ \E i \in DOMAIN Tail(c.todo) : Tail(c.todo)[i] = EventOf(StatusOf(c.op))
  <2>1. CASE Logged(id, StatusOf(c.op))
    BY <1>1, <1>4, <2>1 DEF LogKept
  <2>2. ASSUME NEW i \in DOMAIN c.todo, c.todo[i] = EventOf(StatusOf(c.op))
        PROVE  \/ Logged(id, StatusOf(c.op))'
               \/ \E k \in DOMAIN Tail(c.todo) : Tail(c.todo)[k] = EventOf(StatusOf(c.op))
    <3>1. CASE i = 1
      BY <1>2, <1>4, <2>2, <3>1 DEF EventOf
    <3>2. CASE i # 1
      <4>1. i \in Nat /\ i > 1 /\ i - 1 \in DOMAIN Tail(c.todo) /\ (i - 1) + 1 = i
        BY <1>2, <3>2
      <4> QED
        BY <1>2, <2>2, <4>1
    <3> QED
      BY <3>1, <3>2
  <2> QED
    BY <1>1, <1>6, <2>1, <2>2 DEF Logs
<1>7. CASE Len(c.todo) = 1
  <2>1. x.op = c.op /\ x.req = c.req /\ x.step \in {"final", "done"}
        /\ (x.step = "final" => x.op \in {"approve", "retry"})
    BY <1>5, <1>7 DEF AfterWrites, NoCall
  <2>2. DOMAIN Tail(c.todo) = {}
    BY <1>2, <1>7
  <2>3. c.op \in Transition => Logged(id, StatusOf(c.op))'
    BY <1>6, <2>2
  <2> HIDE DEF x
  <2>4. Logs(x)'
    BY <2>1, <2>3 DEF Logs, Transition
  <2> QED
    BY <1>0, <1>3, <1>4, <2>1, <2>4 DEF Follows
<1>8. CASE Len(c.todo) # 1
  <2>1. x.op = c.op /\ x.req = c.req /\ x.step = "write" /\ x.todo = Tail(c.todo)
    BY <1>5, <1>8
  <2> HIDE DEF x
  <2>2. Logs(x)'
    BY <1>6, <2>1 DEF Logs
  <2> QED
    BY <1>0, <1>3, <1>4, <2>1, <2>2 DEF Follows
<1> QED
  BY <1>7, <1>8

LEMMA TurnFollows ==
  ASSUME QInv, NEW h \in Handler, CallStep(h), ~WriteNext(h)
  PROVE  LogKept /\ \E x : call' = [call EXCEPT ![h] = x] /\ Follows(call[h], x)
<1>0. PICK c : c = call[h]
  OBVIOUS
<1>1. c \in Call /\ CallInv(c) /\ Logs(c) /\ c.req.command \in CommandId
  BY <1>0, CallsAreLegal DEF QInv, Calls, Call, Envelope
<1>2. LogKept
  <2>1. UNCHANGED events
    BY DEF CallStep, CheckCommand, GetForExecute, Read, LeaveUnread, ListLease, MissLease,
           Decide, MissApproval, GetForTransition, ReadBack, Become
  <2> QED
    BY <2>1, QuietLog
<1> DEFINE Goal == \E x : call' = [call EXCEPT ![h] = x] /\ Follows(c, x)
<1>3. ASSUME NEW x, Become(h, x), x.step \in {"get", "read", "refused"} \/ x.op \notin Transition,
             \/ x.step = "refused"
             \/ c.op \notin Transition
             \/ (x.op = c.op /\ x.req.command = c.req.command)
      PROVE  Goal
  <2>1. Logs(x)'
    BY <1>3 DEF Logs
  <2> QED
    BY <1>3, <2>1 DEF Follows, Become
<1>4. ASSUME NEW x, Become(h, x), Logs(x), x.op = c.op, x.req.command = c.req.command
      PROVE  Goal
  <2>1. Logs(x)'
    BY <1>4 DEF Logs, Logged, Become
  <2> QED
    BY <1>4, <2>1 DEF Follows, Become
<1> HIDE DEF Goal
<1>5. ASSUME Become(h, [NoCall EXCEPT !.step = "refused"]) PROVE Goal
  <2>1. [NoCall EXCEPT !.step = "refused"].step = "refused"
    BY DEF NoCall
  <2> QED
    BY <1>3, <1>5, <2>1
<1>6. ASSUME CheckCommand(h) PROVE Goal
  <2>1. c.step = "check" /\ c.op \in {"approve", "retry", "fail"}
    BY <1>0, <1>1, <1>6 DEF CheckCommand, CallInv, BaseInv
  <2>2. PICK cmd \in CommandsSeen(c.req.command) :
          \/ Become(h, [NoCall EXCEPT !.step = "refused"])
          \/ c.op = "approve" /\ Become(h, Execute(c, "approve", [cmd.req EXCEPT !.explicit = TRUE]))
          \/ c.op = "retry" /\ Become(h, Execute(c, "retry", cmd.req))
          \/ /\ c.op = "fail" /\ cmd.status = "failed"
             /\ Become(h, [c EXCEPT !.step = "done", !.result = cmd])
          \/ c.op = "fail" /\ Become(h, [c EXCEPT !.step = "get"])
    BY <1>0, <1>6, <2>1 DEF CheckCommand
  <2>3. ASSUME NEW op \in {"approve", "retry"}, NEW q, c.op = op, Become(h, Execute(c, op, q))
        PROVE  Goal
    <3>1. Execute(c, op, q).op = op
      BY <1>1 DEF Execute, Call
    <3> QED
      BY <1>3, <2>3, <3>1 DEF Transition
  <2>4. CASE c.op = "fail" /\ cmd.status = "failed"
             /\ Become(h, [c EXCEPT !.step = "done", !.result = cmd])
    <3> DEFINE x == [c EXCEPT !.step = "done", !.result = cmd]
    <3>1. x.op = "fail" /\ x.step = "done" /\ x.req = c.req /\ x.op = c.op
      BY <1>1, <2>4 DEF Call
    <3>2. cmd = commands[c.req.command]
      BY <2>4 DEF CommandsSeen, NoCommand
    <3>3. Logged(c.req.command, "failed")
      BY <1>1, <2>4, <3>2 DEF QInv, IInv, StoreInv, RecordNeverAheadOfLog
    <3> HIDE DEF x
    <3>4. Logs(x)
      BY <3>1, <3>3 DEF Logs, StatusOf
    <3> QED
      BY <1>4, <2>4, <3>1, <3>4 DEF x
  <2>5. CASE c.op = "fail" /\ Become(h, [c EXCEPT !.step = "get"])
    <3> DEFINE x == [c EXCEPT !.step = "get"]
    <3>1. x.op = c.op /\ x.step = "get" /\ x.req = c.req
      BY <1>1 DEF Call
    <3> HIDE DEF x
    <3> QED
      BY <1>3, <2>5, <3>1 DEF x
  <2> QED
    BY <1>5, <2>2, <2>3, <2>4, <2>5
<1>7. ASSUME c.op \in Submitting, NEW x, Become(h, x), x.op = c.op PROVE Goal
  BY <1>3, <1>7 DEF Submitting, Transition
<1>8. ASSUME GetForExecute(h) PROVE Goal
  <2>1. c.op \in Submitting
    BY <1>0, <1>8 DEF GetForExecute
  <2>2. PICK base, pending, unlisted, todo :
          \/ Become(h, [c EXCEPT !.step = "read", !.base = base, !.pending = pending,
                                 !.unlisted = unlisted])
          \/ Become(h, Decided([c EXCEPT !.base = base], todo))
    BY <1>0, <1>8 DEF GetForExecute
  <2> DEFINE x == [c EXCEPT !.step = "read", !.base = base, !.pending = pending,
                            !.unlisted = unlisted]
             y == Decided([c EXCEPT !.base = base], todo)
  <2>3. x.op = c.op /\ y.op = c.op
    BY <1>1 DEF Decided, Call
  <2>4. Become(h, x) \/ Become(h, y)
    BY <2>2
  <2> HIDE DEF x, y
  <2> QED
    BY <1>7, <2>1, <2>3, <2>4
<1>9. ASSUME \/ \E what \in Check : Read(h, what) \/ LeaveUnread(h, what)
             \/ \E l \in LeaseId : ListLease(h, l) \/ MissLease(h, l)
             \/ Decide(h)
             \/ MissApproval(h)
      PROVE  Goal
  <2>1. c.step = "read"
    BY <1>0, <1>9 DEF Read, LeaveUnread, ListLease, MissLease, Answered, Decide, MissApproval
  <2>2. c.op \in Submitting
    BY <1>1, <2>1 DEF CallInv, BaseInv
  <2>3. ASSUME NEW pending, NEW barred, NEW failed, NEW unlisted, NEW rivals, NEW todo
        PROVE  /\ [c EXCEPT !.pending = pending, !.failed = failed].op = c.op
               /\ [c EXCEPT !.pending = pending, !.barred = barred, !.failed = failed].op = c.op
               /\ [c EXCEPT !.unlisted = unlisted, !.failed = failed].op = c.op
               /\ [c EXCEPT !.unlisted = unlisted, !.rivals = rivals].op = c.op
               /\ Decided(c, todo).op = c.op
    BY <1>1 DEF Call, Decided
  <2>4. ASSUME NEW what \in Check, Read(h, what) PROVE Goal
    <3> DEFINE x == [c EXCEPT !.pending = @ \ {what},
                              !.failed = IF Refused(what, c.req, c.now, sessions, leases)
                                         THEN @ \cup {what} ELSE @]
    <3>1. Become(h, x)
      BY <1>0, <2>4 DEF Read
    <3>2. x.op = c.op
      BY <2>3
    <3> HIDE DEF x
    <3> QED
      BY <1>7, <2>2, <3>1, <3>2
  <2>5. ASSUME NEW what \in Check, LeaveUnread(h, what) PROVE Goal
    <3> DEFINE x == [c EXCEPT !.pending = @ \ {what}, !.barred = @ \ {what},
                              !.failed = IF what \in {"session", "lease"}
                                         THEN @ \cup {what} ELSE @]
    <3>1. Become(h, x)
      BY <1>0, <2>5 DEF LeaveUnread
    <3>2. x.op = c.op
      BY <2>3
    <3> HIDE DEF x
    <3> QED
      BY <1>7, <2>2, <3>1, <3>2
  <2>6. CASE Decide(h) \/ MissApproval(h)
    <3>1. PICK todo : Become(h, Decided(c, todo))
      BY <1>0, <2>6 DEF Decide, MissApproval
    <3> QED
      BY <1>7, <2>2, <2>3, <3>1
  <2>7. ASSUME NEW l \in LeaseId, ListLease(h, l) PROVE Goal
    <3> DEFINE x == [c EXCEPT !.unlisted = @ \ {l},
                              !.failed = IF HoldsResource(leases[l], c.req.scope)
                                         THEN @ \cup {"leases"} ELSE @]
    <3>1. Become(h, x)
      BY <1>0, <2>7 DEF ListLease
    <3>2. x.op = c.op
      BY <2>3
    <3> HIDE DEF x
    <3> QED
      BY <1>7, <2>2, <3>1, <3>2
  <2>8. ASSUME NEW l \in LeaseId, MissLease(h, l) PROVE Goal
    <3> DEFINE x == [c EXCEPT !.unlisted = @ \ {l}, !.rivals = @ \ {l}]
    <3>1. Become(h, x)
      BY <1>0, <2>8 DEF MissLease
    <3>2. x.op = c.op
      BY <2>3
    <3> HIDE DEF x
    <3> QED
      BY <1>7, <2>2, <3>1, <3>2
  <2> QED
    BY <1>9, <2>4, <2>5, <2>6, <2>7, <2>8
<1>10. ASSUME GetForTransition(h) PROVE Goal
  <2> DEFINE todo == <<EventOf(StatusOf(c.op)), RecordOf(StatusOf(c.op), c.reason)>>
  <2>1. PICK cmd \in CommandsSeen(c.req.command) :
          \/ Become(h, [NoCall EXCEPT !.step = "refused"])
          \/ /\ cmd.status # "absent"
             /\ Become(h, [c EXCEPT !.step = "write", !.base = cmd, !.req = cmd.req,
                                    !.now = clock, !.todo = todo])
    BY <1>0, <1>10 DEF GetForTransition
  <2>2. CASE cmd.status # "absent"
             /\ Become(h, [c EXCEPT !.step = "write", !.base = cmd, !.req = cmd.req,
                                    !.now = clock, !.todo = todo])
    <3> DEFINE x == [c EXCEPT !.step = "write", !.base = cmd, !.req = cmd.req,
                              !.now = clock, !.todo = todo]
    <3>1. cmd.req.command = c.req.command
      BY <1>1, <2>2, SeenTypes DEF QInv
    <3>2. 1 \in DOMAIN todo /\ todo[1] = EventOf(StatusOf(c.op))
      OBVIOUS
    <3> HIDE DEF todo
    <3>3. x.op = c.op /\ x.req = cmd.req /\ x.step = "write" /\ x.todo = todo
      BY <1>1 DEF Call
    <3> HIDE DEF x
    <3>4. Logs(x)
      BY <3>2, <3>3 DEF Logs
    <3> QED
      BY <1>4, <2>2, <3>1, <3>3, <3>4 DEF x
  <2> QED
    BY <1>5, <2>1, <2>2
<1>11. ASSUME ReadBack(h) PROVE Goal
  <2>1. c.op \notin Transition
    BY <1>0, <1>1, <1>11 DEF ReadBack, Logs
  <2>2. PICK cmd \in CommandsSeen(c.req.command) :
          \/ Become(h, [NoCall EXCEPT !.step = "refused"])
          \/ Become(h, [c EXCEPT !.step = "done", !.result = cmd])
    BY <1>0, <1>11 DEF ReadBack
  <2> DEFINE x == [c EXCEPT !.step = "done", !.result = cmd]
  <2>3. x.op = c.op
    BY <1>1 DEF Call
  <2> HIDE DEF x
  <2> QED
    BY <1>3, <1>5, <2>1, <2>2, <2>3 DEF x
<1>12. Goal
  BY <1>6, <1>8, <1>9, <1>10, <1>11 DEF CallStep
<1> QED
  BY <1>0, <1>2, <1>12 DEF Goal

LEMMA CallStepQueue ==
  ASSUME QInv, NEW h \in Handler, CallStep(h), UNCHANGED <<queue, job>>
  PROVE  QInv'
<1>1. IInv'
  BY CallStepKeeps DEF QInv
<1>2. LogKept /\ \E x : call' = [call EXCEPT ![h] = x] /\ Follows(call[h], x)
  BY WriteFollows, TurnFollows
<1>3. PICK x : call' = [call EXCEPT ![h] = x] /\ Follows(call[h], x)
  BY <1>2
<1>4. PICK j, c : j = job[h] /\ c = call[h]
  OBVIOUS
<1>5. j \in Job /\ JobFits(j, c) /\ c.step \notin {"refused", "thrown"}
  BY <1>4 DEF QInv, CallStep, CheckCommand, GetForExecute, Read, LeaveUnread, ListLease,
              MissLease, Answered, Decide, MissApproval, GetForTransition, WriteNext, ReadBack
<1>6. JobFits(j, x)
  <2>1. \A op \in Transition : Runs(c, op, j.msg.command) => Runs(x, op, j.msg.command)
    BY <1>3, <1>4, <1>5 DEF Follows, Runs
  <2> QED
    BY <1>5, <2>1 DEF JobFits, Transition
<1>7. JobFits(j, x)'
  BY <1>2, <1>5, <1>6, FitsStay
<1>8. job' = [job EXCEPT ![h] = j] /\ MessageBag(queue') /\ Logs(x)'
  BY <1>3, <1>4 DEF QInv, MessageBag, Follows
<1> QED
  BY <1>1, <1>2, <1>3, <1>5, <1>7, <1>8, MoveQueue
-----------------------------------------------------------------------------
LEMMA ThrowsQueue ==
  ASSUME QInv, NEW h \in Handler, Throws(h)
  PROVE  QInv'
<1>1. [NoCall EXCEPT !.step = "thrown"] \in Call /\ CallInv([NoCall EXCEPT !.step = "thrown"])
  BY Endings DEF QInv, IInv, Quiet
<1>2. PICK c \in Call : CallInv(c) /\ c = [NoCall EXCEPT !.step = "thrown"]
  BY <1>1
<1>3. c.op = "none" /\ c.step = "thrown"
  BY <1>2 DEF NoCall
<1>4. PICK j : j = job[h]
  OBVIOUS
<1>5. j \in Job /\ JobFits(j, c) /\ Logs(c)
  BY <1>3, <1>4 DEF QInv, JobFits, Runs, Logs, Transition
<1>6. Become(h, c) /\ job' = [job EXCEPT ![h] = j] /\ MessageBag(queue')
  BY <1>2, <1>4 DEF Throws, Abort, QInv, MessageBag
<1> QED
  BY <1>2, <1>5, <1>6, BecomeQueue

\* What changes under the calls changes only what bars them.
LEMMA EnvironmentQueue ==
  ASSUME QInv, Environment, UNCHANGED <<queue, job>>
  PROVE  QInv'
<1>1. IInv' /\ call \in [Handler -> Call]
  BY EnvironmentKeeps DEF QInv, IInv, TypeOK
<1>2. LogKept
  BY QuietLog DEF Environment, StoreStep, CreateApproval, DeleteApproval
<1>3. \/ call' = call
      \/ call' = [h \in Handler |-> [call[h] EXCEPT
           !.barred = {w \in @ : Refused(w, call[h].req, call[h].now, sessions', leases')},
           !.rivals = @ \cap Competing(leases', call[h].req)]]
  BY DEF Environment, StoreStep, CreateApproval, DeleteApproval
<1>4. ASSUME NEW h \in Handler
      PROVE  \E x : /\ x = call'[h]
                    /\ x.op = call[h].op /\ x.step = call[h].step /\ x.req = call[h].req
                    /\ x.todo = call[h].todo
  <2>1. call[h] \in Call
    BY <1>1
  <2>2. PICK c, barred, rivals :
          /\ c = call[h]
          /\ barred = {w \in c.barred : Refused(w, c.req, c.now, sessions', leases')}
          /\ rivals = c.rivals \cap Competing(leases', c.req)
    OBVIOUS
  <2>3. PICK x : x = [c EXCEPT !.barred = barred, !.rivals = rivals]
    OBVIOUS
  <2>4. /\ x.op = c.op /\ x.step = c.step /\ x.req = c.req
        /\ x.todo = c.todo /\ x.result = c.result
    BY <2>1, <2>2, <2>3 DEF Call
  <2>5. call'[h] = c \/ call'[h] = x
    BY <1>3, <2>2, <2>3
  <2> QED
    BY <2>2, <2>4, <2>5
<1>5. ASSUME NEW x \in Calls' PROVE Logs(x)'
  <2>1. PICK h \in Handler : x = call'[h]
    BY DEF Calls
  <2>2. PICK c : c = call[h]
    OBVIOUS
  <2>3. /\ c \in Call /\ Logs(c)
        /\ x.op = c.op /\ x.step = c.step /\ x.req = c.req /\ x.todo = c.todo
    BY <1>1, <1>4, <2>1, <2>2 DEF QInv, Calls
  <2> QED
    BY <1>2, <2>3, LogsStay
<1>6. ASSUME NEW h \in Handler PROVE JobFits(job[h], call[h])'
  <2>1. PICK j, c, x : j = job[h] /\ c = call[h] /\ x = call'[h]
    OBVIOUS
  <2>2. j \in Job /\ JobFits(j, c)
    BY <2>1 DEF QInv
  <2>3. JobFits(j, c)'
    BY <1>2, <2>2, FitsStay
  <2>4. x.op = c.op /\ x.step = c.step /\ x.req = c.req
    BY <1>4, <2>1
  <2>5. job'[h] = j /\ call'[h] = x
    BY <2>1
  <2> QED
    BY <2>3, <2>4, <2>5 DEF JobFits, Runs
<1> QED
  BY <1>1, <1>5, <1>6 DEF QInv, MessageBag

LEMMA StutterQueue ==
  ASSUME QInv, UNCHANGED allVars
  PROVE  QInv'
<1>1. IInv' /\ UNCHANGED <<events, call, queue, job>>
  BY StutterKeeps DEF QInv, allVars, vars, kernelVars
<1>2. ASSUME NEW c \in Calls' PROVE Logs(c)'
  BY <1>1 DEF QInv, Calls, Logs, Logged
<1>3. ASSUME NEW h \in Handler PROVE JobFits(job[h], call[h])'
  BY <1>1 DEF QInv, JobFits, Runs, Logged
<1>4. job' \in [Handler -> Job] /\ MessageBag(queue')
  BY <1>1 DEF QInv, MessageBag
<1> QED
  BY <1>1, <1>2, <1>3, <1>4 DEF QInv, MessageBag

LEMMA StartsQueue == InitQueue => QInv
<1> SUFFICES ASSUME InitQueue PROVE QInv
  OBVIOUS
<1>1. IInv
  BY Starts DEF InitQueue
<1>2. ASSUME NEW c \in Calls PROVE Logs(c)
  BY DEF InitQueue, Init, Calls, NoCall, Logs, Transition
<1>3. IsABag(EmptyBag) /\ BagToSet(EmptyBag) = {}
  BY DEF IsABag, EmptyBag, SetToBag, BagToSet
<1>4. job \in [Handler -> Job] /\ \A h \in Handler : JobFits(job[h], call[h])
  BY DEF InitQueue, NoJob, Job, JobFits
<1> QED
  BY <1>1, <1>2, <1>3, <1>4 DEF QInv, MessageBag, InitQueue

LEMMA QueueInvariance == SpecQueue => []QInv
<1>1. ASSUME QInv, NextQueue PROVE QInv'
  <2>1. ASSUME NEW h \in Handler, Evicted(h) PROVE QInv'
    BY <1>1, <2>1, AbortsQueue DEF Evicted
  <2> QED
    BY <1>1, <2>1, EnvironmentQueue, ClientQueue, CallStepQueue, RespondQueue, ConsumeQueue,
       ThrowsQueue DEF NextQueue, ServerStep
<1> QED
  BY <1>1, StartsQueue, StutterQueue, PTL DEF SpecQueue
-----------------------------------------------------------------------------
\* Every variable of the queue keeps to its type: no message without a command or
\* with more deliveries than MAX_QUEUE_ATTEMPTS is ever in the queue.
THEOREM QueueTypes == SpecQueue => []QueueTypeOK
<1>1. QInv => QueueTypeOK
  BY DEF QInv, IInv, MessageBag, QueueTypeOK
<1> QED
  BY <1>1, QueueInvariance, PTL

\* What is proved of the command services holds under the queue: its redeliveries,
\* its failures and the messages it loses break none of it.
THEOREM CommandsStaySafe ==
  SpecQueue => [](/\ RecordNeverAheadOfLog
                  /\ CompletionIsDeduplicated
                  /\ LiveDeployIsAuthorised)
<1>1. QInv => RecordNeverAheadOfLog /\ CompletionIsDeduplicated /\ LiveDeployIsAuthorised
  BY DEF QInv, IInv, StoreInv
<1> QED
  BY <1>1, QueueInvariance, PTL
-----------------------------------------------------------------------------
\* A handler keeps its message until it acknowledges it with an outcome logged, or
\* the message comes back.
LEMMA LastSeen ==
  ASSUME QInv, NextQueue, NEW h \in Handler,
         job[h].role = "consumer", job[h].msg.kind = "execute-command", job'[h] = NoJob,
         job[h].msg.attempts < MaxAttempts,
         ~BagIn([job[h].msg EXCEPT !.attempts = @ + 1], queue')
  PROVE  Logged(job[h].msg.command, "completed") \/ Logged(job[h].msg.command, "failed")
<1>1. /\ job \in [Handler -> Job] /\ job[h] # NoJob /\ MessageBag(queue)
      /\ job[h].msg \in Message /\ JobFits(job[h], call[h])
  BY JobsAreTyped DEF QInv, NoJob
<1>2. PICK g \in Handler : /\ ClientCall(g) \/ Respond(g) \/ Consume(g) \/ Evicted(g)
                           /\ job'[h] # job[h]
  BY <1>1 DEF NextQueue, ServerStep, Throws
<1>3. ASSUME NEW j, job' = [job EXCEPT ![g] = j]
      PROVE  g = h /\ j = NoJob
  BY <1>1, <1>2, <1>3
<1>4. ~ClientCall(g) /\ ~Respond(g)
  <2>1. ASSUME ClientCall(g) \/ Respond(g)
        PROVE  (\E j : job' = [job EXCEPT ![g] = j]) /\ (job[g] = NoJob \/ job[g].role = "client")
    BY <2>1 DEF ClientCall, Serve, Respond, Leave, Done
  <2> QED
    BY <1>1, <1>3, <2>1
<1>5. ~TryLater(g)
  <2>1. ASSUME TryLater(g) PROVE FALSE
    <3>1. g = h
      BY <1>3, <2>1 DEF TryLater, Leave
    <3> QED
      BY <1>1, <2>1, <3>1, ComingBack DEF TryLater
  <2> QED
    BY <2>1
<1>6. ASSUME NEW stage, NEW c, GoOn(g, stage, c) PROVE FALSE
  <2>1. job' = [job EXCEPT ![g] = [job[g] EXCEPT !.stage = stage]]
    BY <1>6 DEF GoOn
  <2>2. g = h /\ [job[g] EXCEPT !.stage = stage] = NoJob
    BY <1>3, <2>1
  <2>3. job[h] = [role |-> "consumer", msg |-> job[h].msg, stage |-> job[h].stage]
    BY JobsAreTyped
  <2>4. [job[g] EXCEPT !.stage = stage].role = "consumer"
    BY <2>2, <2>3
  <2> QED
    BY <2>2, <2>4 DEF NoJob
<1>7. ~Evicted(g) /\ ~BatchAborts(g)
  <2>1. ASSUME Evicted(g) \/ BatchAborts(g) PROVE FALSE
    <3>1. g = h
      BY <1>3, <2>1 DEF Evicted, BatchAborts, Leave
    <3> QED
      BY <2>1, <3>1, AbortsQueue
  <2> QED
    BY <2>1
<1>8. ~Thrown(g)
  BY <1>5, <1>6, Zenon DEF Thrown, FailCommand
<1>9. ASSUME Leave(g) PROVE g = h
  BY <1>3, <1>9 DEF Leave
<1>10. ASSUME NEW code, Rejected(g, code) PROVE FALSE
  <2>1. job[g].msg.kind # "execute-command" /\ Ack(g)
    BY <1>6, <1>10, Zenon DEF Rejected, FailCommand
  <2> QED
    BY <1>9, <2>1 DEF Ack
<1>11. CASE \E m \in BagToSet(queue) : Deliver(g, m)
  BY <1>1, <1>3, <1>11 DEF Deliver
<1>12. CASE AfterRetry(g)
  <2>1. Ack(g) /\ At(g, job[g].stage) /\ job[g].stage \in {"retry", "exhaust"}
    BY <1>5, <1>6, <1>12, Zenon DEF AfterRetry, FailCommand, Finished, At
  <2> QED
    BY <1>1, <1>9, <2>1 DEF Ack, JobFits
<1>13. CASE RunBrowser(g) \/ AfterComplete(g) \/ StoreThrew(g)
  BY <1>6, <1>8, <1>10, <1>13, Zenon DEF RunBrowser, AfterComplete, StoreThrew
<1>14. CASE Sync(g)
  <2>1. Leave(g) /\ At(g, "sync")
    BY <1>8, <1>10, <1>14 DEF Sync
  <2> QED
    BY <1>1, <1>9, <2>1 DEF At, JobFits
<1>15. CASE AfterCatch(g)
  <2>1. Leave(g) /\ At(g, "catch") /\ call[g].step = "done"
    BY <1>15 DEF AfterCatch, Ack, Finished
  <2> QED
    BY <1>9, <2>1, OverIsLogged DEF At
<1> QED
  BY <1>2, <1>4, <1>7, <1>11, <1>12, <1>13, <1>14, <1>15 DEF Consume

\* No check is dropped without an outcome (process-control-queue.ts:18-46,
\* 103-116), whatever fails and however often its message is delivered.
THEOREM AckedChecksHaveOutcomes == SpecQueue => AckedCheckHasOutcome
<1> DEFINE Kept == \A h \in Handler :
                     /\ job[h].role = "consumer"
                     /\ job[h].msg.kind = "execute-command"
                     /\ job'[h] = NoJob
                     /\ job[h].msg.attempts < MaxAttempts
                     /\ ~BagIn([job[h].msg EXCEPT !.attempts = @ + 1], queue')
                     => Logged(job[h].msg.command, "completed") \/ Logged(job[h].msg.command, "failed")
<1>1. QInv /\ NextQueue => Kept
  BY LastSeen
<1>2. QInv /\ [NextQueue]_allVars => [Kept]_allVars
  BY <1>1
<1> QED
  BY <1>2, QueueInvariance, PTL DEF SpecQueue, AckedCheckHasOutcome, Kept
-----------------------------------------------------------------------------
(***************************************************************************)
(* Nobody waits in vain: a command is left queued with nobody to take it   *)
(* up only by a failure, and only by a failure that can happen.            *)
(***************************************************************************)
\* Only who acts on a command that comes back queued may write that it is, and a
\* message whose loss would leave its command to nobody comes back.
Serves(j, c) ==
  /\ c.op \in Submitting =>
       \/ j.role = "client" /\ j.route # "other"
       \/ j.role = "consumer" /\ j.stage = "retry" /\ c.req.command = j.msg.command
  /\ c.op \notin Submitting => \A i \in Records(c) : c.todo[i].status # "queued"
  /\ c.step = "thrown" => "store" \in Failures
  /\ j.role = "consumer" =>
       /\ j.stage = "execute" => c.step = "idle"
       /\ j.stage \in {"execute", "complete"} => j.msg.kind = "execute-command"
       /\ j.stage = "catch" /\ j.msg.kind = "browser-evidence-postprocess" =>
            j.msg.attempts >= MaxAttempts

SInv == QInv /\ \A h \in Handler : Serves(job[h], call[h])

\* The failures that OnlyFaultsStrand names, where they may happen.
Fault ==
  \/ /\ "store" \in Failures
     /\ \E h \in Handler : job[h].role = "client" /\ call'[h].step = "thrown"
  \/ /\ Failures \cap {"store", "evicted"} # {}
     /\ \E h \in Handler : /\ job[h].role = "consumer" /\ job'[h] = NoJob
                           /\ job[h].msg.attempts = MaxAttempts
  \/ /\ "batch" \in Failures
     /\ \E m \in BagToSet(queue) : m.attempts = MaxAttempts /\ ~BagIn(m, queue')
  \/ /\ "command" \in Unread
     /\ \E h \in Handler : call[h].step # "refused" /\ call'[h].step = "refused"

\* The step keeps SInv, and strands a command only if something fails in it.
Kept == SInv' /\ \A id \in CommandId : Stranded(id)' => Stranded(id) \/ Fault

\* A handler moves on: what it had in its hands it keeps or puts into the queue.
LEMMA MoveAttends ==
  ASSUME SInv, QInv', NEW h \in Handler,
         NEW c, call' = [call EXCEPT ![h] = c],
         NEW j, job' = [job EXCEPT ![h] = j], Serves(j, c),
         \A id \in CommandId : commands'[id].status = "queued" =>
            \/ Takes(j, c, id)
            \/ Waiting(id)'
            \/ Fault
            \/ /\ commands[id].status = "queued"
               /\ ~Takes(job[h], call[h], id)
               /\ Waiting(id) => Waiting(id)'
  PROVE  Kept
<1>1. call \in [Handler -> Call] /\ job \in [Handler -> Job]
  BY DEF SInv, QInv, IInv, TypeOK
<1>2. /\ job'[h] = j /\ call'[h] = c
      /\ \A g \in Handler : g # h => job'[g] = job[g] /\ call'[g] = call[g]
  BY <1>1
<1>3. ASSUME NEW g \in Handler PROVE Serves(job[g], call[g])'
  <2>1. Serves(job'[g], call'[g])
    BY <1>2 DEF SInv
  <2> QED
    BY <2>1 DEF Serves, Records
<1>4. ASSUME NEW id \in CommandId, commands'[id].status = "queued", ~Fault, ~Stranded(id)
      PROVE  Attended(id)'
  <2>1. CASE Waiting(id)'
    BY <2>1 DEF Attended
  <2>2. ASSUME NEW g \in Handler, Takes(job'[g], call'[g], id) PROVE Attended(id)'
    <3>1. Takes(job[g], call[g], id)'
      BY <2>2 DEF Takes, Pursues, Records, ReturnsQueued
    <3> QED
      BY <3>1 DEF Attended
  <2>3. CASE Takes(j, c, id)
    BY <1>2, <2>2, <2>3
  <2>4. CASE /\ commands[id].status = "queued"
             /\ ~Takes(job[h], call[h], id)
             /\ Waiting(id) => Waiting(id)'
    <3>1. CASE Waiting(id)
      BY <2>1, <2>4, <3>1
    <3>2. ASSUME NEW g \in Handler, Takes(job[g], call[g], id) PROVE Attended(id)'
      BY <1>2, <2>2, <2>4, <3>2
    <3> QED
      BY <1>4, <2>4, <3>1, <3>2 DEF Stranded, Attended
  <2> QED
    BY <1>4, <2>1, <2>3, <2>4
<1>5. SInv'
  BY <1>3 DEF SInv
<1> QED
  BY <1>4, <1>5 DEF Kept, Stranded

LEMMA WaitingStays ==
  ASSUME BagToSet(queue) \subseteq BagToSet(queue'), NEW id
  PROVE  Waiting(id) => Waiting(id)'
BY DEF Waiting

\* The same of a step that makes no write.
LEMMA TurnAttends ==
  ASSUME SInv, QInv', NEW h \in Handler, NEW c, Become(h, c),
         NEW j, job' = [job EXCEPT ![h] = j], Serves(j, c),
         BagToSet(queue) \subseteq BagToSet(queue'),
         \A id \in CommandId : Takes(job[h], call[h], id) /\ commands[id].status = "queued" =>
            Takes(j, c, id) \/ Waiting(id)' \/ Fault
  PROVE  Kept
<1>1. call' = [call EXCEPT ![h] = c] /\ commands' = commands
  BY DEF Become
<1>2. ASSUME NEW id \in CommandId, commands'[id].status = "queued"
      PROVE  \/ Takes(j, c, id)
             \/ Waiting(id)'
             \/ Fault
             \/ /\ commands[id].status = "queued"
                /\ ~Takes(job[h], call[h], id)
                /\ Waiting(id) => Waiting(id)'
  BY <1>1, <1>2, WaitingStays
<1> QED
  BY <1>1, <1>2, MoveAttends
-----------------------------------------------------------------------------
(***************************************************************************)
(* Clients and consumers.                                                  *)
(***************************************************************************)
LEMMA OpeningsPursue ==
  ASSUME NEW id \in CommandId, NEW reason
  PROVE  /\ \A op \in Submitting \cup Transition : \A step \in {"check", "get"} :
              LET c == OnCommand(op, step, id) IN
              c.op = op /\ c.step = step /\ c.req.command = id /\ c.todo = <<>>
         /\ Retry(id).op = "retry" /\ Retry(id).todo = <<>> /\ Retry(id).req.command = id
         /\ Retry(id).step = "check" /\ Approve(id).step = "check"
         /\ Approve(id).op = "approve" /\ Approve(id).todo = <<>>
         /\ \A op \in Transition : /\ Move(op, id).op = op /\ Move(op, id).todo = <<>>
                                   /\ Move(op, id).step = "get"
         /\ Pursues(Retry(id), id) /\ Pursues(Fail(id, reason), id)
         /\ Fail(id, reason).op = "fail" /\ Fail(id, reason).todo = <<>>
         /\ Fail(id, reason).step = "check"
         /\ Pursues(Move("complete", id), id)
         /\ NoCall.op = "none" /\ NoCall.todo = <<>> /\ NoCall.step = "idle"
<1>1. AnyRequest \in Envelope
  BY Rest
<1>2. [AnyRequest EXCEPT !.command = id].command = id
  BY <1>1 DEF Envelope
<1>3. ASSUME NEW op, NEW step
      PROVE  LET c == OnCommand(op, step, id) IN
             /\ c.op = op /\ c.step = step /\ c.req.command = id /\ c.todo = <<>>
             /\ [c EXCEPT !.reason = reason].op = op /\ [c EXCEPT !.reason = reason].step = step
             /\ [c EXCEPT !.reason = reason].req.command = id
             /\ [c EXCEPT !.reason = reason].todo = <<>>
             /\ [c EXCEPT !.reason = "other"].op = op /\ [c EXCEPT !.reason = "other"].step = step
             /\ [c EXCEPT !.reason = "other"].req.command = id
             /\ [c EXCEPT !.reason = "other"].todo = <<>>
  BY <1>2 DEF OnCommand, NoCall
<1>4. NoCall.op = "none" /\ NoCall.todo = <<>> /\ NoCall.step = "idle"
  BY DEF NoCall
<1> QED
  BY <1>3, <1>4 DEF Retry, Approve, Fail, Move, Pursues

LEMMA ClientAttends ==
  ASSUME SInv, NEW h \in Handler, ClientCall(h)
  PROVE  Kept
<1>1. QInv'
  BY ClientQueue DEF SInv
<1>2. \E route \in Route : \E c : /\ Serve(h, route, c) /\ c.todo = <<>> /\ c.step # "thrown"
                                  /\ c.op \in Submitting => route # "other"
  <2>1. ASSUME NEW q \in Request
        PROVE  Submit(q).todo = <<>> /\ Submit(q).step = "get"
    BY DEF Submit, Execute, NoCall
  <2>2. ASSUME NEW id \in CommandId, NEW op \in {"reject", "cancel"}
        PROVE  Move(op, id).todo = <<>> /\ Move(op, id).op \notin Submitting
               /\ Move(op, id).step = "get"
    BY OpeningsPursue DEF Submitting, Transition
  <2>3. ASSUME NEW id \in CommandId
        PROVE  /\ Approve(id).todo = <<>> /\ Approve(id).step = "check"
               /\ Retry(id).todo = <<>> /\ Retry(id).step = "check"
    BY OpeningsPursue
  <2>4. "get" # "thrown" /\ "check" # "thrown"
    OBVIOUS
  <2> QED
    BY <2>1, <2>2, <2>3, <2>4, Zenon DEF ClientCall, Route
<1>3. PICK route \in Route : \E c : /\ Serve(h, route, c) /\ c.todo = <<>> /\ c.step # "thrown"
                                    /\ c.op \in Submitting => route # "other"
  BY <1>2
<1>4. PICK c : /\ Serve(h, route, c) /\ c.todo = <<>> /\ c.step # "thrown"
               /\ c.op \in Submitting => route # "other"
  BY <1>3
<1> DEFINE j == [role |-> "client", route |-> route]
<1>5. Serves(j, c)
  BY <1>4 DEF Serves, Records
<1>6. /\ job[h] = NoJob /\ job' = [job EXCEPT ![h] = j] /\ call' = [call EXCEPT ![h] = c]
      /\ commands' = commands /\ queue' = queue
  BY <1>4 DEF Serve, Begin
<1> HIDE DEF j
<1>7. ASSUME NEW id \in CommandId
      PROVE  ~Takes(job[h], call[h], id) /\ (Waiting(id) => Waiting(id)')
  BY <1>6 DEF Takes, NoJob, Waiting
<1> QED
  BY <1>1, <1>5, <1>6, <1>7, MoveAttends

LEMMA LeaveAttends ==
  ASSUME SInv, NEW h \in Handler, Leave(h), QInv',
         BagToSet(queue) \subseteq BagToSet(queue'),
         \A id \in CommandId : Takes(job[h], call[h], id) => Waiting(id)' \/ Fault
  PROVE  Kept
<1>1. Serves(NoJob, NoCall)
  BY DEF Serves, NoJob, NoCall, Submitting, Records
<1> QED
  BY <1>1, TurnAttends DEF Leave

LEMMA RespondAttends ==
  ASSUME SInv, NEW h \in Handler, Respond(h)
  PROVE  Kept
<1> DEFINE cmd == call[h].result
           m == New(KindFor(job[h].route, cmd), cmd.req.command)
<1>1. QInv' /\ job[h].role = "client" /\ call[h].step \in {"done", "refused", "thrown"}
  BY RespondQueue DEF SInv, Respond, Done
<1>2. m \in Message /\ m.command = cmd.req.command /\ m.kind # "browser-evidence-postprocess"
  <2>1. cmd.req.command \in CommandId
    BY CallsAreLegal DEF SInv, QInv, Call, Command, Envelope
  <2>2. KindFor(job[h].route, cmd) \in Kind \ {"browser-evidence-postprocess"}
    BY DEF KindFor, Kind
  <2> QED
    BY <2>1, <2>2, NewIsMessage DEF New
<1>3. /\ BagIn(m, Sent(m)) /\ BagToSet(queue) \subseteq BagToSet(Sent(m))
  BY <1>2, Adding DEF Sent, SInv, QInv
<1> HIDE DEF m
<1>4. BagToSet(queue) \subseteq BagToSet(queue')
  BY <1>3 DEF Respond, m
<1>5. ASSUME NEW id \in CommandId, Takes(job[h], call[h], id)
      PROVE  Waiting(id)'
  <2>1. Pursues(call[h], id)
    BY <1>1, <1>5 DEF Takes
  <2>2. call[h].step = "done" /\ call[h].op \in Submitting /\ ReturnsQueued(call[h], id)
    BY <1>1, <2>1 DEF Pursues
  <2>3. job[h].route # "other"
    BY <1>1, <2>2 DEF SInv, Serves
  <2>4. queue' = Sent(m) /\ cmd.req.command = id
    BY <2>2, <2>3 DEF Respond, ReturnsQueued, m
  <2> QED
    BY <1>2, <1>3, <2>4 DEF Waiting, BagIn
<1> QED
  BY <1>1, <1>4, <1>5, LeaveAttends DEF Respond

LEMMA DeliverAttends ==
  ASSUME SInv, NEW h \in Handler, NEW m \in BagToSet(queue), Deliver(h, m)
  PROVE  Kept
<1> DEFINE stage == CASE m.kind = "retry-command"   -> "retry"
                      [] m.kind = "execute-command" -> "execute"
                      [] OTHER                      -> "sync"
           j == [role |-> "consumer", msg |-> m, stage |-> stage]
           c == IF m.kind = "retry-command" THEN Retry(m.command) ELSE NoCall
<1>1. QInv' /\ m.kind \in Kind /\ m.command \in CommandId /\ MessageBag(queue)
  BY DeliverQueue DEF SInv, QInv, MessageBag, Message
<1>2. /\ m.kind = "retry-command" => stage = "retry" /\ c = Retry(m.command)
      /\ m.kind # "retry-command" => c = NoCall
      /\ stage \in {"retry", "execute", "sync"}
      /\ m.kind = "execute-command" => stage = "execute"
      /\ m.kind = "browser-evidence-postprocess" => stage = "sync"
  OBVIOUS
<1> HIDE DEF stage, c
<1>3. Serves(j, c)
  <2>1. CASE m.kind = "retry-command"
    BY <1>1, <1>2, <2>1, OpeningsPursue DEF Serves, Records
  <2>2. CASE m.kind # "retry-command"
    <3>1. c.op = "none" /\ c.todo = <<>> /\ c.step = "idle"
      BY <1>2, <2>2 DEF NoCall
    <3>2. c.op \notin Submitting /\ Records(c) = {}
      BY <3>1 DEF Submitting, Records
    <3>3. stage = "execute" => m.kind = "execute-command"
      BY <1>1, <1>2, <2>2 DEF Kind
    <3>4. stage \notin {"complete", "catch"}
      BY <1>2
    <3>5. j.role = "consumer" /\ j.stage = stage /\ j.msg = m
      OBVIOUS
    <3> HIDE DEF j
    <3>6. c.step # "thrown"
      BY <3>1
    <3> QED
      BY <3>1, <3>2, <3>3, <3>4, <3>5, <3>6 DEF Serves
  <2> QED
    BY <2>1, <2>2
<1>4. /\ job[h] = NoJob /\ job' = [job EXCEPT ![h] = j] /\ call' = [call EXCEPT ![h] = c]
      /\ commands' = commands /\ queue' = queue (-) SetToBag({m})
  BY DEF Deliver, Become, stage, c
<1>5. BagToSet(queue) \subseteq BagToSet(queue') \cup {m}
  BY <1>1, <1>4, Taking
<1>6. m.kind # "browser-evidence-postprocess" => Takes(j, c, m.command)
  BY <1>1, <1>2, OpeningsPursue DEF Takes, Kind
<1>7. ASSUME NEW id \in CommandId
      PROVE  /\ ~Takes(job[h], call[h], id)
             /\ Waiting(id) => Waiting(id)' \/ Takes(j, c, id)
  <2>1. ~Takes(job[h], call[h], id)
    BY <1>4 DEF Takes, NoJob
  <2>2. ASSUME NEW x \in BagToSet(queue), x.command = id, x.kind # "browser-evidence-postprocess"
        PROVE  Waiting(id)' \/ Takes(j, c, id)
    BY <1>5, <1>6, <2>2 DEF Waiting
  <2> QED
    BY <2>1, <2>2 DEF Waiting
<1> HIDE DEF j
<1>8. \A id \in CommandId : commands'[id].status = "queued" =>
            \/ Takes(j, c, id)
            \/ Waiting(id)'
            \/ /\ commands[id].status = "queued"
               /\ ~Takes(job[h], call[h], id)
               /\ Waiting(id) => Waiting(id)'
  BY <1>4, <1>7
<1> QED
  BY <1>1, <1>3, <1>4, <1>8, MoveAttends

\* What the consumer may do with a message that it has in its hands.
LEMMA LaterAttends ==
  ASSUME SInv, NEW h \in Handler, job[h].role = "consumer", TryLater(h), ~Exhausted(h),
         job[h].msg.kind # "browser-evidence-postprocess"
  PROVE  Kept
<1> DEFINE m == [job[h].msg EXCEPT !.attempts = @ + 1]
<1>1. QInv' /\ job[h].msg \in Message /\ MessageBag(queue)
  BY LaterQueue, JobsAreTyped DEF SInv, QInv
<1>2. job[h].msg.attempts < MaxAttempts
  BY <1>1, ControlQueueAssumption DEF Exhausted, Message
<1>3. m.command = job[h].msg.command /\ m.kind = job[h].msg.kind
  BY <1>1 DEF Message
<1>4. m \in BagToSet(queue') /\ BagToSet(queue) \subseteq BagToSet(queue')
  BY <1>1, <1>2, ComingBack DEF TryLater, BagIn, BagToSet
<1> HIDE DEF m
<1>5. ASSUME NEW id \in CommandId, Takes(job[h], call[h], id)
      PROVE  Waiting(id)'
  <2>1. m.command = id
    BY <1>3, <1>5 DEF Takes
  <2> QED
    BY <1>3, <1>4, <2>1 DEF Waiting
<1> QED
  BY <1>1, <1>4, <1>5, LeaveAttends DEF TryLater

LEMMA AckAttends ==
  ASSUME SInv, NEW h \in Handler, QInv', Leave(h), BagToSet(queue) \subseteq BagToSet(queue'),
         \A id \in CommandId : ~Takes(job[h], call[h], id)
  PROVE  Kept
BY LeaveAttends

LEMMA GoOnAttends ==
  ASSUME SInv, NEW h \in Handler, job[h].role = "consumer", QInv',
         NEW stage \in Stage \ {"execute"}, NEW c, GoOn(h, stage, c),
         c.todo = <<>>, c.op \notin Submitting, c.step \notin {"thrown", "done"},
         stage = "complete" => job[h].msg.kind = "execute-command",
         stage = "catch" /\ job[h].msg.kind = "browser-evidence-postprocess" =>
            job[h].msg.attempts >= MaxAttempts,
         \A id \in CommandId : Takes(job[h], call[h], id) => stage # "sync" /\ Pursues(c, id)
  PROVE  Kept
<1> DEFINE j == [role |-> "consumer", msg |-> job[h].msg, stage |-> stage]
<1>1. job[h] = [role |-> "consumer", msg |-> job[h].msg, stage |-> job[h].stage]
  BY JobsAreTyped DEF SInv
<1>2. job' = [job EXCEPT ![h] = j]
  <2>1. [job[h] EXCEPT !.stage = stage] = j
    BY <1>1
  <2> QED
    BY <2>1 DEF GoOn
<1>3. Serves(j, c)
  BY DEF Serves, Records
<1>4. ASSUME NEW id \in CommandId, Takes(job[h], call[h], id)
      PROVE  Takes(j, c, id)
  <2>1. job[h].msg.command = id /\ stage # "sync" /\ Pursues(c, id)
    BY <1>4 DEF Takes
  <2> QED
    BY <2>1 DEF Takes
<1> HIDE DEF j
<1>5. Become(h, c) /\ queue' = queue
  BY DEF GoOn
<1> QED
  BY <1>2, <1>3, <1>4, <1>5, TurnAttends

LEMMA FailAttends ==
  ASSUME SInv, NEW h \in Handler, job[h].role = "consumer",
         NEW stage \in {"exhaust", "catch"}, NEW reason \in FailReason,
         stage = "exhaust" => job[h].msg.kind = "retry-command",
         job[h].msg.kind = "execute-command" \/ Exhausted(h),
         FailCommand(h, stage, reason)
  PROVE  Kept
<1> DEFINE c == Fail(job[h].msg.command, reason)
<1>1. QInv' /\ job[h].msg.command \in CommandId
  BY FailQueue, JobsAreTyped DEF SInv
<1>2. /\ c.todo = <<>> /\ c.op = "fail" /\ Pursues(c, job[h].msg.command)
      /\ c.step = "check"
  BY <1>1, OpeningsPursue
<1>3. GoOn(h, stage, c) /\ stage \in Stage \ {"execute"} /\ stage # "sync"
  BY DEF FailCommand, Stage
<1> HIDE DEF c
<1>4. \A id \in CommandId : Takes(job[h], call[h], id) => stage # "sync" /\ Pursues(c, id)
  BY <1>2, <1>3 DEF Takes
<1>5. c.op \notin Submitting /\ stage # "complete" /\ c.step \notin {"thrown", "done"}
  BY <1>2 DEF Submitting
<1>6. job[h].msg.kind = "browser-evidence-postprocess" => job[h].msg.attempts >= MaxAttempts
  BY DEF Exhausted
<1>7. /\ stage \in Stage \ {"execute"} /\ GoOn(h, stage, c) /\ QInv'
      /\ stage = "complete" => job[h].msg.kind = "execute-command"
      /\ stage = "catch" /\ job[h].msg.kind = "browser-evidence-postprocess" =>
           job[h].msg.attempts >= MaxAttempts
  BY <1>1, <1>3, <1>5, <1>6
<1>8. \A id \in CommandId : Takes(job[h], call[h], id) => stage # "sync" /\ Pursues(c, id)
  BY <1>4
<1> QED
  BY <1>2, <1>5, <1>7, <1>8, GoOnAttends

\* The catch clause fails the command, or its message comes back.
LEMMA ThrownAttends ==
  ASSUME SInv, NEW h \in Handler, job[h].role = "consumer", Thrown(h),
         \/ job[h].msg.kind # "browser-evidence-postprocess"
         \/ \A id \in CommandId : ~Takes(job[h], call[h], id)
  PROVE  Kept
<1>1. CASE Exhausted(h)
  BY <1>1, FailAttends DEF Thrown, FailReason
<1>2. CASE ~Exhausted(h) /\ job[h].msg.kind # "browser-evidence-postprocess"
  BY <1>2, LaterAttends DEF Thrown
<1>3. CASE ~Exhausted(h) /\ \A id \in CommandId : ~Takes(job[h], call[h], id)
  <2>1. QInv' /\ TryLater(h) /\ job[h].msg \in Message /\ MessageBag(queue)
    BY <1>3, LaterQueue, JobsAreTyped DEF SInv, QInv, Thrown
  <2>2. Leave(h) /\ BagToSet(queue) \subseteq BagToSet(queue')
    BY <2>1, ComingBack DEF TryLater
  <2> QED
    BY <1>3, <2>1, <2>2, AckAttends
<1> QED
  BY <1>1, <1>2, <1>3

LEMMA RejectedAttends ==
  ASSUME SInv, NEW h \in Handler, job[h].role = "consumer",
         NEW code \in FailReason, Rejected(h, code),
         \/ job[h].msg.kind = "execute-command"
         \/ \A id \in CommandId : ~Takes(job[h], call[h], id)
  PROVE  Kept
<1>1. CASE job[h].msg.kind = "execute-command"
  BY <1>1, FailAttends DEF Rejected
<1>2. CASE job[h].msg.kind # "execute-command" /\ \A id \in CommandId : ~Takes(job[h], call[h], id)
  <2>1. Ack(h)
    BY <1>2 DEF Rejected
  <2>2. QInv' /\ Leave(h) /\ queue' = queue
    BY <2>1, LaterQueue DEF SInv, Ack
  <2> QED
    BY <1>2, <2>2, AckAttends
<1> QED
  BY <1>1, <1>2

\* Once the call of a consumer is over, the command is not in its hands, unless it
\* came back queued from a retry.
LEMMA OverTakesNothing ==
  ASSUME SInv, NEW h \in Handler, job[h].role = "consumer", NEW id \in CommandId,
         \/ job[h].stage = "sync"
         \/ call[h].step = "refused"
         \/ call[h].step = "done" /\ (job[h].stage # "retry" \/ call[h].result.status # "queued")
  PROVE  ~Takes(job[h], call[h], id)
<1>1. Serves(job[h], call[h])
  BY DEF SInv
<1> QED
  BY <1>1 DEF Serves, Takes, Pursues, ReturnsQueued

LEMMA SyncAttends ==
  ASSUME SInv, NEW h \in Handler, job[h].role = "consumer", QInv', GoOn(h, "sync", NoCall),
         \A id \in CommandId : ~Takes(job[h], call[h], id)
  PROVE  Kept
<1>1. NoCall.todo = <<>> /\ NoCall.op \notin Submitting /\ NoCall.step = "idle"
  BY DEF NoCall, Submitting
<1> QED
  BY <1>1, GoOnAttends DEF Stage

LEMMA AfterRetryAttends ==
  ASSUME SInv, NEW h \in Handler, AfterRetry(h)
  PROVE  Kept
<1>1. /\ job[h].role = "consumer" /\ JobFits(job[h], call[h]) /\ QInv'
      /\ job[h].stage \in {"retry", "exhaust"} /\ job[h].msg.kind = "retry-command"
  BY AfterRetryQueue DEF AfterRetry, Finished, At, SInv, QInv, JobFits
<1>2. CASE call[h].step = "done" /\ call[h].result.status # "queued" /\ GoOn(h, "sync", NoCall)
  BY <1>1, <1>2, OverTakesNothing, SyncAttends
<1>3. CASE FailCommand(h, "exhaust", "retry_exhausted") /\ Exhausted(h)
  BY <1>1, <1>3, FailAttends DEF FailReason
<1>4. CASE TryLater(h) /\ ~Exhausted(h)
  BY <1>1, <1>4, LaterAttends
<1>5. CASE Ack(h) /\ (call[h].step = "refused" \/ (call[h].step = "done" /\ job[h].stage = "exhaust"))
  <2>1. Leave(h) /\ queue' = queue
    BY <1>5 DEF Ack
  <2> QED
    BY <1>1, <1>5, <2>1, OverTakesNothing, AckAttends
<1> QED
  BY <1>2, <1>3, <1>4, <1>5 DEF AfterRetry, Finished, At

LEMMA RunBrowserAttends ==
  ASSUME SInv, NEW h \in Handler, RunBrowser(h)
  PROVE  Kept
<1> DEFINE c == Move("complete", job[h].msg.command)
<1>1. /\ job[h].role = "consumer" /\ job[h].stage = "execute" /\ job[h].msg.command \in CommandId
      /\ job[h].msg.kind = "execute-command" /\ QInv'
  BY RunBrowserQueue, JobsAreTyped DEF RunBrowser, At, SInv, Serves
<1>2. CASE GoOn(h, "complete", c)
  <2>1. /\ c.todo = <<>> /\ c.op = "complete" /\ Pursues(c, job[h].msg.command)
        /\ c.step = "get"
    BY <1>1, OpeningsPursue DEF Transition
  <2> HIDE DEF c
  <2>2. \A id \in CommandId : Takes(job[h], call[h], id) => Pursues(c, id)
    BY <1>1, <2>1 DEF Takes
  <2> QED
    BY <1>1, <1>2, <2>1, <2>2, GoOnAttends DEF Stage, Submitting
<1>3. CASE Thrown(h)
  BY <1>1, <1>3, ThrownAttends
<1>4. ASSUME NEW code \in {"service_error", "not_found"}, Rejected(h, code) PROVE Kept
  BY <1>1, <1>4, RejectedAttends DEF FailReason
<1> QED
  BY <1>2, <1>3, <1>4 DEF RunBrowser

LEMMA AfterCompleteAttends ==
  ASSUME SInv, NEW h \in Handler, AfterComplete(h)
  PROVE  Kept
<1>1. job[h].role = "consumer" /\ job[h].stage = "complete" /\ QInv'
  BY AfterCompleteQueue DEF AfterComplete, Finished, At, SInv
<1>2. \A id \in CommandId : ~Takes(job[h], call[h], id)
  BY <1>1, OverTakesNothing DEF AfterComplete, Finished
<1>3. CASE GoOn(h, "sync", NoCall)
  BY <1>1, <1>2, <1>3, SyncAttends
<1>4. CASE Rejected(h, "not_found")
  BY <1>1, <1>2, <1>4, RejectedAttends DEF FailReason
<1> QED
  BY <1>3, <1>4 DEF AfterComplete

LEMMA SyncStepAttends ==
  ASSUME SInv, NEW h \in Handler, Sync(h)
  PROVE  Kept
<1> DEFINE m == New("browser-evidence-postprocess", job[h].msg.command)
<1>1. job[h].role = "consumer" /\ job[h].stage = "sync" /\ job[h].msg.command \in CommandId /\ QInv'
  BY SyncStepQueue, JobsAreTyped DEF Sync, At, SInv
<1>2. \A id \in CommandId : ~Takes(job[h], call[h], id)
  BY <1>1, OverTakesNothing
<1>3. CASE Leave(h) /\ queue' \in {Sent(m), queue}
  <2>1. m \in Message
    BY <1>1, NewIsMessage DEF Kind
  <2>2. BagToSet(queue) \subseteq BagToSet(Sent(m))
    BY <2>1, Adding DEF Sent, SInv, QInv
  <2> QED
    BY <1>1, <1>2, <1>3, <2>2, AckAttends
<1>4. CASE Thrown(h)
  BY <1>1, <1>2, <1>4, ThrownAttends
<1>5. CASE Rejected(h, "service_error")
  BY <1>1, <1>2, <1>5, RejectedAttends DEF FailReason
<1> QED
  BY <1>3, <1>4, <1>5 DEF Sync

\* A message comes back, if it can: what is lost after its last delivery is lost by a
\* failure.
LEMMA ComesBack ==
  ASSUME SInv, NEW h \in Handler, job[h].role = "consumer", job'[h] = NoJob,
         NEW q, MessageBag(q), queue' = Redelivered({job[h].msg}, q),
         Failures \cap {"store", "evicted"} # {}, NEW id \in CommandId,
         Takes(job[h], call[h], id)
  PROVE  Waiting(id)' \/ Fault
<1>1. /\ job[h].msg \in Message /\ job[h].msg.command = id /\ job[h].stage # "sync"
      /\ JobFits(job[h], call[h]) /\ Serves(job[h], call[h]) /\ job[h].stage \in Stage
  BY JobsAreTyped DEF SInv, QInv, Takes
<1>2. CASE job[h].msg.attempts = MaxAttempts
  BY <1>2 DEF Fault
<1>3. CASE job[h].msg.attempts # MaxAttempts
  <2> DEFINE m == [job[h].msg EXCEPT !.attempts = @ + 1]
  <2>1. job[h].msg.attempts < MaxAttempts
    BY <1>1, <1>3, ControlQueueAssumption DEF Message
  <2>2. m \in BagToSet(queue')
    BY <1>1, <2>1, ComingBack DEF BagIn, BagToSet
  <2>3. m.command = id /\ m.kind = job[h].msg.kind
    BY <1>1 DEF Message
  <2>4. job[h].msg.kind # "browser-evidence-postprocess"
    BY <1>1, <2>1, ControlQueueAssumption DEF JobFits, Serves, Message, Stage
  <2> HIDE DEF m
  <2> QED
    BY <2>2, <2>3, <2>4 DEF Waiting
<1> QED
  BY <1>2, <1>3

LEMMA EvictedAttends ==
  ASSUME SInv, NEW h \in Handler, Evicted(h)
  PROVE  Kept
<1>1. /\ job[h].role = "consumer" /\ Leave(h) /\ queue' = Redelivered({job[h].msg}, queue)
      /\ MessageBag(queue) /\ job[h].msg \in Message /\ Failures \cap {"store", "evicted"} # {}
      /\ job \in [Handler -> Job]
  BY JobsAreTyped DEF Evicted, SInv, QInv
<1>2. QInv' /\ BagToSet(queue) \subseteq BagToSet(queue')
  BY <1>1, AbortsQueue, ComingBack DEF SInv
<1>3. job'[h] = NoJob
  BY <1>1 DEF Leave
<1> QED
  BY <1>1, <1>2, <1>3, ComesBack, LeaveAttends

\* The messages of an aborted batch come back as well.
LEMMA BatchAttends ==
  ASSUME SInv, NEW h \in Handler, BatchAborts(h)
  PROVE  Kept
<1>1. /\ job[h].role = "consumer" /\ call[h].step \in {"refused", "thrown"} /\ Leave(h)
      /\ MessageBag(queue) /\ job[h].msg \in Message /\ QInv' /\ job \in [Handler -> Job]
      /\ call[h].step = "thrown" => "store" \in Failures
      /\ job[h].stage = "catch"
  BY AbortsQueue, JobsAreTyped DEF BatchAborts, Finished, At, SInv, QInv, Serves
<1>2. job'[h] = NoJob /\ job' = [job EXCEPT ![h] = NoJob] /\ Become(h, NoCall)
  BY <1>1 DEF Leave
<1>3. PICK q : /\ MessageBag(q) /\ queue' = Redelivered({job[h].msg}, q)
               /\ \A id \in CommandId : Waiting(id) => Waiting(id)' \/ Fault
  <2>1. CASE queue' = Redelivered({job[h].msg}, queue)
    <3>1. BagToSet(queue) \subseteq BagToSet(queue')
      BY <1>1, <2>1, ComingBack
    <3> QED
      BY <1>1, <2>1, <3>1, WaitingStays
  <2>2. ASSUME "batch" \in Failures, NEW m \in BagToSet(queue),
               queue' = Redelivered({job[h].msg}, Redelivered({m}, queue (-) SetToBag({m})))
        PROVE  \E q : /\ MessageBag(q) /\ queue' = Redelivered({job[h].msg}, q)
                      /\ \A id \in CommandId : Waiting(id) => Waiting(id)' \/ Fault
    <3> DEFINE less == queue (-) SetToBag({m})
               q == Redelivered({m}, less)
               back == [m EXCEPT !.attempts = @ + 1]
    <3>1. m \in Message /\ MessageBag(less) /\ BagToSet(queue) \subseteq BagToSet(less) \cup {m}
      BY <1>1, Taking DEF MessageBag
    <3> HIDE DEF less
    <3>2. /\ MessageBag(q) /\ BagToSet(less) \subseteq BagToSet(q)
          /\ m.attempts < MaxAttempts => BagIn(back, q)
      BY <3>1, ComingBack
    <3>3. queue' = Redelivered({job[h].msg}, q)
      BY <2>2 DEF less
    <3> HIDE DEF q
    <3>4. BagToSet(q) \subseteq BagToSet(queue')
      BY <1>1, <3>2, <3>3, ComingBack
    <3>5. back.command = m.command /\ back.kind = m.kind
      BY <3>1 DEF Message
    <3>6. m.attempts < MaxAttempts \/ m.attempts = MaxAttempts
      BY <3>1, ControlQueueAssumption DEF Message
    <3> HIDE DEF back
    <3>7. \/ back \in BagToSet(queue')
          \/ m \in BagToSet(queue')
          \/ Fault
      BY <2>2, <3>2, <3>4, <3>6 DEF BagIn, BagToSet, Fault
    <3>8. ASSUME NEW id \in CommandId, Waiting(id) PROVE Waiting(id)' \/ Fault
      <4>1. PICK x \in BagToSet(queue) : x.command = id /\ x.kind # "browser-evidence-postprocess"
        BY <3>8 DEF Waiting
      <4>2. CASE x = m
        BY <3>5, <3>7, <4>1, <4>2 DEF Waiting
      <4>3. CASE x # m
        BY <3>1, <3>2, <3>4, <4>1, <4>3 DEF Waiting
      <4> QED
        BY <4>2, <4>3
    <3> QED
      BY <3>2, <3>3, <3>8
  <2> QED
    BY <2>1, <2>2 DEF BatchAborts
<1>4. ASSUME NEW id \in CommandId, Takes(job[h], call[h], id)
      PROVE  Waiting(id)' \/ Fault
  <2>1. CASE call[h].step = "refused"
    BY <1>1, <1>4, <2>1, OverTakesNothing
  <2>2. CASE call[h].step = "thrown"
    BY <1>1, <1>2, <1>3, <1>4, <2>2, ComesBack
  <2> QED
    BY <1>1, <2>1, <2>2
<1>5. Serves(NoJob, NoCall) /\ call' = [call EXCEPT ![h] = NoCall] /\ commands' = commands
  BY <1>2 DEF Serves, NoJob, NoCall, Submitting, Records, Become
<1>6. \A id \in CommandId : commands'[id].status = "queued" =>
            \/ Takes(NoJob, NoCall, id)
            \/ Waiting(id)'
            \/ Fault
            \/ /\ commands[id].status = "queued"
               /\ ~Takes(job[h], call[h], id)
               /\ Waiting(id) => Waiting(id)'
  BY <1>3, <1>4, <1>5
<1> QED
  BY <1>1, <1>2, <1>5, <1>6, MoveAttends

LEMMA StoreThrewAttends ==
  ASSUME SInv, NEW h \in Handler, StoreThrew(h)
  PROVE  Kept
<1>1. /\ job[h].role = "consumer" /\ job[h].stage \in Stage \ {"catch"} /\ Thrown(h)
      /\ JobFits(job[h], call[h]) /\ Serves(job[h], call[h])
  BY DEF StoreThrew, Finished, At, SInv, QInv
<1>2. CASE job[h].stage = "sync"
  BY <1>1, <1>2, OverTakesNothing, ThrownAttends
<1>3. CASE job[h].stage # "sync"
  <2>1. job[h].msg.kind # "browser-evidence-postprocess"
    BY <1>1, <1>3 DEF JobFits, Serves, Stage
  <2> QED
    BY <1>1, <2>1, ThrownAttends
<1> QED
  BY <1>2, <1>3

LEMMA ConsumeAttends ==
  ASSUME SInv, NEW h \in Handler, Consume(h)
  PROVE  Kept
<1>1. CASE AfterCatch(h)
  <2>1. /\ job[h].role = "consumer" /\ job[h].stage = "catch" /\ call[h].step = "done"
        /\ Ack(h) /\ Leave(h) /\ queue' = queue
    BY <1>1 DEF AfterCatch, Finished, At, Ack
  <2>2. QInv'
    BY <2>1, LaterQueue DEF SInv
  <2> QED
    BY <2>1, <2>2, OverTakesNothing, AckAttends
<1> QED
  BY <1>1, DeliverAttends, AfterRetryAttends, RunBrowserAttends, AfterCompleteAttends,
     SyncStepAttends, StoreThrewAttends, BatchAttends DEF Consume
-----------------------------------------------------------------------------
(***************************************************************************)
(* The calls themselves.                                                   *)
(***************************************************************************)
\* The next turn of a call that writes nothing: it still submits only what it
\* submitted, and pursues a queued command that it pursued, unless it could not
\* read the record.
Carries(c, x) ==
  /\ x.op \in Submitting => c.op \in Submitting /\ x.req.command = c.req.command
  /\ x.op \notin Submitting => \A i \in Records(x) : x.todo[i].status # "queued"
  /\ x.step # "thrown"
  /\ \A id \in CommandId : commands[id].status = "queued" /\ Pursues(c, id) =>
       Pursues(x, id) \/ (x.step = "refused" /\ "command" \in Unread)

\* What ends without a write had not found the command queued.
LEMMA RefusedCarries ==
  ASSUME NEW c, \/ "command" \in Unread
                \/ \A id \in CommandId : commands[id].status = "queued" => ~Pursues(c, id)
  PROVE  Carries(c, [NoCall EXCEPT !.step = "refused"])
<1> DEFINE x == [NoCall EXCEPT !.step = "refused"]
<1>1. x.op = "none" /\ x.todo = <<>> /\ x.step = "refused"
  BY DEF NoCall
<1> HIDE DEF x
<1>2. Carries(c, x)
  BY <1>1 DEF Carries, Submitting, Records
<1> QED
  BY <1>2 DEF x

LEMMA CheckCarries ==
  ASSUME SInv, NEW h \in Handler, CheckCommand(h)
  PROVE  \E x : Become(h, x) /\ Carries(call[h], x)
<1>0. PICK c : c = call[h]
  OBVIOUS
<1>1. /\ c \in Call /\ c.step = "check" /\ c.req.command \in CommandId /\ c.todo = <<>>
      /\ c.op \in {"approve", "retry", "fail"}
  BY <1>0, CallsAreLegal DEF SInv, QInv, CheckCommand, CallInv, BaseInv, Call, Envelope
<1>2. PICK cmd \in CommandsSeen(c.req.command) :
      \/ /\ NotAllowed(c.op, cmd)
         /\ Become(h, [NoCall EXCEPT !.step = "refused"])
      \/ /\ c.op = "approve" /\ cmd.status # "absent"
         /\ Become(h, Execute(c, "approve", [cmd.req EXCEPT !.explicit = TRUE]))
      \/ /\ c.op = "retry" /\ cmd.status # "absent"
         /\ Become(h, Execute(c, "retry", cmd.req))
      \/ /\ c.op = "fail" /\ cmd.status = "failed"
         /\ Become(h, [c EXCEPT !.step = "done", !.result = cmd])
      \/ c.op = "fail" /\ Become(h, [c EXCEPT !.step = "get"])
  BY <1>0, <1>1 DEF CheckCommand, NotAllowed
<1>3. /\ cmd \in Command /\ cmd.req \in Envelope
      /\ cmd.status # "absent" => cmd.req.command = c.req.command
      /\ cmd = commands[c.req.command] \/ ("command" \in Unread /\ cmd.status = "absent")
  BY <1>1, SeenTypes DEF SInv, QInv, CommandsSeen, Command, NoCommand
<1>4. CASE NotAllowed(c.op, cmd) /\ Become(h, [NoCall EXCEPT !.step = "refused"])
  <2>1. ASSUME NEW id \in CommandId, commands[id].status = "queued", Pursues(c, id),
               "command" \notin Unread
        PROVE  FALSE
    BY <1>1, <1>3, <1>4, <2>1 DEF Pursues, NotAllowed
  <2> QED
    BY <1>0, <1>4, <2>1, RefusedCarries
<1>5. ASSUME NEW op \in {"approve", "retry"}, NEW q, c.op = op, q.command = c.req.command,
             Become(h, Execute(c, op, q))
      PROVE  \E x : Become(h, x) /\ Carries(c, x)
  <2> DEFINE x == Execute(c, op, q)
  <2>1. x.op = op /\ x.step = "get" /\ x.req = q
    BY <1>1 DEF Execute, Call
  <2> HIDE DEF x
  <2>2. Carries(c, x)
    BY <1>5, <2>1 DEF Carries, Submitting, Pursues
  <2> QED
    BY <1>5, <2>2 DEF x
<1>6. CASE c.op = "approve" /\ cmd.status # "absent"
           /\ Become(h, Execute(c, "approve", [cmd.req EXCEPT !.explicit = TRUE]))
  <2>1. [cmd.req EXCEPT !.explicit = TRUE].command = c.req.command
    BY <1>3, <1>6 DEF Envelope
  <2> QED
    BY <1>0, <1>5, <1>6, <2>1
<1>7. CASE c.op = "retry" /\ cmd.status # "absent" /\ Become(h, Execute(c, "retry", cmd.req))
  BY <1>0, <1>3, <1>5, <1>7
<1>8. CASE c.op = "fail" /\ cmd.status = "failed"
           /\ Become(h, [c EXCEPT !.step = "done", !.result = cmd])
  <2> DEFINE x == [c EXCEPT !.step = "done", !.result = cmd]
  <2>1. x.op = "fail" /\ x.todo = <<>> /\ x.step = "done"
    BY <1>1, <1>8 DEF Call
  <2> HIDE DEF x
  <2>2. Carries(c, x)
    BY <1>3, <1>8, <2>1 DEF Carries, Submitting, Records, Pursues
  <2> QED
    BY <1>0, <1>8, <2>2 DEF x
<1>9. CASE c.op = "fail" /\ Become(h, [c EXCEPT !.step = "get"])
  <2> DEFINE x == [c EXCEPT !.step = "get"]
  <2>1. x.op = "fail" /\ x.todo = <<>> /\ x.step = "get" /\ x.req = c.req
    BY <1>1, <1>9 DEF Call
  <2> HIDE DEF x
  <2>2. Carries(c, x)
    BY <2>1 DEF Carries, Submitting, Records, Pursues
  <2> QED
    BY <1>0, <1>9, <2>2 DEF x
<1> QED
  BY <1>0, <1>2, <1>4, <1>6, <1>7, <1>8, <1>9

\* What is decided on has a record in it.
LEMMA DecisionsRecord ==
  ASSUME NEW op, NEW status, NEW todo,
         \/ todo = SingleEvent(status)
         \/ todo = SingleEvent(status) \o SaveDedup(op)
         \/ todo = InlineExecution(op)
  PROVE  \E i \in DOMAIN todo : todo[i].kind = "record"
<1>1. \/ todo = <<EventOf(status), RecordOf(status, "other")>>
      \/ todo = <<EventOf(status), RecordOf(status, "other"), DedupEntry>>
      \/ todo = <<RecordOf("emitted", "none"), EventOf("emitted"), DedupEntry,
                  EventOf("completed"), RecordOf("completed", "other")>>
      \/ todo = <<RecordOf("emitted", "none"), EventOf("emitted"),
                  EventOf("completed"), RecordOf("completed", "other")>>
  BY Lists
<1>2. \/ 2 \in DOMAIN todo /\ todo[2] = RecordOf(status, "other")
      \/ 1 \in DOMAIN todo /\ todo[1] = RecordOf("emitted", "none")
  BY <1>1
<1>3. RecordOf(status, "other").kind = "record" /\ RecordOf("emitted", "none").kind = "record"
  BY DEF RecordOf
<1> QED
  BY <1>2, <1>3

\* A submission goes on reading, or starts to write.
LEMMA ReadingCarries ==
  ASSUME NEW c, NEW x, c.op \in Submitting, x.op = c.op, x.req = c.req,
         c.step \in {"get", "read"},
         \/ x.step = "read"
         \/ x.step = "write" /\ Records(x) # {}
  PROVE  Carries(c, x)
BY DEF Carries, Pursues

LEMMA SubmissionCarries ==
  ASSUME SInv, NEW h \in Handler,
         \/ GetForExecute(h)
         \/ \E what \in Check : Read(h, what) \/ LeaveUnread(h, what)
         \/ \E l \in LeaseId : ListLease(h, l) \/ MissLease(h, l)
         \/ Decide(h)
         \/ MissApproval(h)
  PROVE  \E x : Become(h, x) /\ Carries(call[h], x)
<1>0. PICK c : c = call[h]
  OBVIOUS
<1>1. /\ c \in Call /\ c.step \in {"get", "read"} /\ c.op \in Submitting
  BY <1>0, CallsAreLegal DEF SInv, QInv, CallInv, BaseInv, GetForExecute, Read, LeaveUnread,
                             ListLease, MissLease, Answered, Decide, MissApproval
<1>2. ASSUME NEW x, Become(h, x), x.op = c.op, x.req = c.req,
             x.step = "read" \/ (x.step = "write" /\ Records(x) # {})
      PROVE  \E y : Become(h, y) /\ Carries(c, y)
  BY <1>1, <1>2, ReadingCarries
<1>3. ASSUME NEW op, NEW status, NEW todo, NEW x, Become(h, x), x.op = c.op, x.req = c.req,
             x.step = "write", x.todo = todo,
             \/ todo = SingleEvent(status)
             \/ todo = SingleEvent(status) \o SaveDedup(op)
             \/ todo = InlineExecution(op)
      PROVE  \E y : Become(h, y) /\ Carries(c, y)
  <2>1. Records(x) # {}
    BY <1>3, DecisionsRecord DEF Records
  <2> QED
    BY <1>2, <1>3, <2>1
<1>4. ASSUME GetForExecute(h)
      PROVE  \E y : Become(h, y) /\ Carries(c, y)
  <2>1. PICK cmd : \/ Become(h, [c EXCEPT !.step = "read", !.base = BaseRecord(cmd, c.req),
                                          !.pending = ChecksOf(c.op),
                                          !.unlisted = Others(c.req)])
                   \/ Become(h, Decided([c EXCEPT !.base = BaseRecord(cmd, c.req)],
                                        SingleEvent("rejected")))
    BY <1>0, <1>4 DEF GetForExecute
  <2> DEFINE base == BaseRecord(cmd, c.req)
             x == [c EXCEPT !.step = "read", !.base = base, !.pending = ChecksOf(c.op),
                            !.unlisted = Others(c.req)]
             y == Decided([c EXCEPT !.base = base], SingleEvent("rejected"))
  <2> HIDE DEF base
  <2>2. x.step = "read" /\ x.op = c.op /\ x.req = c.req
    BY <1>1 DEF Call
  <2>3. y.step = "write" /\ y.op = c.op /\ y.req = c.req /\ y.todo = SingleEvent("rejected")
    BY <1>1 DEF Call, Decided
  <2>4. Become(h, x) \/ Become(h, y)
    BY <2>1 DEF base
  <2> HIDE DEF x, y
  <2> QED
    BY <1>2, <1>3, <2>2, <2>3, <2>4
<1>5. ASSUME NEW what \in Check, Read(h, what) \/ LeaveUnread(h, what)
      PROVE  \E y : Become(h, y) /\ Carries(c, y)
  <2>1. c.step = "read"
    BY <1>0, <1>5 DEF Read, LeaveUnread
  <2>2. PICK pending, barred, failed :
          \/ Become(h, [c EXCEPT !.pending = pending, !.failed = failed])
          \/ Become(h, [c EXCEPT !.pending = pending, !.barred = barred, !.failed = failed])
    BY <1>0, <1>5 DEF Read, LeaveUnread
  <2> DEFINE x == [c EXCEPT !.pending = pending, !.failed = failed]
             y == [c EXCEPT !.pending = pending, !.barred = barred, !.failed = failed]
  <2>3. /\ x.step = "read" /\ x.op = c.op /\ x.req = c.req
        /\ y.step = "read" /\ y.op = c.op /\ y.req = c.req
    BY <1>1, <2>1 DEF Call
  <2>4. Become(h, x) \/ Become(h, y)
    BY <2>2
  <2> HIDE DEF x, y
  <2> QED
    BY <1>2, <2>3, <2>4
<1>6. ASSUME Decide(h) \/ MissApproval(h)
      PROVE  \E y : Become(h, y) /\ Carries(c, y)
  <2>1. PICK todo : /\ Become(h, Decided(c, todo))
                    /\ \E status : \/ todo = SingleEvent(status)
                                   \/ todo = SingleEvent(status) \o SaveDedup(c.op)
                                   \/ todo = InlineExecution(c.op)
    <3>1. ASSUME NEW todo, todo = Decision(c)
          PROVE  \E status : \/ todo = SingleEvent(status)
                             \/ todo = SingleEvent(status) \o SaveDedup(c.op)
                             \/ todo = InlineExecution(c.op)
      BY <3>1, Zenon DEF Decision
    <3>2. CASE Decide(h)
      BY <1>0, <3>1, <3>2 DEF Decide
    <3>3. CASE MissApproval(h)
      BY <1>0, <3>3 DEF MissApproval
    <3> QED
      BY <1>6, <3>2, <3>3
  <2> DEFINE x == Decided(c, todo)
  <2>2. x.step = "write" /\ x.op = c.op /\ x.req = c.req /\ x.todo = todo
    BY <1>1 DEF Call, Decided
  <2>3. Become(h, x)
    BY <2>1
  <2> HIDE DEF x
  <2> QED
    BY <1>3, <2>1, <2>2, <2>3
<1>7. ASSUME NEW l \in LeaseId, ListLease(h, l) \/ MissLease(h, l)
      PROVE  \E y : Become(h, y) /\ Carries(c, y)
  <2>1. c.step = "read"
    BY <1>0, <1>7 DEF ListLease, MissLease
  <2>2. PICK unlisted, rivals, failed :
          \/ Become(h, [c EXCEPT !.unlisted = unlisted, !.failed = failed])
          \/ Become(h, [c EXCEPT !.unlisted = unlisted, !.rivals = rivals])
    BY <1>0, <1>7 DEF ListLease, MissLease
  <2> DEFINE x == [c EXCEPT !.unlisted = unlisted, !.failed = failed]
             y == [c EXCEPT !.unlisted = unlisted, !.rivals = rivals]
  <2>3. /\ x.step = "read" /\ x.op = c.op /\ x.req = c.req
        /\ y.step = "read" /\ y.op = c.op /\ y.req = c.req
    BY <1>1, <2>1 DEF Call
  <2>4. Become(h, x) \/ Become(h, y)
    BY <2>2
  <2> HIDE DEF x, y
  <2> QED
    BY <1>2, <2>3, <2>4
<1> QED
  BY <1>0, <1>4, <1>5, <1>6, <1>7

LEMMA TransitionCarries ==
  ASSUME SInv, NEW h \in Handler, GetForTransition(h)
  PROVE  \E x : Become(h, x) /\ Carries(call[h], x)
<1>0. PICK c : c = call[h]
  OBVIOUS
<1> DEFINE status == StatusOf(c.op)
           todo == <<EventOf(status), RecordOf(status, c.reason)>>
           x(cmd) == [c EXCEPT !.step = "write", !.base = cmd, !.req = cmd.req,
                               !.now = clock, !.todo = todo]
<1>1. /\ c \in Call /\ c.step = "get" /\ c.req.command \in CommandId /\ c.op \in Transition
  BY <1>0, CallsAreLegal DEF SInv, QInv, GetForTransition, Call, Envelope
<1>2. PICK cmd \in CommandsSeen(c.req.command) :
      \/ cmd.status = "absent" /\ Become(h, [NoCall EXCEPT !.step = "refused"])
      \/ cmd.status # "absent" /\ Become(h, x(cmd))
  BY <1>0 DEF GetForTransition
<1> DEFINE y == x(cmd)
<1>3. /\ cmd.status # "absent" => cmd.req.command = c.req.command
      /\ cmd = commands[c.req.command] \/ ("command" \in Unread /\ cmd.status = "absent")
  BY <1>1, SeenTypes DEF SInv, QInv, CommandsSeen, NoCommand
<1>4. CASE cmd.status = "absent" /\ Become(h, [NoCall EXCEPT !.step = "refused"])
  <2>1. \/ "command" \in Unread
        \/ \A id \in CommandId : commands[id].status = "queued" => ~Pursues(c, id)
    <3>1. ASSUME "command" \notin Unread, NEW id \in CommandId,
                 commands[id].status = "queued", Pursues(c, id)
          PROVE  FALSE
      <4>1. c.req.command = id
        BY <3>1 DEF Pursues
      <4>2. cmd = commands[c.req.command]
        BY <1>3, <3>1
      <4>3. commands[c.req.command] = commands[id]
        BY <4>1
      <4> QED
        BY <1>4, <3>1, <4>2, <4>3
    <3> QED
      BY <3>1
  <2> QED
    BY <1>0, <1>4, <2>1, RefusedCarries
<1>5. CASE cmd.status # "absent" /\ Become(h, y)
  <2>1. /\ DOMAIN todo = {1, 2} /\ todo[1] = EventOf(status)
        /\ todo[2] = RecordOf(status, c.reason)
    OBVIOUS
  <2>2. todo[1].kind = "event" /\ todo[2].kind = "record" /\ todo[2].status = status
    BY <2>1 DEF EventOf, RecordOf
  <2>3. status # "queued" /\ c.op \notin Submitting
    BY <1>1 DEF StatusOf, Transition, Submitting
  <2> HIDE DEF todo, status
  <2>4. y.op = c.op /\ y.step = "write" /\ y.req.command = c.req.command /\ y.todo = todo
    BY <1>1, <1>5, <1>3 DEF Call
  <2> HIDE DEF y
  <2>5. Records(y) = {2}
    BY <2>1, <2>2, <2>4 DEF Records
  <2>6. Carries(c, y)
    BY <2>2, <2>3, <2>4, <2>5 DEF Carries, Pursues
  <2> QED
    BY <1>0, <1>5, <2>6 DEF y, todo, status
<1> QED
  BY <1>2, <1>4, <1>5

LEMMA ReadBackCarries ==
  ASSUME SInv, NEW h \in Handler, ReadBack(h)
  PROVE  \E x : Become(h, x) /\ Carries(call[h], x)
<1>0. PICK c : c = call[h]
  OBVIOUS
<1>1. /\ c \in Call /\ c.step = "final" /\ c.req.command \in CommandId /\ c.todo = <<>>
  BY <1>0, CallsAreLegal DEF SInv, QInv, ReadBack, CallInv, Call, Envelope
<1>2. PICK cmd \in CommandsSeen(c.req.command) :
      \/ cmd.status = "absent" /\ Become(h, [NoCall EXCEPT !.step = "refused"])
      \/ cmd.status # "absent" /\ Become(h, [c EXCEPT !.step = "done", !.result = cmd])
  BY <1>0 DEF ReadBack
<1> DEFINE x == [c EXCEPT !.step = "done", !.result = cmd]
<1>3. /\ cmd.status # "absent" => cmd.req.command = c.req.command
      /\ cmd = commands[c.req.command] \/ ("command" \in Unread /\ cmd.status = "absent")
  BY <1>1, SeenTypes DEF SInv, QInv, CommandsSeen, NoCommand
<1>4. CASE cmd.status = "absent" /\ Become(h, [NoCall EXCEPT !.step = "refused"])
  <2>1. \/ "command" \in Unread
        \/ \A id \in CommandId : commands[id].status = "queued" => ~Pursues(c, id)
    <3>1. ASSUME "command" \notin Unread, NEW id \in CommandId,
                 commands[id].status = "queued", Pursues(c, id)
          PROVE  FALSE
      <4>1. c.req.command = id
        BY <3>1 DEF Pursues
      <4>2. cmd = commands[c.req.command]
        BY <1>3, <3>1
      <4>3. commands[c.req.command] = commands[id]
        BY <4>1
      <4> QED
        BY <1>4, <3>1, <4>2, <4>3
    <3> QED
      BY <3>1
  <2> QED
    BY <1>0, <1>4, <2>1, RefusedCarries
<1>5. CASE cmd.status # "absent" /\ Become(h, x)
  <2>1. /\ x.op = c.op /\ x.step = "done" /\ x.req = c.req /\ x.todo = <<>> /\ x.result = cmd
    BY <1>1 DEF Call
  <2> HIDE DEF x
  <2>2. ASSUME NEW id \in CommandId, commands[id].status = "queued", Pursues(c, id)
        PROVE  Pursues(x, id)
    <3>1. c.req.command = id /\ c.op \in Submitting
      BY <1>1, <2>2 DEF Pursues, Submitting
    <3>2. ReturnsQueued(x, id)
      BY <1>1, <1>3, <1>5, <2>1, <2>2, <3>1 DEF ReturnsQueued
    <3> QED
      BY <2>1, <3>1, <3>2 DEF Pursues
  <2>3. Carries(c, x)
    BY <2>1, <2>2 DEF Carries, Records
  <2> QED
    BY <1>0, <1>5, <2>3 DEF x
<1> QED
  BY <1>2, <1>4, <1>5

\* A turn without a write leaves the command in the same hands.
LEMMA TurnsAttend ==
  ASSUME SInv, NEW h \in Handler, CallStep(h), ~WriteNext(h),
         UNCHANGED <<queue, job>>
  PROVE  Kept
<1>1. PICK x : Become(h, x) /\ Carries(call[h], x)
  BY CheckCarries, SubmissionCarries, TransitionCarries, ReadBackCarries DEF CallStep
<1>2. PICK j, c : j = job[h] /\ c = call[h]
  OBVIOUS
<1>3. QInv' /\ Serves(j, c) /\ job' = [job EXCEPT ![h] = j]
  BY <1>2, CallStepQueue DEF SInv, QInv
<1>4. c.step \notin {"idle", "refused", "thrown"}
  BY <1>2 DEF CallStep, CheckCommand, GetForExecute, Read, LeaveUnread, ListLease, MissLease,
              Answered, Decide, MissApproval, GetForTransition, WriteNext, ReadBack
<1>5. ~(j.role = "consumer" /\ j.stage = "execute")
  BY <1>3, <1>4 DEF Serves
<1>6. Serves(j, x)
  BY <1>1, <1>2, <1>3, <1>5 DEF Serves, Carries
<1>7. ASSUME NEW id \in CommandId, Takes(j, c, id), commands[id].status = "queued"
      PROVE  Takes(j, x, id) \/ Fault
  <2>1. Pursues(c, id)
    BY <1>4, <1>5, <1>7 DEF Takes
  <2>2. CASE Pursues(x, id)
    <3>1. x.step = "done" => x.op \in Submitting
      BY <2>2 DEF Pursues
    <3> QED
      BY <1>5, <1>6, <1>7, <2>2, <3>1 DEF Takes, Serves
  <2>3. CASE x.step = "refused" /\ "command" \in Unread
    <3>1. call[h].step # "refused" /\ call'[h].step = "refused"
      BY <1>1, <1>2, <1>4, <2>3 DEF Become, SInv, QInv, IInv, TypeOK
    <3> QED
      BY <2>3, <3>1 DEF Fault
  <2> QED
    BY <1>1, <1>2, <1>7, <2>1, <2>2, <2>3 DEF Carries
<1>8. BagToSet(queue) \subseteq BagToSet(queue')
  OBVIOUS
<1> QED
  BY <1>1, <1>2, <1>3, <1>6, <1>7, <1>8, TurnAttends

\* A call that writes a record queued submits for its client or for its message,
\* and returns it queued; what another write leaves queued is still to be written
\* or returned.
LEMMA WriteAttends ==
  ASSUME SInv, NEW h \in Handler, WriteNext(h), UNCHANGED <<queue, job>>
  PROVE  Kept
<1>0. PICK c, j : c = call[h] /\ j = job[h]
  OBVIOUS
<1> DEFINE w == Head(c.todo)
           me == c.req.command
           rec == UpdateCommandRecord(c.base, w.status, w.reason)
           next == [c EXCEPT !.todo = Tail(@), !.result = IF w.kind = "record" THEN rec ELSE @]
           x == IF Len(c.todo) = 1 THEN AfterWrites(next) ELSE next
<1>1. /\ c \in Call /\ c.step = "write" /\ c.todo \in Seq(Write) /\ c.todo # <<>>
      /\ c.req \in Envelope /\ me \in CommandId /\ c.base \in Command
      /\ c.base.req.command = me
  BY <1>0, CallsAreLegal DEF SInv, QInv, WriteNext, CallInv, BaseInv, Call, Envelope
<1>2. /\ w = c.todo[1] /\ 1 \in DOMAIN c.todo
      /\ Tail(c.todo) = <<>> <=> Len(c.todo) = 1
      /\ \A i \in DOMAIN c.todo : i > 1 => i - 1 \in DOMAIN Tail(c.todo)
      /\ \A i \in DOMAIN Tail(c.todo) : i + 1 \in DOMAIN c.todo /\ Tail(c.todo)[i] = c.todo[i + 1]
      /\ DOMAIN c.todo \subseteq Nat \ {0}
  BY <1>1, TailOf
<1>3. /\ call' = [call EXCEPT ![h] = x] /\ job' = [job EXCEPT ![h] = j] /\ queue' = queue
      /\ IF w.kind = "record" THEN commands' = [commands EXCEPT ![me] = rec]
                              ELSE commands' = commands
  BY <1>0 DEF WriteNext, SInv, QInv
<1>4. QInv' /\ Serves(j, c) /\ commands \in [CommandId -> Command]
  <2>1. CallStep(h)
    BY DEF CallStep
  <2> QED
    BY <1>0, <2>1, CallStepQueue DEF SInv, QInv, IInv, TypeOK
<1>5. rec.status = w.status /\ rec.req = c.base.req
  BY <1>1 DEF UpdateCommandRecord, Command
<1> HIDE DEF w, rec
<1>6. /\ next.op = c.op /\ next.step = "write" /\ next.req = c.req /\ next.todo = Tail(c.todo)
      /\ next.result = IF w.kind = "record" THEN rec ELSE c.result
  BY <1>1 DEF Call
<1> HIDE DEF next
<1>7. /\ x.op = c.op /\ x.req = c.req
      /\ x.result = IF w.kind = "record" THEN rec ELSE c.result
      /\ Len(c.todo) # 1 => x.step = "write" /\ x.todo = Tail(c.todo)
      /\ Len(c.todo) = 1 => x.step = (IF c.op \in {"approve", "retry"} THEN "final" ELSE "done")
                            /\ x.todo = <<>>
  <2>1. CASE Len(c.todo) = 1
    BY <1>6, <2>1 DEF AfterWrites, NoCall
  <2>2. CASE Len(c.todo) # 1
    BY <1>6, <2>2
  <2> QED
    BY <2>1, <2>2
<1> HIDE DEF x
<1>8. /\ c.op \in {"approve", "retry"} => x.step \in {"write", "final"}
      /\ c.op = "submit" => x.step \in {"write", "done"}
  BY <1>7
<1>9. ASSUME NEW i \in Records(x) PROVE i + 1 \in Records(c) /\ x.todo[i] = c.todo[i + 1]
  BY <1>2, <1>7, <1>9 DEF Records
<1>10. ~(j.role = "consumer" /\ j.stage = "execute")
  BY <1>1, <1>4 DEF Serves
<1>11. Serves(j, x)
  <2>1. x.step # "thrown"
    BY <1>7
  <2> QED
    BY <1>4, <1>7, <1>9, <1>10, <2>1 DEF Serves
<1>12. ASSUME w.kind = "record", w.status = "queued"
       PROVE  Takes(j, x, me)
  <2>1. c.op \in Submitting
    BY <1>2, <1>4, <1>12 DEF Serves, Records
  <2>2. ReturnsQueued(x, me)
    BY <1>1, <1>5, <1>7, <1>12 DEF ReturnsQueued
  <2>3. Pursues(x, me)
    BY <1>7, <1>8, <2>1, <2>2 DEF Pursues, Submitting
  <2> QED
    BY <1>1, <1>4, <1>7, <1>10, <2>1, <2>3 DEF Takes, Serves
<1>13. ASSUME NEW id \in CommandId, w.kind # "record", Takes(j, c, id)
       PROVE  Takes(j, x, id)
  <2>1. Pursues(c, id)
    BY <1>1, <1>10, <1>13 DEF Takes
  <2>2. Pursues(x, id)
    <3>1. CASE Records(c) # {}
      <4>1. PICK i \in Records(c) : TRUE
        BY <3>1
      <4>2. i \in DOMAIN c.todo /\ i # 1 /\ i \in Nat
        BY <1>2, <1>13, <4>1 DEF Records
      <4>3. i - 1 \in DOMAIN Tail(c.todo) /\ Tail(c.todo)[i - 1] = c.todo[i]
        <5>1. i > 1 /\ (i - 1) + 1 = i
          BY <1>2, <4>2
        <5> QED
          BY <1>2, <4>2, <5>1
      <4>4. x.step = "write" /\ x.todo = Tail(c.todo)
        BY <1>2, <1>7, <4>3
      <4>5. Records(x) # {}
        BY <4>1, <4>3, <4>4 DEF Records
      <4> QED
        BY <1>7, <2>1, <4>4, <4>5 DEF Pursues
    <3>2. CASE c.op \in {"approve", "retry"}
      BY <1>7, <1>8, <2>1, <3>2 DEF Pursues
    <3>3. CASE c.op \in Submitting /\ ReturnsQueued(c, id)
      <4>1. ReturnsQueued(x, id)
        BY <1>7, <1>13, <3>3 DEF ReturnsQueued
      <4> QED
        BY <1>7, <1>8, <2>1, <3>3, <4>1 DEF Pursues, Submitting
    <3> QED
      BY <1>1, <2>1, <3>1, <3>2, <3>3 DEF Pursues
  <2>3. x.step = "done" => c.op \in Submitting
    BY <2>2, <1>7 DEF Pursues
  <2> QED
    BY <1>4, <1>7, <1>10, <1>13, <2>2, <2>3 DEF Takes, Serves
<1>14. ASSUME NEW id \in CommandId, commands'[id].status = "queued"
       PROVE  \/ Takes(j, x, id)
              \/ commands[id].status = "queued" /\ ~Takes(j, c, id)
  <2>1. CASE w.kind # "record"
    BY <1>3, <1>13, <1>14, <2>1
  <2>2. CASE w.kind = "record" /\ id = me
    <3>1. w.status = "queued"
      BY <1>1, <1>3, <1>4, <1>5, <1>14, <2>2
    <3> QED
      BY <1>12, <2>2, <3>1
  <2>3. CASE w.kind = "record" /\ id # me
    <3>1. commands'[id] = commands[id]
      BY <1>3, <1>4, <2>3
    <3>2. ~Takes(j, c, id)
      BY <1>1, <1>10, <2>3 DEF Takes, Pursues
    <3> QED
      BY <1>14, <3>1, <3>2
  <2> QED
    BY <2>1, <2>2, <2>3
<1>15. \A id \in CommandId : Waiting(id) => Waiting(id)'
  BY <1>3 DEF Waiting
<1>16. \A id \in CommandId : commands'[id].status = "queued" =>
          \/ Takes(j, x, id)
          \/ Waiting(id)'
          \/ Fault
          \/ /\ commands[id].status = "queued"
             /\ ~Takes(job[h], call[h], id)
             /\ Waiting(id) => Waiting(id)'
  BY <1>0, <1>14, <1>15
<1> QED
  BY <1>3, <1>4, <1>11, <1>16, MoveAttends

\* What changes under the calls leaves their commands alone.
LEMMA EnvironmentAttends ==
  ASSUME SInv, Environment, UNCHANGED <<queue, job>>
  PROVE  Kept
<1>1. QInv' /\ commands' = commands /\ call \in [Handler -> Call]
  BY EnvironmentQueue DEF SInv, QInv, IInv, TypeOK, Environment, StoreStep, CreateApproval,
                          DeleteApproval
<1>2. \/ call' = call
      \/ call' = [h \in Handler |-> [call[h] EXCEPT
           !.barred = {w \in @ : Refused(w, call[h].req, call[h].now, sessions', leases')},
           !.rivals = @ \cap Competing(leases', call[h].req)]]
  BY DEF Environment, StoreStep, CreateApproval, DeleteApproval
<1>3. ASSUME NEW h \in Handler
      PROVE  /\ call'[h].op = call[h].op /\ call'[h].step = call[h].step
             /\ call'[h].req = call[h].req /\ call'[h].todo = call[h].todo
             /\ call'[h].result = call[h].result
  <2>1. call[h] \in Call
    BY <1>1
  <2>2. PICK c, barred, rivals :
          /\ c = call[h]
          /\ barred = {w \in c.barred : Refused(w, c.req, c.now, sessions', leases')}
          /\ rivals = c.rivals \cap Competing(leases', c.req)
    OBVIOUS
  <2>3. PICK x : x = [c EXCEPT !.barred = barred, !.rivals = rivals]
    OBVIOUS
  <2>4. /\ x.op = c.op /\ x.step = c.step /\ x.req = c.req
        /\ x.todo = c.todo /\ x.result = c.result
    BY <2>1, <2>2, <2>3 DEF Call
  <2>5. call'[h] = c \/ call'[h] = x
    BY <1>2, <2>2, <2>3
  <2> QED
    BY <2>2, <2>4, <2>5
<1>4. ASSUME NEW h \in Handler
      PROVE  /\ Serves(job[h], call[h])'
             /\ \A id : Takes(job[h], call[h], id) => Takes(job[h], call[h], id)'
  <2>1. PICK j, c, x : j = job[h] /\ c = call[h] /\ x = call'[h]
    OBVIOUS
  <2>2. /\ x.op = c.op /\ x.step = c.step /\ x.req = c.req /\ x.todo = c.todo
        /\ x.result = c.result /\ Serves(j, c)
    BY <1>3, <2>1 DEF SInv
  <2>3. Serves(j, x) /\ \A id : Takes(j, c, id) => Takes(j, x, id)
    BY <2>2 DEF Serves, Records, Takes, Pursues, ReturnsQueued
  <2>4. job'[h] = j /\ call'[h] = x
    BY <2>1
  <2>5. Serves(job'[h], call'[h]) /\ \A id : Takes(job[h], call[h], id) => Takes(job'[h], call'[h], id)
    BY <2>1, <2>3, <2>4
  <2> QED
    BY <2>5 DEF Serves, Records, Takes, Pursues, ReturnsQueued
<1>5. \A id \in CommandId : Attended(id) => Attended(id)'
  BY <1>4 DEF Attended, Waiting
<1>6. SInv'
  BY <1>1, <1>4 DEF SInv
<1> QED
  BY <1>1, <1>5, <1>6 DEF Kept, Stranded

\* What a client lacks after a failure of its call is lost by that failure; a
\* consumer still has its message.
LEMMA ThrowsAttends ==
  ASSUME SInv, NEW h \in Handler, Throws(h)
  PROVE  Kept
<1>1. PICK c : c = [NoCall EXCEPT !.step = "thrown"]
  OBVIOUS
<1>2. PICK j : j = job[h]
  OBVIOUS
<1>3. /\ QInv' /\ Become(h, c) /\ job' = [job EXCEPT ![h] = j] /\ queue' = queue
      /\ "store" \in Failures /\ call[h].step # "idle" /\ Serves(j, call[h])
      /\ call \in [Handler -> Call]
  BY <1>1, <1>2, ThrowsQueue DEF Throws, Abort, SInv, QInv, IInv, TypeOK
<1>4. c.op = "none" /\ c.todo = <<>> /\ c.step = "thrown"
  BY <1>1 DEF NoCall
<1>5. ~(j.role = "consumer" /\ j.stage = "execute")
  BY <1>3 DEF Serves
<1>6. Serves(j, c)
  BY <1>3, <1>4, <1>5 DEF Serves, Records, Submitting
<1>7. ASSUME NEW id \in CommandId, Takes(j, call[h], id)
      PROVE  Takes(j, c, id) \/ Fault
  <2>1. CASE j.role = "client"
    <3>1. call'[h].step = "thrown"
      BY <1>3, <1>4 DEF Become
    <3> QED
      BY <1>2, <1>3, <2>1, <3>1 DEF Fault
  <2>2. CASE j.role = "consumer"
    BY <1>4, <1>5, <1>7, <2>2 DEF Takes
  <2> QED
    BY <1>7, <2>1, <2>2 DEF Takes
<1> QED
  BY <1>2, <1>3, <1>6, <1>7, TurnAttends

LEMMA StutterAttends ==
  ASSUME SInv, UNCHANGED allVars
  PROVE  SInv' /\ \A id \in CommandId : Stranded(id)' => Stranded(id)
<1>1. QInv' /\ UNCHANGED <<commands, call, queue, job>>
  BY StutterQueue DEF SInv, allVars, vars, kernelVars
<1>2. SInv'
  BY <1>1 DEF SInv, Serves, Records
<1>3. \A id \in CommandId : Stranded(id)' => Stranded(id)
  BY <1>1 DEF Stranded, Attended, Waiting, Takes, Pursues, Records, ReturnsQueued
<1> QED
  BY <1>2, <1>3

LEMMA StartsAttended == InitQueue => SInv /\ QueuedIsAttended
<1> SUFFICES ASSUME InitQueue PROVE SInv /\ QueuedIsAttended
  OBVIOUS
<1>1. QInv
  BY StartsQueue
<1>2. Serves(NoJob, NoCall)
  BY DEF Serves, NoJob, NoCall, Submitting, Records
<1>3. \A h \in Handler : Serves(job[h], call[h])
  BY <1>2 DEF InitQueue, Init
<1>4. \A id \in CommandId : commands[id].status # "queued"
  BY DEF InitQueue, Init, NoCommand
<1> QED
  BY <1>1, <1>3, <1>4 DEF SInv, QueuedIsAttended, Stranded

LEMMA StepAttends ==
  ASSUME SInv, NextQueue
  PROVE  Kept
<1>1. ASSUME NEW h \in Handler, CallStep(h), UNCHANGED <<queue, job>> PROVE Kept
  BY <1>1, TurnsAttend, WriteAttends
<1> QED
  BY <1>1, EnvironmentAttends, ClientAttends, RespondAttends, ConsumeAttends, ThrowsAttends,
     EvictedAttends DEF NextQueue, ServerStep

LEMMA ServingInvariance == SpecQueue => []SInv
<1>1. SInv /\ [NextQueue]_allVars => SInv'
  BY StepAttends, StutterAttends DEF Kept
<1> QED
  BY <1>1, StartsAttended, PTL DEF SpecQueue

\* Neither the store nor a Worker nor a batch fails, and command records are read.
NothingEndsEarly == Failures \cap {"store", "evicted", "batch"} = {} /\ "command" \notin Unread

\* No command is ever left queued with nobody to take it up, for any number of
\* handlers, commands and deliveries: a message waits for it, or a handler has it in
\* its hands.  As in commands.route.ts:14-16, nothing is promised when a store call
\* fails or a Worker or a batch ends early, or when a command record cannot be read;
\* the browser and the sync of requests may fail at any time.
THEOREM QueuedCommandsAreAttended ==
  ASSUME NothingEndsEarly
  PROVE  SpecQueue => []QueuedIsAttended
<1>1. ~Fault
  BY DEF Fault, NothingEndsEarly
<1>2. SInv /\ QueuedIsAttended /\ [NextQueue]_allVars => (SInv /\ QueuedIsAttended)'
  BY <1>1, StepAttends, StutterAttends DEF Kept, QueuedIsAttended
<1> QED
  BY <1>2, StartsAttended, PTL DEF SpecQueue

\* Whatever fails, a command is stranded only by a client's call that is cut short,
\* by a message that was delivered for the last time, or by a call that is refused
\* (commands.route.ts:14-16, process-control-queue.ts:103-116).
THEOREM OnlyFaultsStrandCommands == SpecQueue => OnlyFaultsStrand
<1> DEFINE Named ==
      \A c \in CommandId : ~Stranded(c) /\ Stranded(c)' =>
       \/ \E h \in Handler : job[h].role = "client" /\ call'[h].step = "thrown"
       \/ \E h \in Handler : /\ job[h].role = "consumer" /\ job'[h] = NoJob
                             /\ job[h].msg.attempts = MaxAttempts
       \/ \E m \in BagToSet(queue) : m.attempts = MaxAttempts /\ ~BagIn(m, queue')
       \/ \E h \in Handler : call[h].step # "refused" /\ call'[h].step = "refused"
<1>1. SInv /\ NextQueue => Named
  BY StepAttends DEF Kept, Fault
<1>2. SInv /\ [NextQueue]_allVars => [Named]_allVars
  BY <1>1
<1> QED
  BY <1>2, ServingInvariance, PTL DEF SpecQueue, OnlyFaultsStrand, Named
=============================================================================
