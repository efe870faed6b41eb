--------------------------- MODULE McpGateway_proofs ----------------------------
(***************************************************************************)
(* The gateway composes ControlState with a session.  What is proved of    *)
(* ControlState holds behind the gateway too, whichever requests arrive in *)
(* whichever batches: its steps there are ControlState's, except that all  *)
(* calls may go at once.  And only operators make them.  SessionInv says   *)
(* where each stream stands in the log of the session, which gives the     *)
(* refinement of EventStream; ToldInv, who is still to tell what a tool    *)
(* has changed.                                                            *)
(***************************************************************************)
EXTENDS McpGateway, ControlState_proofs, SequenceTheorems, WellFoundedInduction

\* A request that is still to be worked on has messages left.
RequestInv(r) == r.step \in {"message", "dispatch"} => r.rest # <<>>

\* A tool or a route that does something works for an operator.
Authorised ==
  \A h \in Handler : http[h].step = "tool" /\ call[h].op # "none" => http[h].role = "operator"

GatewayInv ==
  /\ IInv
  /\ http \in [Handler -> Request]
  /\ \A h \in Handler : RequestInv(http[h])
  /\ Authorised
-----------------------------------------------------------------------------
LEMMA Idle == NoRequest \in Request /\ RequestInv(NoRequest)
BY DEF NoRequest, Request, Surface, Named, RequestInv

LEMMA GatewayStarts == Init => GatewayInv
BY Starts, Idle DEF Init, SessionInit, GatewayInv, Authorised, NoRequest

\* The rest of a batch is a batch.
LEMMA NextMessageInv ==
  ASSUME NEW r \in Request
  PROVE  /\ NextMessage(r) \in Request /\ RequestInv(NextMessage(r))
         /\ NextMessage(r).step # "tool"
<1>1. CASE Len(r.rest) <= 1
  BY <1>1, Idle DEF NextMessage, NoRequest
<1>2. CASE ~(Len(r.rest) <= 1)
  <2>1. r.rest \in Seq(Message) /\ Len(r.rest) \in Nat
    BY DEF Request
  <2>2. r.rest # <<>> /\ Tail(r.rest) \in Seq(Message) /\ Len(Tail(r.rest)) = Len(r.rest) - 1
    BY <1>2, <2>1, HeadTailProperties
  <2>3. Tail(r.rest) # <<>>
    <3> DEFINE n == Len(r.rest)
               k == Len(Tail(r.rest))
    <3>1. k # 0
      <4>1. n \in Nat /\ ~(n <= 1) /\ k = n - 1
        BY <1>2, <2>1, <2>2
      <4> HIDE DEF n, k
      <4> QED
        BY <4>1
    <3>2. \A s : s = <<>> => Len(s) = 0
      OBVIOUS
    <3> QED
      BY <3>1, <3>2
  <2> QED
    BY <1>2, <2>2, <2>3 DEF NextMessage, Request, RequestInv
<1> QED
  BY <1>1, <1>2

\* A request that moves on without its call keeps the invariant, unless it gets to
\* work on a call of somebody who is no operator.
LEMMA ProceedKeeps ==
  ASSUME GatewayInv, IInv', NEW h \in Handler, NEW r \in Request, RequestInv(r),
         Proceed(h, r),
         \A g \in Handler : g # h => call'[g].op = call[g].op,
         r.step = "tool" /\ call'[h].op # "none" => r.role = "operator"
  PROVE  GatewayInv'
<1> USE DEF GatewayInv, Proceed
<1>1. \A g \in Handler : http'[g] = IF g = h THEN r ELSE http[g]
  OBVIOUS
<1>2. http' \in [Handler -> Request]
  OBVIOUS
<1>3. Authorised'
  BY <1>1 DEF Authorised
<1>4. \A g \in Handler : RequestInv(http[g])'
  BY <1>1 DEF RequestInv
<1> QED
  BY <1>2, <1>3, <1>4

\* The steps of a call leave what it is for, and how far the other calls are.
LEMMA SameOp ==
  ASSUME IInv, NEW h \in Handler, ControlStep(h), NEW g \in Handler
  PROVE  /\ call'[g].op = call[g].op /\ call'[g].route = call[g].route
         /\ g # h => call'[g].step = call[g].step
<1> DEFINE Same(c) == c.op = call[h].op /\ c.route = call[h].route
<1>1. call \in [Handler -> Call] /\ call[h] \in Call
  BY DEF IInv, ControlTypeOK
<1>2. CASE Put(h)
  BY <1>1, <1>2 DEF Put, Call
<1>3. ASSUME NEW c, Set(h, c), Same(c)
      PROVE  /\ call'[g].op = call[g].op /\ call'[g].route = call[g].route
             /\ g # h => call'[g].step = call[g].step
  BY <1>1, <1>3 DEF Set
<1>4. CASE Fail(h)
  <2>1. Same([call[h] EXCEPT !.step = "failed"])
    BY <1>1 DEF Call
  <2> HIDE DEF Same
  <2> QED
    BY <1>3, <1>4, <2>1 DEF Fail
<1>5. CASE RequireAlert(h) \/ RequireApproval(h) \/ Again(h) \/ Cache(h)
  <2>1. PICK c : Set(h, c) /\ Same(c)
    <3> DEFINE failed == [call[h] EXCEPT !.step = "failed"]
               put(b, v) == [call[h] EXCEPT !.step = "put", !.stale = b, !.value = v]
               plain(v) == [call[h] EXCEPT !.step = "put", !.value = v]
               next(s, v, b) == [call[h] EXCEPT !.step = s, !.value = v, !.stale = b]
               done == [call[h] EXCEPT !.step = "done"]
    <3>1. /\ \A b, v : Same(put(b, v)) /\ Same(plain(v))
          /\ \A s, v, b : Same(next(s, v, b))
          /\ Same(failed) /\ Same(done)
      BY <1>1 DEF Call
    <3>2. CASE Fail(h)
      <4>1. Set(h, failed)
        BY <3>2 DEF Fail
      <4> HIDE DEF failed, Same
      <4> QED
        BY <3>1, <4>1
    <3>3. CASE RequireAlert(h)
      <4>1. Fail(h) \/ \E b, v : Become(h, put(b, v))
        BY <3>3 DEF RequireAlert
      <4> HIDE DEF put, Same
      <4> QED
        BY <3>1, <3>2, <4>1 DEF Become
    <3>4. CASE RequireApproval(h)
      <4>1. Fail(h) \/ \E v : Become(h, plain(v))
        BY <3>4 DEF RequireApproval
      <4> HIDE DEF plain, Same
      <4> QED
        BY <3>1, <3>2, <4>1 DEF Become
    <3>5. CASE Again(h)
      <4>1. Fail(h) \/ \E s, v, b : Become(h, next(s, v, b))
        BY <3>5 DEF Again
      <4> HIDE DEF next, Same
      <4> QED
        BY <3>1, <3>2, <4>1 DEF Become
    <3>6. CASE Cache(h)
      <4>1. Set(h, done)
        BY <3>6 DEF Cache
      <4> HIDE DEF done, Same
      <4> QED
        BY <3>1, <4>1
    <3> QED
      BY <1>5, <3>3, <3>4, <3>5, <3>6
  <2> HIDE DEF Same
  <2> QED
    BY <1>3, <2>1
<1> QED
  BY <1>2, <1>4, <1>5 DEF ControlStep, Throws

\* Who gets a call to make it is an operator.
LEMMA RouteKeeps ==
  ASSUME GatewayInv, NEW h \in Handler, NEW role \in {"operator", "viewer", "nobody"},
         Route(h, role)
  PROVE  GatewayInv'
<1> DEFINE r == [NoRequest EXCEPT !.role = role, !.step = "tool"]
<1>1. IInv'
  BY BeginKeeps DEF Route, GatewayInv
<1>2. r \in Request /\ RequestInv(r) /\ r.role = role /\ role = "operator"
  <2>1. role = "operator"
    BY DEF Route, IsAdmitted
  <2>2. NoRequest \in Request
    BY Idle
  <2> QED
    BY <2>1, <2>2 DEF Request, RequestInv
<1>3. \A g \in Handler : g # h => call'[g].op = call[g].op
  BY DEF Route, RouteCall, Begin, Set, GatewayInv, IInv, ControlTypeOK
<1> QED
  BY <1>1, <1>2, <1>3, ProceedKeeps DEF Route

LEMMA CallToolKeeps ==
  ASSUME GatewayInv, NEW h \in Handler, CallTool(h)
  PROVE  GatewayInv'
<1> DEFINE r == http[h]
           m == Head(r.rest)
<1>1. r \in Request /\ r.step = "dispatch" /\ r.rest \in Seq(Message) /\ r.rest # <<>>
  BY DEF CallTool, IsAt, GatewayInv, RequestInv, Request
<1>2. m \in Message /\ m.method = "call"
  BY <1>1, HeadTailProperties DEF CallTool
<1>3. m.tool \in Tool /\ m.alert \in Alert
  BY <1>2 DEF Message
<1>4. CASE MayCall(r.surface, r.role, m.tool)
  <2> DEFINE next == [r EXCEPT !.step = "tool"]
  <2>1. PICK outcome \in {"done", "failed"} :
          Begin(h, CASE m.tool = "read_alert"    -> MarkRead(m.alert, FALSE)
                     [] m.tool = "dismiss_alert" -> Dismiss(m.alert, FALSE)
                     [] OTHER                    -> [NoCall EXCEPT !.step = outcome])
    BY <1>4 DEF CallTool
  <2>2. next \in Request /\ RequestInv(next) /\ next.role = r.role
    BY <1>1 DEF Request, RequestInv
  <2>3. \A g \in Handler : g # h => call'[g].op = call[g].op
    BY <2>1 DEF Begin, Set, GatewayInv, IInv, ControlTypeOK
  <2>4. Proceed(h, next)
    BY <1>4 DEF CallTool
  <2>5. CASE m.tool \in {"read_alert", "dismiss_alert"}
    <3>1. IInv'
      BY <1>3, <2>1, <2>5, BeginKeeps DEF ToolCall, GatewayInv
    <3>2. r.role = "operator"
      BY <1>4, <2>5 DEF MayCall
    <3> QED
      BY <2>2, <2>3, <2>4, <3>1, <3>2, ProceedKeeps
  <2>6. CASE m.tool = "submit_operator_request"
    <3> DEFINE c == [NoCall EXCEPT !.step = outcome]
    <3>1. c \in Call /\ CallInv(c) /\ Fresh(c) /\ c.op = "none"
      BY Rest DEF NoCall, Call, CallInv, Fresh
    <3>2. Begin(h, c)
      BY <2>1, <2>6
    <3> HIDE DEF c
    <3>3. IInv'
      BY <3>1, <3>2, BeginsKeep DEF GatewayInv
    <3>4. call'[h].op = "none"
      BY <3>1, <3>2 DEF Begin, Set, GatewayInv, IInv, ControlTypeOK
    <3> QED
      BY <2>2, <2>3, <2>4, <3>3, <3>4, ProceedKeeps
  <2> QED
    BY <1>3, <2>5, <2>6 DEF Tool
<1>5. CASE ~MayCall(r.surface, r.role, m.tool)
  <2>1. Only(h, NextMessage(r))
    BY <1>5 DEF CallTool
  <2>2. IInv' /\ call' = call
    BY <2>1, StutterKeeps DEF Only, GatewayInv, controlVars
  <2> QED
    BY <1>1, <2>1, <2>2, NextMessageInv, ProceedKeeps DEF Only
<1> QED
  BY <1>4, <1>5

\* While it is worked for, a request keeps its role.
LEMMA WorkKeeps ==
  ASSUME GatewayInv, NEW h \in Handler, Work(h)
  PROVE  GatewayInv'
<1>1. IInv'
  BY ControlStepKeeps DEF Work, GatewayInv
<1>2. \A g \in Handler : call'[g].op = call[g].op
  BY SameOp DEF Work, GatewayInv
<1> QED
  BY <1>1, <1>2 DEF Work, GatewayInv, Authorised, RequestInv
-----------------------------------------------------------------------------
(***************************************************************************)
(* The steps that leave alerts and approvals alone.                        *)
(***************************************************************************)
\* A request that moves on while ControlState is left as it is.
LEMMA MovesOn ==
  ASSUME GatewayInv, UNCHANGED controlVars, NEW h \in Handler, NEW r \in Request,
         RequestInv(r), r.step # "tool", Proceed(h, r)
  PROVE  GatewayInv'
<1>1. IInv' /\ call' = call
  BY StutterKeeps DEF GatewayInv, controlVars
<1> QED
  BY <1>1, ProceedKeeps

LEMMA RoleTypes == \A credential : RoleOf(credential) \in {"operator", "viewer", "nobody"}
BY DEF RoleOf

LEMMA PostKeeps ==
  ASSUME GatewayInv, NEW h \in Handler, NEW p \in Posting, Post(h, p)
  PROVE  GatewayInv'
<1> DEFINE r == [surface |-> p.surface, role |-> RoleOf(p.credential), named |-> p.named,
                 rest |-> p.batch, step |-> "message"]
<1>1. r \in Request /\ RequestInv(r) /\ r.step # "tool"
  BY McpGatewayAssumption, RoleTypes DEF Request, Surface, Named, RequestInv
<1>2. Proceed(h, r) /\ UNCHANGED controlVars
  BY DEF Post, Only
<1> QED
  BY <1>1, <1>2, MovesOn

LEMMA PostToolKeeps ==
  ASSUME GatewayInv, NEW h \in Handler, NEW role \in {"operator", "viewer", "nobody"},
         NEW m \in Message, PostTool(h, role, m)
  PROVE  GatewayInv'
<1> DEFINE r == [surface |-> "thin", role |-> role, named |-> "none", rest |-> <<m>>,
                 step |-> "dispatch"]
<1>1. r \in Request /\ RequestInv(r) /\ r.step # "tool"
  BY DEF Request, Surface, Named, RequestInv
<1>2. Proceed(h, r) /\ UNCHANGED controlVars
  BY DEF PostTool, Only
<1> QED
  BY <1>1, <1>2, MovesOn

LEMMA LookKeeps ==
  ASSUME GatewayInv, NEW h \in Handler, Look(h)
  PROVE  GatewayInv'
<1> DEFINE r == http[h]
<1>1. r \in Request /\ r.step = "message" /\ r.rest # <<>>
  BY DEF Look, IsAt, GatewayInv, RequestInv
<1>2. CASE Proceed(h, NextMessage(Renamed(r))) /\ UNCHANGED controlVars
  <2>1. Renamed(r) \in Request
    BY <1>1 DEF Renamed, Request, Named
  <2> QED
    BY <1>2, <2>1, NextMessageInv, MovesOn
<1>3. CASE Only(h, [r EXCEPT !.step = "dispatch"])
  <2>1. [r EXCEPT !.step = "dispatch"] \in Request /\ RequestInv([r EXCEPT !.step = "dispatch"])
        /\ [r EXCEPT !.step = "dispatch"].step # "tool"
    BY <1>1 DEF Request, RequestInv
  <2> QED
    BY <1>3, <2>1, MovesOn DEF Only
<1>4. CASE Only(h, NextMessage(r))
  BY <1>1, <1>4, NextMessageInv, MovesOn DEF Only
<1> QED
  BY <1>2, <1>3, <1>4 DEF Look

LEMMA TellKeeps ==
  ASSUME GatewayInv, NEW h \in Handler, Dispatch(h) \/ PublishMutation(h)
  PROVE  GatewayInv'
<1>1. http[h] \in Request
  BY DEF GatewayInv
<1>2. Proceed(h, NextMessage(http[h])) /\ UNCHANGED controlVars
  BY DEF Dispatch, PublishMutation
<1> QED
  BY <1>1, <1>2, NextMessageInv, MovesOn
LEMMA EndWorkKeeps ==
  ASSUME GatewayInv, NEW h \in Handler, EndWork(h)
  PROVE  GatewayInv'
<1> DEFINE r == http[h]
           publish == [r EXCEPT !.step = "publish"]
           next == IF r.surface = "api" THEN NoRequest
                   ELSE IF At(h, "done") THEN publish
                   ELSE NextMessage(r)
<1>1. r \in Request
  BY DEF GatewayInv
<1>2. \A q \in {NoRequest, publish, NextMessage(r)} :
        q \in Request /\ RequestInv(q) /\ q.step # "tool"
  <2>1. publish \in Request /\ RequestInv(publish) /\ publish.step # "tool"
    BY <1>1 DEF Request, RequestInv
  <2>2. NoRequest.step # "tool"
    BY DEF NoRequest
  <2> QED
    BY <1>1, <2>1, <2>2, Idle, NextMessageInv
<1>3. next \in {NoRequest, publish, NextMessage(r)}
  OBVIOUS
<1>4. IInv' /\ \A g \in Handler : g # h => call'[g].op = call[g].op
  BY AnswerKeeps DEF EndWork, End, Become, Set, GatewayInv, IInv, ControlTypeOK
<1>5. Proceed(h, next)
  BY DEF EndWork
<1> HIDE DEF next
<1> QED
  BY <1>2, <1>3, <1>4, <1>5, ProceedKeeps

\* The calls that go with the isolate are marked, as those that fail are.
LEMMA EvictKeeps ==
  ASSUME GatewayInv, Evict
  PROVE  GatewayInv'
<1> USE DEF Evict
<1>1. \A g \in Handler : call'[g] = NoCall /\ http'[g] = NoRequest
  OBVIOUS
<1>2. ControlTypeOK'
  <2>1. TornBy(Handler) \subseteq Alert \cup Approval
    BY DEF TornBy, GatewayInv, IInv, ControlTypeOK, Call
  <2> QED
    BY <2>1, Rest DEF GatewayInv, IInv, ControlTypeOK
<1>3. ASSUME NEW g \in Handler PROVE (CallInv(call[g]) /\ Fresh(call[g]))'
  <2>1. CallInv(call'[g]) /\ Fresh(call'[g])
    BY <1>1, Rest
  <2> QED
    BY <2>1 DEF CallInv, Fits, Fresh, Stored
<1>4. Repaired'
  <2> SUFFICES ASSUME NEW id \in Alert \cup Approval, ~Synced(id)' PROVE id \in torn'
    BY DEF Repaired
  <2>1. id \in torn \/ \E h \in Handler : Repairs(call[h], id)
    BY DEF GatewayInv, IInv, Repaired, Synced
  <2> QED
    BY <2>1 DEF TornBy, Repairs
<1>5. http' \in [Handler -> Request] /\ \A g \in Handler : RequestInv(http[g])'
  BY <1>1, Idle DEF RequestInv
<1>6. Authorised'
  BY <1>1 DEF Authorised, NoRequest
<1> QED
  BY <1>2, <1>3, <1>4, <1>5, <1>6 DEF GatewayInv, IInv

\* A step that leaves the requests and the calls as they are.
LEMMA RestKeeps ==
  ASSUME GatewayInv, IInv', UNCHANGED <<http, call>>
  PROVE  GatewayInv'
BY DEF GatewayInv, RequestInv, Authorised
-----------------------------------------------------------------------------
LEMMA GatewayStep ==
  ASSUME GatewayInv, Next
  PROVE  GatewayInv'
<1>1. ASSUME NEW h \in Handler, ClientRequest(h) PROVE GatewayInv'
  <2>1. CASE \E p \in Posting : Post(h, p)
    BY <2>1, PostKeeps
  <2>2. ASSUME NEW credential \in Credential, NEW tool \in Tool, NEW a \in Alert,
               PostTool(h, RoleOf(credential), [method |-> "call", tool |-> tool, alert |-> a])
        PROVE  GatewayInv'
    <3>1. [method |-> "call", tool |-> tool, alert |-> a] \in Message
      BY DEF Message
    <3> QED
      BY <2>2, <3>1, RoleTypes, PostToolKeeps
  <2>3. ASSUME NEW credential \in Credential, Route(h, RoleOf(credential)) PROVE GatewayInv'
    BY <2>3, RoleTypes, RouteKeeps
  <2> QED
    BY <1>1, <2>1, <2>2, <2>3 DEF ClientRequest
<1>2. ASSUME NEW h \in Handler, Serve(h) PROVE GatewayInv'
  BY <1>2, LookKeeps, TellKeeps, CallToolKeeps, WorkKeeps, EndWorkKeeps DEF Serve
<1>3. ASSUME NEW role, DeleteSession(role) PROVE GatewayInv'
  BY <1>3, StutterKeeps, RestKeeps DEF DeleteSession, GatewayInv, controlVars
<1>4. CASE Meanwhile
  <2>1. CASE UNCHANGED <<controlVars, http>>
    BY <2>1, StutterKeeps, RestKeeps DEF GatewayInv, controlVars
  <2>2. ASSUME NEW a \in Alert, CommandMoves(a), UNCHANGED http PROVE GatewayInv'
    BY <2>2, CommandMovesKeeps, RestKeeps DEF CommandMoves, GatewayInv
  <2> QED
    BY <1>4, <2>1, <2>2 DEF Meanwhile
<1> QED
  BY <1>1, <1>2, <1>3, <1>4, EvictKeeps DEF Next

LEMMA GatewayInvariance == Spec => []GatewayInv
<1>1. ASSUME GatewayInv, UNCHANGED vars PROVE GatewayInv'
  BY <1>1, StutterKeeps, RestKeeps DEF vars, GatewayInv, controlVars
<1>2. GatewayInv /\ [Next]_vars => GatewayInv'
  BY <1>1, GatewayStep
<1> QED
  BY <1>2, GatewayStarts, PTL DEF Spec

\* Behind the gateway too the console is shown what the store has, whatever batches
\* and evictions do to the calls: mcp-router.ts:558-575, approvals.route.ts:39-45.
THEOREM GatewayConsole == Spec => []ConsoleShowsTheStore
<1>1. GatewayInv => ConsoleShowsTheStore
  BY DEF GatewayInv, IInv, Repaired, Synced, Repairs, ConsoleShowsTheStore, Mine, At
<1> QED
  BY <1>1, GatewayInvariance, PTL

\* Nobody but an operator changes an alert or an approval: auth-middleware.ts:15-45,
\* mcp-router.ts:541-556.
THEOREM OnlyOperators == Spec => OnlyOperatorsMutate
<1> DEFINE Meant == states' # states \/ approvals' # approvals =>
                      \E h \in Handler : http[h].step = "tool" /\ http[h].role = "operator"
<1>1. ASSUME GatewayInv, Next PROVE Meant
  <2> SUFFICES ASSUME states' # states \/ approvals' # approvals
               PROVE  \E h \in Handler : http[h].step = "tool" /\ http[h].role = "operator"
    OBVIOUS
  <2>1. PICK h \in Handler : Work(h)
    BY <1>1 DEF Next, ClientRequest, Serve, Post, PostTool, Route, RouteCall, Begin, Look,
                Dispatch, CallTool, Only, EndWork, End, Become, PublishMutation,
                DeleteSession, Meanwhile, CommandMoves, Evict, controlVars
  <2>2. http[h].step = "tool" /\ Put(h)
    BY <2>1 DEF Work, IsAt, ControlStep, RequireAlert, RequireApproval, Become, Fail, Again,
                 Cache, Throws
  <2>3. call[h].op # "none"
    BY <1>1, <2>2 DEF Put, At, GatewayInv, IInv, CallInv
  <2> QED
    BY <1>1, <2>2, <2>3 DEF GatewayInv, Authorised
<1>2. GatewayInv /\ [Next]_vars => [Meant]_vars
  BY <1>1
<1> QED
  BY <1>2, GatewayInvariance, PTL DEF Spec, OnlyOperatorsMutate, Meant
-----------------------------------------------------------------------------
(***************************************************************************)
(* The session.  Its history is the end of the log, and what a stream has  *)
(* in hand and in its queue reaches from what its client was sent to the   *)
(* end of the log; only what is older than the history may be left out.    *)
(***************************************************************************)
\* The events of the log s from one id to another.
StretchOf(s, from, to) ==
  [i \in 1..(to + 1 - from) |-> [id |-> from + i - 1, uri |-> s[from + i - 1]]]

\* The last event a client was sent, or where it began.
PlaceOf(o, r) == IF r = <<>> THEN o ELSE Last(r).id

Place(c) == PlaceOf(origin[c], received[c])

\* After place, the next event of the log s that is kept is the one with the id a.
NextIs(s, place, a) ==
  /\ place < a
  /\ a - 1 = place \/ a - 1 + History <= Len(s)

InHand(s, place, f) ==
  \E a \in 1..Len(s) : /\ NextIs(s, place, a) /\ a <= f.cursor /\ f.cursor <= Len(s)
                       /\ f.batch = StretchOf(s, a, f.cursor)

\* The stream f of a client that was sent all of the log s up to place.
StreamInv(s, place, f) ==
  /\ f.phase = "read" =>
       /\ f.cursor = place
       /\ \E a \in 1..(Len(s) + 1) : NextIs(s, place, a) /\ f.queue = StretchOf(s, a, Len(s))
  /\ f.phase = "wait" => f.cursor = place /\ place = Len(s) /\ f.queue = <<>>
  /\ f.phase \in {"write", "last"} => InHand(s, place, f)
  /\ f.phase = "write" => f.queue = StretchOf(s, f.cursor + 1, Len(s))

\* How much of the log s the history holds, and what.
Kept(s) == IF Len(s) <= History THEN Len(s) ELSE History

EndOf(s) == StretchOf(s, Len(s) + 1 - Kept(s), Len(s))

\* A client that began at o and was sent r.
SentIsLogged(s, o, r) == o <= Len(s) /\ (r # <<>> => Last(r).id \in 1..Len(s))

SessionInv ==
  /\ SessionTypeOK
  /\ session.events = EndOf(log)
  /\ session.delivered <= Len(log)
  /\ \A c \in Client : SentIsLogged(log, origin[c], received[c])
  /\ \A c \in Client : StreamInv(log, Place(c), stream[c])

-----------------------------------------------------------------------------
(***************************************************************************)
(* Induction, and what filter returns.                                     *)
(***************************************************************************)
LEMMA LeastElement ==
  ASSUME NEW S \in SUBSET Nat, S # {}
  PROVE  \E n \in S : \A m \in S : n <= m
<1> DEFINE R == OpToRel(<, Nat)
<1>1. IsWellFoundedOn(R, Nat)
  BY NatLessThanWellFounded
<1>2. PICK n \in S : \A y \in S : <<y, n>> \notin R
  <2> HIDE DEF R
  <2> QED
    BY <1>1, WFMin
<1>3. ASSUME NEW m \in S PROVE n <= m
  <2>1. <<m, n>> \in Nat \X Nat /\ ~(m < n)
    BY <1>2 DEF OpToRel
  <2> QED
    BY <2>1
<1> QED
  BY <1>3

LEMMA Induction ==
  ASSUME NEW S, 0 \in S, \A n \in Nat : n \in S => n + 1 \in S
  PROVE  \A n \in Nat : n \in S
<1> DEFINE Missing == Nat \ S
<1>1. SUFFICES ASSUME Missing # {} PROVE FALSE
  OBVIOUS
<1>2. PICK n \in Missing : \A m \in Missing : n <= m
  BY <1>1, LeastElement
<1>3. n - 1 \in Nat /\ n - 1 \notin Missing
  BY <1>2
<1> QED
  BY <1>2, <1>3

Parts(f, s, kept) ==
  \A i \in 0..Len(s) :
    f[i] = IF i = 0 THEN <<>>
           ELSE IF s[i] \in kept THEN Append(f[i - 1], s[i])
           ELSE f[i - 1]

\* Filtered is what its recursion says.
LEMMA FilteredParts ==
  ASSUME NEW D, NEW s \in Seq(D), NEW kept
  PROVE  \E f : Parts(f, s, kept) /\ Filtered(s, kept) = f[Len(s)]
<1> DEFINE Defines(f, n) ==
             f = [i \in 0..n |-> IF i = 0 THEN <<>>
                                 ELSE IF s[i] \in kept THEN Append(f[i - 1], s[i])
                                 ELSE f[i - 1]]
           S == {n \in Nat : \E f : Defines(f, n)}
           F == CHOOSE f : Defines(f, Len(s))
<1>1. 0 \in S
  <2>1. Defines([i \in 0..0 |-> <<>>], 0)
    OBVIOUS
  <2> QED
    BY <2>1
<1>2. ASSUME NEW n \in Nat, n \in S PROVE n + 1 \in S
  <2>1. PICK f : Defines(f, n)
    BY <1>2
  <2> DEFINE last == IF s[n + 1] \in kept THEN Append(f[n], s[n + 1]) ELSE f[n]
             g == [i \in 0..(n + 1) |-> IF i = n + 1 THEN last ELSE f[i]]
  <2>2. \A i \in 0..n : f[i] = IF i = 0 THEN <<>>
                               ELSE IF s[i] \in kept THEN Append(f[i - 1], s[i])
                               ELSE f[i - 1]
    BY <2>1
  <2>3. \A i \in 0..n : g[i] = f[i]
    OBVIOUS
  <2>4. g[n + 1] = IF s[n + 1] \in kept THEN Append(g[n], s[n + 1]) ELSE g[n]
    BY <2>3
  <2>0. g = [i \in 0..(n + 1) |-> g[i]]
    OBVIOUS
  <2> HIDE DEF last, g
  <2>5. \A i \in 0..(n + 1) : g[i] = IF i = 0 THEN <<>>
                                     ELSE IF s[i] \in kept THEN Append(g[i - 1], s[i])
                                     ELSE g[i - 1]
    <3> TAKE i \in 0..(n + 1)
    <3>1. CASE i = n + 1
      <4>1. i # 0 /\ i - 1 = n
        BY <3>1
      <4> QED
        BY <2>4, <3>1, <4>1
    <3>2. CASE i = 0
      BY <2>2, <2>3, <3>2
    <3>3. CASE i \in 1..n
      <4>1. g[i] = f[i] /\ g[i - 1] = f[i - 1]
        BY <2>3, <3>3
      <4> QED
        BY <2>2, <3>3, <4>1
    <3> QED
      BY <3>1, <3>2, <3>3
  <2>6. Defines(g, n + 1)
    BY <2>0, <2>5
  <2> HIDE DEF Defines
  <2> QED
    BY <2>6
<1>3. Len(s) \in S
  <2> HIDE DEF S
  <2> QED
    BY <1>1, <1>2, Induction
<1>4. Defines(F, Len(s))
  BY <1>3
<1>5. Filtered(s, kept) = F[Len(s)]
  BY DEF Filtered
<1>6. Parts(F, s, kept)
  <2> HIDE DEF F
  <2> QED
    BY <1>4 DEF Parts
<1> QED
  BY <1>5, <1>6

\* The elements of s behind the m-th.
Behind(s, m) == [k \in 1..(Len(s) - m) |-> s[m + k]]

\* When what is kept stands behind the rest, Filtered returns the end of s.
LEMMA FilteredSuffix ==
  ASSUME NEW D, NEW s \in Seq(D), NEW kept, NEW m \in 0..Len(s),
         \A j \in 1..Len(s) : s[j] \in kept <=> j > m
  PROVE  Filtered(s, kept) = Behind(s, m)
<1> DEFINE Tails(i) == [k \in 1..(i - m) |-> s[m + k]]
<1>1. PICK f : Parts(f, s, kept) /\ Filtered(s, kept) = f[Len(s)]
  BY FilteredParts
<1> DEFINE S == {i \in Nat : i <= Len(s) => f[i] = Tails(i)}
<1>2. Len(s) \in Nat /\ m \in Nat /\ m <= Len(s)
  OBVIOUS
<1>3. 0 \in S
  <2>1. f[0] = <<>>
    BY <1>1, <1>2 DEF Parts
  <2>2. Tails(0) = <<>>
    BY <1>2
  <2> QED
    BY <2>1, <2>2
<1>4. ASSUME NEW i \in Nat, i \in S PROVE i + 1 \in S
  <2> SUFFICES ASSUME i + 1 <= Len(s) PROVE f[i + 1] = Tails(i + 1)
    OBVIOUS
  <2>1. f[i] = Tails(i)
    BY <1>2, <1>4
  <2>2. f[i + 1] = IF s[i + 1] \in kept THEN Append(f[i], s[i + 1]) ELSE f[i]
    BY <1>1, <1>2 DEF Parts
  <2>3. CASE i + 1 > m
    <3>1. f[i + 1] = Append(Tails(i), s[i + 1])
      BY <1>2, <2>1, <2>2, <2>3
    <3>2. Tails(i) \in Seq(D) /\ Len(Tails(i)) = i - m
      BY <1>2, <2>3
    <3>3. Append(Tails(i), s[i + 1]) = Tails(i + 1)
      <4>1. \A k \in 1..(i + 1 - m) :
              Append(Tails(i), s[i + 1])[k] = s[m + k]
        BY <1>2, <2>3, <3>2
      <4>2. Append(Tails(i), s[i + 1])
              = [k \in 1..(i + 1 - m) |-> Append(Tails(i), s[i + 1])[k]]
        BY <1>2, <2>3, <3>2
      <4> DEFINE longer == Append(Tails(i), s[i + 1])
      <4> HIDE DEF longer
      <4>3. longer = [k \in 1..(i + 1 - m) |-> s[m + k]]
        BY <4>1, <4>2 DEF longer
      <4>4. longer = Tails(i + 1)
        BY <4>3
      <4> HIDE DEF Tails
      <4> QED
        BY <4>4 DEF longer
    <3> QED
      BY <3>1, <3>3
  <2>4. CASE ~(i + 1 > m)
    <3>1. f[i + 1] = Tails(i)
      BY <1>2, <2>1, <2>2, <2>4
    <3>2. 1..(i - m) = {} /\ 1..(i + 1 - m) = {}
      BY <1>2, <2>4
    <3>3. Tails(i) = Tails(i + 1)
      BY <3>2
    <3> QED
      BY <3>1, <3>3
  <2> QED
    BY <2>3, <2>4
<1>5. Len(s) \in S
  <2> HIDE DEF S
  <2> QED
    BY <1>2, <1>3, <1>4, Induction
<1> QED
  BY <1>1, <1>2, <1>5 DEF Behind


LEMMA FilteredTypes ==
  ASSUME NEW D, NEW s \in Seq(D), NEW kept
  PROVE  Filtered(s, kept) \in Seq(D)
<1>1. PICK f : Parts(f, s, kept) /\ Filtered(s, kept) = f[Len(s)]
  BY FilteredParts
<1> DEFINE S == {i \in Nat : i <= Len(s) => f[i] \in Seq(D)}
<1>2. Len(s) \in Nat /\ \A i \in 1..Len(s) : s[i] \in D
  OBVIOUS
<1>3. 0 \in S
  <2>1. f[0] = <<>>
    BY <1>1, <1>2 DEF Parts
  <2>2. f[0] \in Seq(D)
    BY <2>1
  <2> QED
    BY <2>2
<1>4. ASSUME NEW i \in Nat, i \in S PROVE i + 1 \in S
  <2> SUFFICES ASSUME i + 1 <= Len(s) PROVE f[i + 1] \in Seq(D)
    OBVIOUS
  <2>1. f[i + 1] = IF s[i + 1] \in kept THEN Append(f[i], s[i + 1]) ELSE f[i]
    BY <1>1, <1>2 DEF Parts
  <2>2. f[i] \in Seq(D) /\ s[i + 1] \in D
    BY <1>2, <1>4
  <2> QED
    BY <2>1, <2>2
<1>5. Len(s) \in S
  <2> HIDE DEF S
  <2> QED
    BY <1>2, <1>3, <1>4, Induction
<1> QED
  BY <1>1, <1>2, <1>5

\* What is kept of a single element.
LEMMA FilteredOne ==
  ASSUME NEW x, NEW kept
  PROVE  Filtered(<<x>>, kept) = IF x \in kept THEN <<x>> ELSE <<>>
<1>1. PICK f : Parts(f, <<x>>, kept) /\ Filtered(<<x>>, kept) = f[Len(<<x>>)]
  <2>1. <<x>> \in Seq({x})
    OBVIOUS
  <2> QED
    BY <2>1, FilteredParts
<1>2. Len(<<x>>) = 1 /\ <<x>>[1] = x
  OBVIOUS
<1>3. f[0] = <<>> /\ f[1] = IF x \in kept THEN Append(f[0], x) ELSE f[0]
  BY <1>1, <1>2 DEF Parts
<1>4. Append(<<>>, x) = <<x>>
  OBVIOUS
<1> QED
  BY <1>1, <1>2, <1>3, <1>4
-----------------------------------------------------------------------------
(***************************************************************************)
(* Stretches of the log.                                                   *)
(***************************************************************************)
Item == Uri \cup {"list"}

\* A stretch may be empty, when it ends before it starts.
LEMMA StretchIs ==
  ASSUME NEW s \in Seq(Item), NEW from \in 1..(Len(s) + 1), NEW to \in (from - 1)..Len(s)
  PROVE  /\ StretchOf(s, from, to) \in Seq(Event)
         /\ Len(StretchOf(s, from, to)) = to + 1 - from
         /\ \A i \in 1..(to + 1 - from) :
              /\ StretchOf(s, from, to)[i] = [id |-> from + i - 1, uri |-> s[from + i - 1]]
              /\ StretchOf(s, from, to)[i].id = from + i - 1
         /\ StretchOf(s, from, to) = <<>> <=> to = from - 1
         /\ to >= from => /\ Last(StretchOf(s, from, to)).id = to
                          /\ Head(StretchOf(s, from, to)).id = from
<1> DEFINE item(i) == [id |-> from + i - 1, uri |-> s[from + i - 1]]
           n == to + 1 - from
           part == StretchOf(s, from, to)
<1>1. Len(s) \in Nat /\ from \in Nat /\ to \in Nat /\ n \in Nat /\ from >= 1 /\ to <= Len(s)
  OBVIOUS
<1>2. \A i \in 1..n : item(i) \in Event /\ item(i).id = from + i - 1
  <2> TAKE i \in 1..n
  <2>1. from + i - 1 \in 1..Len(s)
    BY <1>1
  <2>2. s[from + i - 1] \in Item
    BY <2>1
  <2> QED
    BY <2>1, <2>2 DEF Event, Item
<1>3. part = [i \in 1..n |-> item(i)]
  BY DEF StretchOf
<1> HIDE DEF item, part
<1>4. part \in Seq(Event) /\ Len(part) = n /\ \A i \in 1..n : part[i] = item(i)
  <2> HIDE DEF n
  <2> QED
    BY <1>1, <1>2, <1>3
<1>5. part = <<>> <=> n = 0
  <2> HIDE DEF n
  <2> QED
    BY <1>1, <1>4
<1>6. ASSUME to >= from PROVE Last(part).id = to /\ Head(part).id = from
  <2>1. n \in 1..n /\ 1 \in 1..n /\ from + n - 1 = to /\ from + 1 - 1 = from
    BY <1>1, <1>6
  <2>2. Last(part) = part[n] /\ Head(part) = part[1]
    BY <1>4, <1>5, <2>1 DEF Last
  <2> HIDE DEF n
  <2> QED
    BY <1>2, <1>4, <2>1, <2>2
<1> HIDE DEF n
<1>7. n = 0 <=> to = from - 1
  BY <1>1 DEF n
<1>8. \A i \in 1..n : part[i] = item(i) /\ part[i].id = from + i - 1
  BY <1>2, <1>4
<1> QED
  BY <1>4, <1>5, <1>6, <1>7, <1>8 DEF part, n, item

\* No stretch is left at the end.
LEMMA NothingLeft ==
  ASSUME NEW s \in Seq(Item)
  PROVE  StretchOf(s, Len(s) + 1, Len(s)) = <<>>
<1>1. PICK from : from = Len(s) + 1
  OBVIOUS
<1>2. from \in 1..(Len(s) + 1) /\ Len(s) \in (from - 1)..Len(s) /\ Len(s) = from - 1
  BY <1>1
<1>3. StretchOf(s, from, Len(s)) = <<>>
  BY <1>2, StretchIs
<1> QED
  BY <1>1, <1>3

\* What follows in the log changes no stretch of it.
LEMMA StretchOfPrefix ==
  ASSUME NEW s \in Seq(Item), NEW w \in Seq(Item), NEW from \in 1..(Len(s) + 1),
         NEW to \in Nat, to <= Len(s)
  PROVE  StretchOf(s \o w, from, to) = StretchOf(s, from, to)
<1>1. \A i \in 1..(to + 1 - from) : (s \o w)[from + i - 1] = s[from + i - 1]
  <2> TAKE i \in 1..(to + 1 - from)
  <2>1. from + i - 1 \in 1..Len(s) /\ Len(s) \in Nat /\ Len(w) \in Nat
    OBVIOUS
  <2> QED
    BY <2>1, ConcatProperties
<1> QED
  BY <1>1 DEF StretchOf

\* Stretches that meet are one.
LEMMA StretchesJoin ==
  ASSUME NEW s \in Seq(Item), NEW from \in 1..(Len(s) + 1), NEW mid \in (from - 1)..Len(s),
         NEW to \in mid..Len(s)
  PROVE  StretchOf(s, from, mid) \o StretchOf(s, mid + 1, to) = StretchOf(s, from, to)
<1>1. PICK a : a = StretchOf(s, from, mid)
  OBVIOUS
<1>2. PICK b : b = StretchOf(s, mid + 1, to)
  OBVIOUS
<1>3. PICK c : c = StretchOf(s, from, to)
  OBVIOUS
<1>0. /\ Len(s) \in Nat /\ from \in Nat /\ mid \in Nat /\ to \in Nat
      /\ mid + 1 \in 1..(Len(s) + 1) /\ to \in ((mid + 1) - 1)..Len(s)
      /\ to \in (from - 1)..Len(s)
  OBVIOUS
<1>4. /\ a \in Seq(Event) /\ Len(a) = mid + 1 - from
      /\ \A i \in 1..(mid + 1 - from) : a[i] = [id |-> from + i - 1, uri |-> s[from + i - 1]]
  BY <1>0, <1>1, StretchIs
<1>5. /\ b \in Seq(Event) /\ Len(b) = to + 1 - (mid + 1)
      /\ \A i \in 1..(to + 1 - (mid + 1)) :
           b[i] = [id |-> (mid + 1) + i - 1, uri |-> s[(mid + 1) + i - 1]]
  BY <1>0, <1>2, StretchIs
<1>6. /\ c \in Seq(Event) /\ Len(c) = to + 1 - from
      /\ \A i \in 1..(to + 1 - from) : c[i] = [id |-> from + i - 1, uri |-> s[from + i - 1]]
  BY <1>0, <1>3, StretchIs
<1>7. /\ a \o b \in Seq(Event) /\ Len(a \o b) = Len(a) + Len(b)
      /\ \A i \in 1..(Len(a) + Len(b)) : (a \o b)[i] = IF i <= Len(a) THEN a[i] ELSE b[i - Len(a)]
  BY <1>4, <1>5, ConcatProperties
<1>8. Len(a) + Len(b) = to + 1 - from
  BY <1>0, <1>4, <1>5
<1>9. \A i \in 1..(to + 1 - from) : (a \o b)[i] = c[i]
  <2> TAKE i \in 1..(to + 1 - from)
  <2>1. CASE i <= mid + 1 - from
    <3>1. i \in 1..(mid + 1 - from) /\ i <= Len(a)
      BY <1>0, <1>4, <2>1
    <3>2. (a \o b)[i] = a[i]
      BY <1>7, <1>8, <3>1
    <3> QED
      BY <1>4, <1>6, <3>1, <3>2
  <2>2. CASE ~(i <= mid + 1 - from)
    <3>1. i - Len(a) \in 1..(to + 1 - (mid + 1)) /\ (mid + 1) + (i - Len(a)) - 1 = from + i - 1
      BY <1>0, <1>4, <2>2
    <3>2. (a \o b)[i] = b[i - Len(a)]
      BY <1>0, <1>4, <1>7, <1>8, <2>2
    <3>3. b[i - Len(a)] = [id |-> from + i - 1, uri |-> s[from + i - 1]]
      BY <1>5, <3>1
    <3> QED
      BY <1>6, <3>2, <3>3
  <2> QED
    BY <2>1, <2>2
<1>10. a \o b = c
  <2>1. PICK d : d = a \o b
    OBVIOUS
  <2>2. d \in Seq(Event) /\ Len(d) = Len(c) /\ \A i \in 1..Len(c) : d[i] = c[i]
    BY <1>6, <1>7, <1>8, <1>9, <2>1
  <2>3. d = c
    BY <1>6, <2>2
  <2> QED
    BY <2>1, <2>3
<1> QED
  BY <1>1, <1>2, <1>3, <1>10

\* The events of a stretch up to the end of the log that are later than id.
LEMMA LaterInStretch ==
  ASSUME NEW s \in Seq(Item), NEW from \in 1..(Len(s) + 1), NEW id \in 0..Len(s)
  PROVE  Filtered(StretchOf(s, from, Len(s)), Later(id))
           = StretchOf(s, IF id < from THEN from ELSE id + 1, Len(s))
<1>1. PICK part : part = StretchOf(s, from, Len(s))
  OBVIOUS
<1>2. PICK m : m = IF id < from THEN 0 ELSE id + 1 - from
  OBVIOUS
<1>3. PICK start : start = IF id < from THEN from ELSE id + 1
  OBVIOUS
<1>0. /\ Len(s) \in Nat /\ from \in Nat /\ from >= 1 /\ id \in Nat /\ id <= Len(s)
      /\ Len(s) \in (from - 1)..Len(s)
  OBVIOUS
<1>4. /\ part \in Seq(Event) /\ Len(part) = Len(s) + 1 - from
      /\ \A i \in 1..(Len(s) + 1 - from) :
           /\ part[i] = [id |-> from + i - 1, uri |-> s[from + i - 1]]
           /\ part[i].id = from + i - 1
  BY <1>0, <1>1, StretchIs
<1>5. m \in 0..Len(part) /\ m \in Nat /\ start = from + m /\ Len(part) - m = Len(s) + 1 - start
  <2>1. CASE id < from
    BY <1>0, <1>2, <1>3, <1>4, <2>1
  <2>2. CASE ~(id < from)
    <3>1. m = id + 1 - from /\ start = id + 1
      BY <1>2, <1>3, <2>2
    <3>2. m \in Nat /\ m <= Len(s) + 1 - from /\ start = from + m
      BY <1>0, <2>2, <3>1
    <3> QED
      BY <1>0, <1>4, <3>1, <3>2
  <2> QED
    BY <2>1, <2>2
<1>6. \A j \in 1..Len(part) : part[j] \in Later(id) <=> j > m
  <2> TAKE j \in 1..Len(part)
  <2>1. part[j] \in Event /\ part[j].id = from + j - 1
    BY <1>4
  <2>2. part[j] \in Later(id) <=> from + j - 1 > id
    BY <2>1 DEF Later
  <2> QED
    BY <1>0, <1>2, <1>4, <2>2
<1>7. Filtered(part, Later(id)) = Behind(part, m)
  BY <1>4, <1>5, <1>6, FilteredSuffix
<1>8. \A k \in 1..(Len(part) - m) :
        part[m + k] = [id |-> start + k - 1, uri |-> s[start + k - 1]]
  <2> TAKE k \in 1..(Len(part) - m)
  <2>1. m + k \in 1..(Len(s) + 1 - from) /\ from + (m + k) - 1 = start + k - 1
    BY <1>0, <1>4, <1>5
  <2> QED
    BY <1>4, <2>1
<1>9. Behind(part, m) = StretchOf(s, start, Len(s))
  <2>1. PICK n : n = Len(part) - m
    OBVIOUS
  <2>2. Behind(part, m) = [k \in 1..n |-> part[m + k]]
    BY <2>1 DEF Behind
  <2>3. StretchOf(s, start, Len(s))
          = [k \in 1..n |-> [id |-> start + k - 1, uri |-> s[start + k - 1]]]
    BY <1>5, <2>1 DEF StretchOf
  <2> QED
    BY <1>8, <2>1, <2>2, <2>3
<1> QED
  BY <1>1, <1>3, <1>7, <1>9
-----------------------------------------------------------------------------
(***************************************************************************)
(* The steps of the session.                                               *)
(***************************************************************************)
LEMMA SessionFacts ==
  ASSUME SessionTypeOK
  PROVE  /\ log \in Seq(Item) /\ Len(log) \in Nat /\ History \in Nat /\ History > 0
         /\ session \in Session /\ session.delivered \in Nat /\ session.events \in Seq(Event)
         /\ stream \in [Client -> Stream] /\ origin \in [Client -> Nat]
         /\ received \in [Client -> Seq(Event)]
         /\ Kept(log) \in Nat /\ Kept(log) <= Len(log) /\ Kept(log) <= History
         /\ Len(log) + 1 - Kept(log) \in 1..(Len(log) + 1)
<1>1. log \in Seq(Item) /\ Len(log) \in Nat /\ History \in Nat /\ History > 0
  BY McpSessionAssumption DEF SessionTypeOK, Item
<1>2. session \in Session /\ session.delivered \in Nat /\ session.events \in Seq(Event)
  BY DEF SessionTypeOK, Session
<1>3. Kept(log) \in Nat /\ Kept(log) <= Len(log) /\ Kept(log) <= History
  BY <1>1 DEF Kept
<1>4. Len(log) + 1 - Kept(log) \in 1..(Len(log) + 1)
  BY <1>1, <1>3
<1> QED
  BY <1>1, <1>2, <1>3, <1>4 DEF SessionTypeOK

\* What the history still has after an event reaches to the end of the log.
LEMMA AfterIs ==
  ASSUME SessionInv, NEW id \in Nat, id <= Len(log)
  PROVE  \E a \in 1..(Len(log) + 1) :
           NextIs(log, id, a) /\ After(id) = StretchOf(log, a, Len(log))
<1> DEFINE first == Len(log) + 1 - Kept(log)
           a == IF id < first THEN first ELSE id + 1
<1>1. /\ log \in Seq(Item) /\ Len(log) \in Nat /\ History \in Nat /\ first \in 1..(Len(log) + 1)
      /\ session.events = StretchOf(log, first, Len(log))
  BY SessionFacts DEF SessionInv, EndOf
<1>2. a \in 1..(Len(log) + 1)
  BY <1>1
<1>3. After(id) = StretchOf(log, a, Len(log))
  <2>1. id \in 0..Len(log)
    BY <1>1
  <2> HIDE DEF first
  <2> QED
    BY <1>1, <2>1, LaterInStretch DEF After
<1>4. NextIs(log, id, a)
  <2>1. CASE id < first /\ id # first - 1
    <3>1. Kept(log) # Len(log)
      BY <1>1, <2>1
    <3>2. Kept(log) = History
      BY <3>1 DEF Kept
    <3> QED
      BY <1>1, <2>1, <3>2 DEF NextIs
  <2>2. CASE id = first - 1
    BY <1>1, <2>2 DEF NextIs
  <2>3. CASE ~(id < first)
    BY <1>1, <2>3 DEF NextIs
  <2> QED
    BY <2>1, <2>2, <2>3
<1> QED
  BY <1>2, <1>3, <1>4

\* Nothing is later than the end of the log.
LEMMA AtTheEnd ==
  ASSUME SessionInv
  PROVE  After(Len(log)) = <<>>
<1>1. log \in Seq(Item) /\ Len(log) \in Nat /\ History \in Nat /\ History > 0
  BY SessionFacts DEF SessionInv
<1>2. PICK a \in 1..(Len(log) + 1) :
        NextIs(log, Len(log), a) /\ After(Len(log)) = StretchOf(log, a, Len(log))
  BY <1>1, AfterIs
<1>3. a = Len(log) + 1
  BY <1>1, <1>2 DEF NextIs
<1>4. Len(log) \in (a - 1)..Len(log) /\ Len(log) = a - 1
  BY <1>1, <1>3
<1> QED
  BY <1>1, <1>2, <1>4, StretchIs

\* Where a reader starts.
LEMMA StartIs ==
  ASSUME SessionInv, NEW c \in Client
  PROVE  /\ StartOf(c) \in Nat /\ StartOf(c) <= Len(log)
         /\ Place(c) \in Nat /\ Place(c) <= Len(log)
         /\ received[c] # <<>> => StartOf(c) = Place(c)
<1>1. /\ Len(log) \in Nat /\ session.delivered \in Nat /\ session.delivered <= Len(log)
      /\ origin[c] \in Nat /\ SentIsLogged(log, origin[c], received[c])
  BY SessionFacts DEF SessionInv
<1>2. CASE received[c] = <<>>
  <2>1. LastId(c) = 0 /\ Place(c) = origin[c]
    BY <1>2 DEF LastId, Place, PlaceOf
  <2> QED
    BY <1>1, <1>2, <2>1 DEF StartOf, SentIsLogged
<1>3. CASE received[c] # <<>>
  <2>1. /\ LastId(c) = Last(received[c]).id /\ Place(c) = LastId(c)
        /\ LastId(c) \in 1..Len(log)
    BY <1>1, <1>3 DEF LastId, Place, PlaceOf, SentIsLogged
  <2> QED
    BY <1>1, <1>3, <2>1 DEF StartOf
<1> QED
  BY <1>2, <1>3

\* The end of a batch of events that are still kept, and the mark of a drain.
LEMMA DrainedIs ==
  ASSUME SessionInv, NEW id \in Nat, id <= Len(log)
  PROVE  /\ Drained(id) \in Session /\ Drained(id).events = session.events
         /\ Drained(id).delivered <= Len(log)
         /\ After(id) \in Seq(Event)
         /\ After(id) # <<>> => Last(After(id)).id = Len(log) /\ Len(log) \in 1..Len(log)
<1>1. /\ log \in Seq(Item) /\ Len(log) \in Nat /\ session \in Session
      /\ session.delivered \in Nat /\ session.delivered <= Len(log)
  BY SessionFacts DEF SessionInv
<1>2. PICK a \in 1..(Len(log) + 1) : After(id) = StretchOf(log, a, Len(log))
  BY AfterIs
<1>3. /\ After(id) \in Seq(Event)
      /\ After(id) = <<>> <=> Len(log) = a - 1
      /\ Len(log) >= a => Last(After(id)).id = Len(log)
  <2>1. Len(log) \in (a - 1)..Len(log)
    BY <1>1
  <2> QED
    BY <1>1, <1>2, <2>1, StretchIs
<1>4. After(id) # <<>> => Last(After(id)).id = Len(log) /\ Len(log) \in 1..Len(log)
  BY <1>1, <1>3
<1> DEFINE mark == IF After(id) = <<>> THEN session.delivered ELSE Last(After(id)).id
<1>5. mark \in Nat /\ mark <= Len(log)
  BY <1>1, <1>4
<1>6. Drained(id) = [session EXCEPT !.delivered = mark]
  BY DEF Drained
<1> HIDE DEF mark
<1>7. Drained(id) \in Session /\ Drained(id).events = session.events /\ Drained(id).delivered = mark
  BY <1>1, <1>5, <1>6 DEF Session
<1> QED
  BY <1>3, <1>4, <1>5, <1>7

\* A step of the session is a step of what EventStream promises, or none.
Promised == Events!StreamNext \/ UNCHANGED <<log, origin, received>>

\* A step that sends nothing and leaves the streams consistent.
LEMMA StreamsKeep ==
  ASSUME SessionInv, session' \in Session, session'.events = session.events,
         session'.delivered = session.delivered, stream' \in [Client -> Stream],
         UNCHANGED <<log, origin, received>>,
         \A c \in Client : StreamInv(log, Place(c), stream'[c])
  PROVE  SessionInv' /\ Promised
<1>1. SessionTypeOK'
  BY DEF SessionInv, SessionTypeOK
<1>2. \A c \in Client : StreamInv(log', Place(c)', stream'[c])
  BY DEF Place
<1> QED
  BY <1>1, <1>2 DEF SessionInv, Promised

\* The session itself changes, but for its history.
LEMMA ChangeKeeps ==
  ASSUME SessionInv, NEW s \in Session, s.events = session.events, s.delivered <= Len(log),
         Change(s)
  PROVE  SessionInv' /\ Promised
<1>1. session' = s /\ UNCHANGED <<stream, log, origin, received>>
  BY DEF Change
<1>2. SessionTypeOK'
  BY <1>1 DEF SessionInv, SessionTypeOK
<1>3. \A c \in Client : StreamInv(log', Place(c)', stream'[c])
  BY <1>1 DEF SessionInv, Place
<1> QED
  BY <1>1, <1>2, <1>3 DEF SessionInv, Promised

LEMMA SessionChanges ==
  ASSUME SessionInv,
         \/ CreateSession \/ MarkSessionInitialized
         \/ \E uri \in Uri : SubscribeToResource(uri) \/ UnsubscribeFromResource(uri)
  PROVE  SessionInv' /\ Promised
<1>1. session \in Session /\ session.delivered <= Len(log)
  BY DEF SessionInv, SessionTypeOK
<1>2. PICK s : s = session
  OBVIOUS
<1> DEFINE opened == [s EXCEPT !.life = "open"]
           marked == [s EXCEPT !.initialized = TRUE]
           with(uri) == [s EXCEPT !.subscriptions = s.subscriptions \cup {uri}]
           without(uri) == [s EXCEPT !.subscriptions = s.subscriptions \ {uri}]
<1>3. s \in Session /\ opened \in Session /\ marked \in Session
  BY <1>1, <1>2 DEF Session
<1>4. opened.events = s.events /\ opened.delivered = s.delivered
      /\ marked.events = s.events /\ marked.delivered = s.delivered
  BY <1>3 DEF Session
<1>5. ASSUME NEW uri \in Uri
      PROVE  /\ with(uri) \in Session /\ without(uri) \in Session
             /\ with(uri).events = s.events /\ with(uri).delivered = s.delivered
             /\ without(uri).events = s.events /\ without(uri).delivered = s.delivered
  <2>1. s.subscriptions \cup {uri} \in SUBSET Uri /\ s.subscriptions \ {uri} \in SUBSET Uri
    BY <1>3, <1>5 DEF Session
  <2> QED
    BY <1>3, <2>1 DEF Session
<1>6. CASE CreateSession
  <2>1. Change(s) \/ Change(opened)
    BY <1>2, <1>6 DEF CreateSession
  <2> HIDE DEF opened
  <2> QED
    BY <1>1, <1>2, <1>3, <1>4, <2>1, ChangeKeeps
<1>7. CASE MarkSessionInitialized
  <2>1. Change(s) \/ Change(marked)
    BY <1>2, <1>7 DEF MarkSessionInitialized
  <2> HIDE DEF marked
  <2> QED
    BY <1>1, <1>2, <1>3, <1>4, <2>1, ChangeKeeps
<1>8. ASSUME NEW uri \in Uri, SubscribeToResource(uri) PROVE SessionInv' /\ Promised
  <2>1. Change(s) \/ Change(with(uri))
    BY <1>2, <1>8 DEF SubscribeToResource
  <2> HIDE DEF with
  <2> QED
    BY <1>1, <1>2, <1>3, <1>5, <2>1, ChangeKeeps
<1>9. ASSUME NEW uri \in Uri, UnsubscribeFromResource(uri) PROVE SessionInv' /\ Promised
  <2>1. Change(s) \/ Change(without(uri))
    BY <1>2, <1>9 DEF UnsubscribeFromResource
  <2> HIDE DEF without
  <2> QED
    BY <1>1, <1>2, <1>3, <1>5, <2>1, ChangeKeeps
<1> QED
  BY <1>6, <1>7, <1>8, <1>9

LEMMA ClosedIs == Closed \in Stream /\ \A s, place : StreamInv(s, place, Closed)
<1>1. Closed \in Stream
  BY DEF Closed, Stream
<1>2. Closed.phase = "closed"
  BY DEF Closed
<1> QED
  BY <1>1, <1>2 DEF StreamInv

\* A session that ends lets its streams write what they have read, an eviction does not.
LEMMA SessionEnds ==
  ASSUME SessionInv, TerminateSession \/ IsolateEvicted
  PROVE  SessionInv' /\ Promised
<1>1. /\ session \in Session /\ stream \in [Client -> Stream]
      /\ \A c \in Client : StreamInv(log, Place(c), stream[c])
  BY DEF SessionInv, SessionTypeOK
<1>2. /\ session' \in Session /\ session'.events = session.events
      /\ session'.delivered = session.delivered /\ UNCHANGED <<log, origin, received>>
  <2>1. CASE TerminateSession
    BY <1>1, <2>1 DEF TerminateSession, Session
  <2>2. CASE IsolateEvicted
    <3>1. session' = session \/ session' = [session EXCEPT !.life = "ended"]
      <4>1. CASE IsOpen
        BY <2>2, <4>1 DEF IsolateEvicted
      <4>2. CASE ~IsOpen
        BY <1>1, <2>2, <4>2 DEF IsolateEvicted, Session
      <4> QED
        BY <4>1, <4>2
    <3> QED
      BY <1>1, <2>2, <3>1 DEF IsolateEvicted, Session
  <2> QED
    BY <2>1, <2>2
<1>3. ASSUME NEW c \in Client
      PROVE  /\ CloseFollower(stream[c]) \in Stream
             /\ StreamInv(log, Place(c), CloseFollower(stream[c]))
  <2>1. PICK f \in Stream : f = stream[c]
    BY <1>1
  <2>2. CASE f.phase \in {"write", "last"}
    <3>1. PICK g : g = [f EXCEPT !.phase = "last"]
      OBVIOUS
    <3>2. g \in Stream /\ g.phase = "last" /\ g.cursor = f.cursor /\ g.batch = f.batch
      BY <3>1 DEF Stream
    <3>3. InHand(log, Place(c), f)
      BY <1>1, <2>1, <2>2 DEF StreamInv
    <3>4. StreamInv(log, Place(c), g)
      BY <3>2, <3>3 DEF StreamInv, InHand
    <3> QED
      BY <2>1, <2>2, <3>1, <3>2, <3>4 DEF CloseFollower
  <2>3. CASE f.phase \notin {"write", "last"}
    BY <2>1, <2>3, ClosedIs DEF CloseFollower
  <2> QED
    BY <2>2, <2>3
<1>4. stream' \in [Client -> Stream] /\ \A c \in Client : StreamInv(log, Place(c), stream'[c])
  <2>1. CASE TerminateSession
    BY <1>3, <2>1 DEF TerminateSession
  <2>2. CASE IsolateEvicted
    BY <2>2, ClosedIs DEF IsolateEvicted
  <2> QED
    BY <2>1, <2>2
<1> QED
  BY <1>2, <1>4, StreamsKeep

\* A stream is read, or its client goes away.
LEMMA ReadBatchKeeps ==
  ASSUME SessionInv, NEW c \in Client, ReadBatch(c)
  PROVE  SessionInv' /\ Promised
<1>1. /\ log \in Seq(Item) /\ Len(log) \in Nat /\ History \in Nat /\ History > 0
      /\ session \in Session /\ stream \in [Client -> Stream]
      /\ \A d \in Client : StreamInv(log, Place(d), stream[d])
  BY SessionFacts DEF SessionInv
<1>2. PICK f \in Stream : f = stream[c]
  BY <1>1
<1>3. /\ f.phase = "read" /\ stream' = [stream EXCEPT ![c] = Flushed(f)]
      /\ UNCHANGED <<session, log, origin, received>>
  BY <1>2 DEF ReadBatch
<1>4. PICK place : place = Place(c)
  OBVIOUS
<1>5. place \in Nat /\ place <= Len(log)
  BY <1>4, StartIs
<1>6. f.cursor = place
  BY <1>1, <1>2, <1>3, <1>4 DEF StreamInv
<1>7. PICK a \in 1..(Len(log) + 1) : NextIs(log, place, a) /\ f.queue = StretchOf(log, a, Len(log))
  BY <1>1, <1>2, <1>3, <1>4 DEF StreamInv
<1>8. /\ f.queue \in Seq(Event) /\ Len(log) \in (a - 1)..Len(log)
      /\ f.queue = <<>> <=> Len(log) = a - 1
      /\ Len(log) >= a => Last(f.queue).id = Len(log)
  <2>1. Len(log) \in (a - 1)..Len(log)
    BY <1>1
  <2> QED
    BY <1>1, <1>7, <2>1, StretchIs
<1>9. Flushed(f) \in Stream /\ StreamInv(log, place, Flushed(f))
  <2>1. CASE f.queue = <<>>
    <3>1. PICK g : g = [f EXCEPT !.phase = "wait"]
      OBVIOUS
    <3>2. g \in Stream /\ g.phase = "wait" /\ g.cursor = f.cursor /\ g.queue = f.queue
      BY <3>1 DEF Stream
    <3>3. place = Len(log)
      BY <1>1, <1>5, <1>7, <1>8, <2>1 DEF NextIs
    <3>4. StreamInv(log, place, g)
      BY <1>6, <2>1, <3>2, <3>3 DEF StreamInv
    <3> QED
      BY <2>1, <3>1, <3>2, <3>4 DEF Flushed
  <2>2. CASE f.queue # <<>>
    <3>1. PICK g : g = [phase |-> "write", cursor |-> Last(f.queue).id, queue |-> <<>>,
                        batch |-> f.queue]
      OBVIOUS
    <3>2. a <= Len(log) /\ Last(f.queue).id = Len(log)
      BY <1>1, <1>8, <2>2
    <3>3. g \in Stream /\ g.phase = "write" /\ g.cursor = Len(log) /\ g.queue = <<>>
          /\ g.batch = f.queue
      BY <1>1, <1>8, <3>1, <3>2 DEF Stream
    <3>4. StretchOf(log, Len(log) + 1, Len(log)) = <<>>
      BY <1>1, NothingLeft
    <3>5. InHand(log, place, g)
      <4>1. a \in 1..Len(log) /\ g.batch = StretchOf(log, a, g.cursor) /\ g.cursor <= Len(log)
            /\ a <= g.cursor
        BY <1>1, <1>7, <3>2, <3>3
      <4> QED
        BY <1>7, <4>1 DEF InHand
    <3>6. StreamInv(log, place, g)
      BY <3>3, <3>4, <3>5 DEF StreamInv
    <3> QED
      BY <2>2, <3>1, <3>3, <3>6 DEF Flushed
  <2> QED
    BY <2>1, <2>2
<1>10. stream' \in [Client -> Stream] /\ \A d \in Client : StreamInv(log, Place(d), stream'[d])
  BY <1>1, <1>3, <1>4, <1>9
<1> QED
  BY <1>1, <1>3, <1>10, StreamsKeep

LEMMA CloseStreamKeeps ==
  ASSUME SessionInv, NEW c \in Client, CloseStream(c)
  PROVE  SessionInv' /\ Promised
<1>1. /\ session \in Session /\ stream \in [Client -> Stream]
      /\ \A d \in Client : StreamInv(log, Place(d), stream[d])
  BY DEF SessionInv, SessionTypeOK
<1>2. stream' = [stream EXCEPT ![c] = Closed] /\ UNCHANGED <<session, log, origin, received>>
  BY DEF CloseStream
<1>3. stream' \in [Client -> Stream] /\ \A d \in Client : StreamInv(log, Place(d), stream'[d])
  BY <1>1, <1>2, ClosedIs
<1> QED
  BY <1>1, <1>2, <1>3, StreamsKeep
-----------------------------------------------------------------------------
\* What a client was sent ends with what it is sent now.
LEMMA SentLast ==
  ASSUME NEW r \in Seq(Event), NEW e \in Seq(Event), e # <<>>
  PROVE  r \o e \in Seq(Event) /\ r \o e # <<>> /\ Last(r \o e) = Last(e)
<1>1. Len(r) \in Nat /\ Len(e) \in Nat /\ Len(e) > 0
  OBVIOUS
<1>2. /\ r \o e \in Seq(Event) /\ Len(r \o e) = Len(r) + Len(e)
      /\ \A i \in 1..(Len(r) + Len(e)) : (r \o e)[i] = IF i <= Len(r) THEN r[i] ELSE e[i - Len(r)]
  BY ConcatProperties
<1>3. (r \o e)[Len(r) + Len(e)] = e[Len(e)]
  BY <1>1, <1>2
<1>4. r \o e # <<>>
  BY <1>1, <1>2
<1> QED
  BY <1>2, <1>3, <1>4 DEF Last

\* A client that is to have read up to o is sent the stretch of the log that is next,
\* or nothing.
LEMMA SentKeeps ==
  ASSUME SessionInv, NEW c \in Client, NEW o \in 0..Len(log),
         o = origin[c] \/ received[c] = <<>>,
         NEW a \in 1..(Len(log) + 1), NEW b \in (a - 1)..Len(log),
         NextIs(log, PlaceOf(o, received[c]), a),
         received' = [received EXCEPT ![c] = received[c] \o StretchOf(log, a, b)],
         origin' = [origin EXCEPT ![c] = o], log' = log,
         session' \in Session, session'.events = session.events, session'.delivered <= Len(log),
         stream' \in [Client -> Stream], \A d \in Client : d # c => stream'[d] = stream[d],
         StreamInv(log, PlaceOf(o, received[c] \o StretchOf(log, a, b)), stream'[c])
  PROVE  SessionInv' /\ Promised
<1>1. /\ log \in Seq(Item) /\ Len(log) \in Nat /\ origin \in [Client -> Nat]
      /\ received \in [Client -> Seq(Event)] /\ received[c] \in Seq(Event)
      /\ \A d \in Client : SentIsLogged(log, origin[d], received[d])
      /\ \A d \in Client : StreamInv(log, Place(d), stream[d])
  BY SessionFacts DEF SessionInv
<1>2. PICK part : part = StretchOf(log, a, b)
  OBVIOUS
<1>3. /\ part \in Seq(Event)
      /\ part = <<>> <=> b = a - 1
      /\ b >= a => Last(part).id = b
  BY <1>1, <1>2, StretchIs
<1>4. PICK sent : sent = received[c] \o part
  OBVIOUS
<1>5. /\ sent \in Seq(Event)
      /\ part = <<>> => sent = received[c]
      /\ part # <<>> => sent # <<>> /\ Last(sent).id = b /\ b \in 1..Len(log)
  <2>1. CASE part = <<>>
    BY <1>1, <1>4, <2>1
  <2>2. CASE part # <<>>
    <3>1. Last(part).id = b /\ b \in 1..Len(log)
      BY <1>1, <1>3, <2>2
    <3>2. sent \in Seq(Event) /\ sent # <<>> /\ Last(sent) = Last(part)
      BY <1>1, <1>3, <1>4, <2>2, SentLast
    <3> QED
      BY <2>2, <3>1, <3>2
  <2> QED
    BY <2>1, <2>2
<1>6. /\ received' = [received EXCEPT ![c] = sent]
      /\ StreamInv(log, PlaceOf(o, sent), stream'[c])
  BY <1>2, <1>4
<1>7. /\ \A d \in Client : received'[d] = IF d = c THEN sent ELSE received[d]
      /\ \A d \in Client : origin'[d] = IF d = c THEN o ELSE origin[d]
      /\ received' \in [Client -> Seq(Event)] /\ origin' \in [Client -> Nat]
  <2>1. o \in Nat /\ sent \in Seq(Event)
    BY <1>1, <1>5
  <2> QED
    BY <1>1, <1>6, <2>1
<1>8. SentIsLogged(log, o, sent)
  BY <1>1, <1>5 DEF SentIsLogged
<1>9. \A d \in Client : SentIsLogged(log, origin'[d], received'[d])
  BY <1>1, <1>7, <1>8
<1>10. \A d \in Client : StreamInv(log, PlaceOf(origin'[d], received'[d]), stream'[d])
  BY <1>1, <1>6, <1>7 DEF Place
<1>11. SessionTypeOK'
  BY <1>7 DEF SessionInv, SessionTypeOK
<1>12. SessionInv'
  <2>1. \A d \in Client : StreamInv(log', Place(d)', stream'[d])
    BY <1>10 DEF Place
  <2> QED
    BY <1>9, <1>11, <2>1 DEF SessionInv
<1>13. Events!Send(c, o) \/ UNCHANGED received
  <2>1. CASE part = <<>>
    BY <1>1, <1>5, <1>6, <2>1
  <2>2. CASE part # <<>>
    <3>1. a \in 1..Len(log) /\ b \in 1..Len(log)
      BY <1>1, <1>3, <2>2
    <3>2. Events!Position(c, o) = PlaceOf(o, received[c])
      BY DEF Events!Position, PlaceOf, Last
    <3>3. Events!Stretch(a, b) = part
      BY <1>2 DEF Events!Stretch, StretchOf
    <3>4. received' = [received EXCEPT ![c] = @ \o Events!Stretch(a, b)]
      BY <1>4, <1>6, <3>3
    <3> QED
      BY <3>1, <3>2, <3>4 DEF Events!Send, NextIs
  <2> QED
    BY <2>1, <2>2
<1>14. Events!Read(c)
  BY <1>13 DEF Events!Read
<1> QED
  BY <1>12, <1>14 DEF Promised, Events!StreamNext

\* A drain answers with what comes after the place of its reader.
LEMMA DrainKeeps ==
  ASSUME SessionInv, NEW c \in Client, NEW sent \in BOOLEAN, DrainSessionEvents(c, sent)
  PROVE  SessionInv' /\ Promised
<1>1. PICK start : start = StartOf(c)
  OBVIOUS
<1>2. /\ session \in Session /\ stream \in [Client -> Stream] /\ log \in Seq(Item)
      /\ Len(log) \in Nat /\ received[c] \in Seq(Event) /\ origin[c] \in Nat
  BY SessionFacts DEF SessionInv
<1>3. start \in Nat /\ start <= Len(log) /\ (received[c] # <<>> => start = Place(c))
  BY <1>1, StartIs
<1>4. /\ stream[c].phase = "closed" /\ session' = Drained(start) /\ UNCHANGED <<stream, log>>
      /\ IF sent THEN /\ received' = [received EXCEPT ![c] = @ \o After(start)]
                      /\ BeginAt(c, start)
                 ELSE UNCHANGED <<received, origin>>
  BY <1>1 DEF DrainSessionEvents
<1>5. Drained(start) \in Session /\ Drained(start).events = session.events
      /\ Drained(start).delivered <= Len(log)
  BY <1>3, DrainedIs
<1>6. CASE ~sent
  <2>1. Change(Drained(start))
    BY <1>4, <1>6 DEF Change
  <2> QED
    BY <1>5, <2>1, ChangeKeeps
<1>7. CASE sent
  <2>1. PICK o : o = IF received[c] = <<>> THEN start ELSE origin[c]
    OBVIOUS
  <2>2. /\ o \in 0..Len(log)
        /\ o = origin[c] \/ received[c] = <<>>
        /\ PlaceOf(o, received[c]) = start
    <3>1. CASE received[c] = <<>>
      BY <1>2, <1>3, <2>1, <3>1 DEF PlaceOf
    <3>2. CASE received[c] # <<>>
      <4>1. o = origin[c] /\ origin[c] <= Len(log)
        BY <2>1, <3>2 DEF SessionInv, SentIsLogged
      <4> QED
        BY <1>2, <1>3, <3>2, <4>1 DEF Place, PlaceOf
    <3> QED
      BY <3>1, <3>2
  <2>3. PICK a \in 1..(Len(log) + 1) :
          NextIs(log, start, a) /\ After(start) = StretchOf(log, a, Len(log))
    BY <1>3, AfterIs
  <2>4. PICK b : b = Len(log)
    OBVIOUS
  <2>5. b \in (a - 1)..Len(log) /\ After(start) = StretchOf(log, a, b)
    BY <1>2, <2>3, <2>4
  <2>6. received' = [received EXCEPT ![c] = received[c] \o StretchOf(log, a, b)]
    BY <1>4, <1>7, <2>5
  <2>7. origin' = [origin EXCEPT ![c] = o]
    BY <1>4, <1>7, <2>1 DEF BeginAt
  <2>8. /\ stream' \in [Client -> Stream] /\ \A d \in Client : stream'[d] = stream[d]
        /\ StreamInv(log, PlaceOf(o, received[c] \o StretchOf(log, a, b)), stream'[c])
    BY <1>2, <1>4 DEF StreamInv
  <2>9. NextIs(log, PlaceOf(o, received[c]), a)
    BY <2>2, <2>3
  <2> HIDE DEF SessionInv
  <2> QED
    BY <1>4, <1>5, <2>2, <2>5, <2>6, <2>7, <2>8, <2>9, SentKeeps
<1> QED
  BY <1>6, <1>7

LEMMA DrainOtherKeeps ==
  ASSUME SessionInv, DrainOther
  PROVE  SessionInv' /\ Promised
<1>1. session.delivered \in Nat /\ session.delivered <= Len(log)
  BY SessionFacts DEF SessionInv
<1>2. Change(Drained(session.delivered))
  BY DEF DrainOther
<1> QED
  BY <1>1, <1>2, DrainedIs, ChangeKeeps

\* A stream starts with what comes after the place of its reader in its queue.
LEMMA FollowKeeps ==
  ASSUME SessionInv, NEW c \in Client, FollowSessionEvents(c)
  PROVE  SessionInv' /\ Promised
<1>1. PICK start : start = StartOf(c)
  OBVIOUS
<1>2. /\ session \in Session /\ stream \in [Client -> Stream] /\ log \in Seq(Item)
      /\ Len(log) \in Nat /\ received[c] \in Seq(Event) /\ origin[c] \in Nat
      /\ received \in [Client -> Seq(Event)] /\ session.delivered <= Len(log)
  BY SessionFacts DEF SessionInv
<1>3. start \in Nat /\ start <= Len(log) /\ (received[c] # <<>> => start = Place(c))
  BY <1>1, StartIs
<1>4. PICK f : f = [Closed EXCEPT !.phase = "read", !.cursor = start, !.queue = After(start)]
  OBVIOUS
<1>5. /\ stream' = [stream EXCEPT ![c] = f] /\ BeginAt(c, start)
      /\ UNCHANGED <<session, log, received>>
  BY <1>1, <1>4 DEF FollowSessionEvents
<1>6. PICK o : o = IF received[c] = <<>> THEN start ELSE origin[c]
  OBVIOUS
<1>7. /\ o \in 0..Len(log)
      /\ o = origin[c] \/ received[c] = <<>>
      /\ PlaceOf(o, received[c]) = start
  <2>1. CASE received[c] = <<>>
    BY <1>2, <1>3, <1>6, <2>1 DEF PlaceOf
  <2>2. CASE received[c] # <<>>
    <3>1. o = origin[c] /\ origin[c] <= Len(log)
      BY <1>6, <2>2 DEF SessionInv, SentIsLogged
    <3> QED
      BY <1>2, <1>3, <2>2, <3>1 DEF Place, PlaceOf
  <2> QED
    BY <2>1, <2>2
<1>8. PICK a \in 1..(Len(log) + 1) :
        NextIs(log, start, a) /\ After(start) = StretchOf(log, a, Len(log))
  BY <1>3, AfterIs
<1>9. After(start) \in Seq(Event)
  BY <1>3, DrainedIs
<1>10. f \in Stream /\ f.phase = "read" /\ f.cursor = start /\ f.queue = After(start)
  <2>1. f = [phase |-> "read", cursor |-> start, queue |-> After(start), batch |-> <<>>]
    BY <1>4 DEF Closed
  <2>2. <<>> \in Seq(Event)
    OBVIOUS
  <2> QED
    BY <1>3, <1>9, <2>1, <2>2 DEF Stream
<1>11. StreamInv(log, start, f)
  BY <1>8, <1>10 DEF StreamInv
<1>12. PICK b : b = a - 1
  OBVIOUS
<1>13. b \in (a - 1)..Len(log) /\ StretchOf(log, a, b) = <<>>
  <2>1. b \in (a - 1)..Len(log)
    BY <1>2, <1>12
  <2> QED
    BY <1>2, <1>12, <2>1, StretchIs
<1>14. received[c] \o StretchOf(log, a, b) = received[c]
  BY <1>2, <1>13
<1>15. received' = [received EXCEPT ![c] = received[c] \o StretchOf(log, a, b)]
  BY <1>2, <1>5, <1>14
<1>16. origin' = [origin EXCEPT ![c] = o]
  BY <1>5, <1>6 DEF BeginAt
<1>17. /\ stream' \in [Client -> Stream] /\ \A d \in Client : d # c => stream'[d] = stream[d]
       /\ StreamInv(log, PlaceOf(o, received[c] \o StretchOf(log, a, b)), stream'[c])
  BY <1>2, <1>5, <1>7, <1>10, <1>11, <1>14
<1>18. NextIs(log, PlaceOf(o, received[c]), a)
  BY <1>7, <1>8
<1> QED
  BY <1>2, <1>5, <1>7, <1>13, <1>15, <1>16, <1>17, <1>18, SentKeeps

\* A batch that is written brings its reader to the cursor.
LEMMA WriteBatchKeeps ==
  ASSUME SessionInv, NEW c \in Client, WriteBatch(c)
  PROVE  SessionInv' /\ Promised
<1>1. /\ session \in Session /\ stream \in [Client -> Stream] /\ log \in Seq(Item)
      /\ Len(log) \in Nat /\ received[c] \in Seq(Event) /\ origin \in [Client -> Nat]
      /\ session.delivered <= Len(log) /\ origin[c] \in Nat /\ origin[c] <= Len(log)
  BY SessionFacts DEF SessionInv, SentIsLogged
<1>2. PICK f \in Stream : f = stream[c]
  BY <1>1
<1>3. PICK g : g = IF f.phase = "last" THEN Closed ELSE [f EXCEPT !.phase = "read", !.batch = <<>>]
  OBVIOUS
<1>4. /\ f.phase \in {"write", "last"} /\ received' = [received EXCEPT ![c] = @ \o f.batch]
      /\ stream' = [stream EXCEPT ![c] = g] /\ UNCHANGED <<session, log, origin>>
  BY <1>2, <1>3 DEF WriteBatch
<1>5. StreamInv(log, Place(c), f)
  BY <1>2 DEF SessionInv
<1>6. PICK a \in 1..Len(log) :
        /\ NextIs(log, Place(c), a) /\ a <= f.cursor /\ f.cursor <= Len(log)
        /\ f.batch = StretchOf(log, a, f.cursor)
  BY <1>4, <1>5 DEF StreamInv, InHand
<1>7. PICK b : b = f.cursor
  OBVIOUS
<1>8. /\ a \in 1..(Len(log) + 1) /\ b \in (a - 1)..Len(log) /\ b \in Nat /\ b <= Len(log) /\ b >= a
      /\ f.batch = StretchOf(log, a, b)
  BY <1>1, <1>2, <1>6, <1>7 DEF Stream
<1>9. f.batch \in Seq(Event) /\ f.batch # <<>> /\ Last(f.batch).id = b
  <2>1. ~(b = a - 1)
    BY <1>8
  <2> QED
    BY <1>1, <1>8, <2>1, StretchIs
<1>10. PlaceOf(origin[c], received[c] \o f.batch) = b
  BY <1>1, <1>9, SentLast DEF PlaceOf
<1>11. g \in Stream /\ StreamInv(log, b, g)
  <2>1. CASE f.phase = "last"
    BY <1>3, <2>1, ClosedIs
  <2>2. CASE f.phase = "write"
    <3>1. g \in Stream /\ g.phase = "read" /\ g.cursor = b /\ g.queue = f.queue
      <4>1. g = [f EXCEPT !.phase = "read", !.batch = <<>>]
        BY <1>3, <2>2
      <4>2. <<>> \in Seq(Event)
        OBVIOUS
      <4>3. g = [phase |-> "read", cursor |-> f.cursor, queue |-> f.queue, batch |-> <<>>]
        BY <4>1 DEF Stream
      <4>4. f.cursor \in Nat /\ f.queue \in Seq(Event)
        BY DEF Stream
      <4> QED
        BY <1>7, <4>2, <4>3, <4>4 DEF Stream
    <3>2. f.queue = StretchOf(log, b + 1, Len(log))
      BY <1>5, <1>7, <2>2 DEF StreamInv
    <3>3. b + 1 \in 1..(Len(log) + 1) /\ NextIs(log, b, b + 1)
      BY <1>1, <1>8 DEF NextIs
    <3> QED
      BY <3>1, <3>2, <3>3 DEF StreamInv
  <2> QED
    BY <1>4, <2>1, <2>2
<1>12. received' = [received EXCEPT ![c] = received[c] \o StretchOf(log, a, b)]
  BY <1>4, <1>8
<1>13. origin' = [origin EXCEPT ![c] = origin[c]] /\ origin[c] \in 0..Len(log)
  BY <1>1, <1>4
<1>14. /\ stream' \in [Client -> Stream] /\ \A d \in Client : d # c => stream'[d] = stream[d]
       /\ StreamInv(log, PlaceOf(origin[c], received[c] \o StretchOf(log, a, b)), stream'[c])
  BY <1>1, <1>4, <1>8, <1>10, <1>11
<1>15. NextIs(log, PlaceOf(origin[c], received[c]), a)
  BY <1>6 DEF Place
<1> QED
  BY <1>1, <1>4, <1>8, <1>12, <1>13, <1>14, <1>15, SentKeeps
-----------------------------------------------------------------------------
(***************************************************************************)
(* What a notification adds.                                               *)
(***************************************************************************)
\* The end of a stretch is a stretch.
LEMMA SubStretch ==
  ASSUME NEW s \in Seq(Item), NEW from \in 1..(Len(s) + 1), NEW k \in 1..(Len(s) + 2 - from),
         NEW part, part = StretchOf(s, from, Len(s))
  PROVE  SubSeq(part, k, Len(part)) = StretchOf(s, from + k - 1, Len(s))
<1>0. /\ Len(s) \in Nat /\ from \in Nat /\ from >= 1 /\ k \in Nat /\ k >= 1
      /\ Len(s) \in (from - 1)..Len(s) /\ k <= Len(s) + 2 - from
  OBVIOUS
<1>1. /\ part \in Seq(Event) /\ Len(part) = Len(s) + 1 - from
      /\ \A i \in 1..(Len(s) + 1 - from) :
           part[i] = [id |-> from + i - 1, uri |-> s[from + i - 1]]
  BY <1>0, StretchIs
<1>2. PICK start : start = from + k - 1
  OBVIOUS
<1>3. start \in 1..(Len(s) + 1) /\ Len(s) \in (start - 1)..Len(s)
      /\ Len(s) + 1 - start = Len(part) - k + 1
  BY <1>0, <1>1, <1>2
<1>4. PICK rest : rest = StretchOf(s, start, Len(s))
  OBVIOUS
<1>5. /\ rest \in Seq(Event) /\ Len(rest) = Len(s) + 1 - start
      /\ \A i \in 1..(Len(s) + 1 - start) :
           rest[i] = [id |-> start + i - 1, uri |-> s[start + i - 1]]
  BY <1>3, <1>4, StretchIs
<1>6. PICK tail : tail = SubSeq(part, k, Len(part))
  OBVIOUS
<1>7. /\ tail \in Seq(Event) /\ Len(tail) = Len(part) - k + 1
      /\ \A i \in 1..(Len(part) - k + 1) : tail[i] = part[k + i - 1]
  <2>1. k \in 1..(Len(part) + 1) /\ Len(part) \in (k - 1)..Len(part)
    BY <1>0, <1>1
  <2> QED
    BY <1>1, <1>6, <2>1, SubSeqProperties
<1>8. \A i \in 1..Len(rest) : tail[i] = rest[i]
  <2> TAKE i \in 1..Len(rest)
  <2>1. i \in 1..(Len(part) - k + 1) /\ i \in 1..(Len(s) + 1 - start)
    BY <1>3, <1>5
  <2>2. k + i - 1 \in 1..(Len(s) + 1 - from) /\ from + (k + i - 1) - 1 = start + i - 1
    BY <1>0, <1>1, <1>2, <2>1
  <2>3. part[k + i - 1] = [id |-> start + i - 1, uri |-> s[start + i - 1]]
    BY <1>1, <2>2
  <2> QED
    BY <1>5, <1>7, <2>1, <2>3
<1>9. tail = rest
  <2>1. Len(tail) = Len(rest)
    BY <1>3, <1>5, <1>7
  <2>2. tail \in Seq(Event) /\ rest \in Seq(Event)
    BY <1>5, <1>7
  <2> QED
    BY <1>8, <2>1, <2>2
<1> QED
  BY <1>2, <1>4, <1>6, <1>9

\* A stretch is its first event and the rest.
LEMMA StretchSplit ==
  ASSUME NEW s \in Seq(Item), NEW from \in 1..Len(s), NEW part, part = StretchOf(s, from, Len(s))
  PROVE  /\ part \in Seq(Event) /\ part # <<>>
         /\ Head(part) \in Event /\ Head(part).id = from /\ <<Head(part)>> = StretchOf(s, from, from)
         /\ Tail(part) \in Seq(Event) /\ Tail(part) = StretchOf(s, from + 1, Len(s))
<1>0. /\ Len(s) \in Nat /\ from \in Nat /\ from >= 1 /\ from <= Len(s)
      /\ from \in 1..(Len(s) + 1) /\ Len(s) \in (from - 1)..Len(s) /\ from \in (from - 1)..Len(s)
  OBVIOUS
<1>1. /\ part \in Seq(Event) /\ Len(part) = Len(s) + 1 - from
      /\ \A i \in 1..(Len(s) + 1 - from) :
           part[i] = [id |-> from + i - 1, uri |-> s[from + i - 1]]
      /\ Head(part).id = from
  BY <1>0, StretchIs
<1>2. part # <<>> /\ 1 \in 1..(Len(s) + 1 - from)
  BY <1>0, <1>1
<1>3. Head(part) = part[1] /\ Head(part) \in Event
  BY <1>1, <1>2
<1>4. part[1] = [id |-> from, uri |-> s[from]]
  <2>1. part[1] = [id |-> from + 1 - 1, uri |-> s[from + 1 - 1]] /\ from + 1 - 1 = from
    BY <1>0, <1>1, <1>2
  <2> QED
    BY <2>1
<1>5. <<Head(part)>> = StretchOf(s, from, from)
  <2>1. PICK one : one = StretchOf(s, from, from)
    OBVIOUS
  <2>2. one \in Seq(Event) /\ Len(one) = 1
    <3>1. from + 1 - from = 1
      BY <1>0
    <3> QED
      BY <1>0, <2>1, <3>1, StretchIs
  <2>3. one[1] = [id |-> from, uri |-> s[from]]
    <3>1. 1 \in 1..(from + 1 - from) /\ from + 1 - 1 = from
      BY <1>0
    <3>2. one[1] = [id |-> from + 1 - 1, uri |-> s[from + 1 - 1]]
      BY <1>0, <2>1, <3>1, StretchIs
    <3> QED
      BY <3>1, <3>2
  <2>4. one = <<one[1]>>
    BY <2>2
  <2> QED
    BY <1>3, <1>4, <2>1, <2>3, <2>4
<1>6. Tail(part) \in Seq(Event) /\ Tail(part) = SubSeq(part, 2, Len(part))
  BY <1>1, <1>2, HeadTailProperties, TailIsSubSeq
<1>7. SubSeq(part, 2, Len(part)) = StretchOf(s, from + 1, Len(s))
  <2>1. 2 \in 1..(Len(s) + 2 - from) /\ from + 2 - 1 = from + 1
    BY <1>0
  <2>2. SubSeq(part, 2, Len(part)) = StretchOf(s, from + 2 - 1, Len(s))
    BY <1>0, <2>1, SubStretch
  <2> QED
    BY <2>1, <2>2
<1> QED
  BY <1>1, <1>2, <1>3, <1>5, <1>6, <1>7

\* The history is trimmed to the end of the longer log.
LEMMA HistoryGrows ==
  ASSUME NEW s \in Seq(Item), NEW w \in Seq(Item), NEW t, t = s \o w
  PROVE  /\ Trimmed(EndOf(s) \o StretchOf(t, Len(s) + 1, Len(t))) = EndOf(t)
         /\ EndOf(t) \in Seq(Event) /\ Len(EndOf(t)) <= History
<1>1. t \in Seq(Item) /\ Len(t) = Len(s) + Len(w) /\ Len(s) \in Nat /\ Len(w) \in Nat
      /\ Len(t) \in Nat /\ History \in Nat /\ History > 0
  BY ConcatProperties, McpSessionAssumption
<1>2. PICK first : first = Len(s) + 1 - Kept(s)
  OBVIOUS
<1>3. PICK last : last = Len(t) + 1 - Kept(t)
  OBVIOUS
<1>0. /\ Kept(s) \in Nat /\ Kept(s) <= Len(s) /\ Kept(t) \in Nat /\ Kept(t) <= Len(t)
      /\ Kept(t) <= History
      /\ Len(s) > History => Kept(s) = History
      /\ Len(s) <= History => Kept(s) = Len(s)
      /\ Len(t) > History => Kept(t) = History
      /\ Len(t) <= History => Kept(t) = Len(t)
  BY <1>1 DEF Kept
<1>4. first \in 1..(Len(s) + 1) /\ last \in 1..(Len(t) + 1) /\ first \in 1..(Len(t) + 1)
  BY <1>0, <1>1, <1>2, <1>3
<1>5. EndOf(s) = StretchOf(t, first, Len(s))
  BY <1>1, <1>2, <1>4, StretchOfPrefix DEF EndOf
<1>6. PICK part : part = StretchOf(t, first, Len(t))
  OBVIOUS
<1>7. EndOf(s) \o StretchOf(t, Len(s) + 1, Len(t)) = part
  <2>1. Len(s) \in (first - 1)..Len(t) /\ Len(t) \in Len(s)..Len(t)
    BY <1>1, <1>4
  <2> QED
    BY <1>1, <1>4, <1>5, <1>6, <2>1, StretchesJoin
<1>8. Len(part) = Len(t) + 1 - first
  <2>1. Len(t) \in (first - 1)..Len(t)
    BY <1>1, <1>4
  <2> QED
    BY <1>1, <1>4, <1>6, <2>1, StretchIs
<1>9. EndOf(t) = StretchOf(t, last, Len(t))
  BY <1>3 DEF EndOf
<1>10. Trimmed(part) = StretchOf(t, last, Len(t))
  <2>1. CASE Len(part) <= History
    <3>1. first = last
      <4>1. CASE Len(s) <= History
        <5>1. first = 1
          BY <1>0, <1>1, <1>2, <4>1
        <5>2. Len(t) <= History
          BY <1>1, <1>8, <2>1, <5>1
        <5> QED
          BY <1>0, <1>1, <1>3, <5>1, <5>2
      <4>2. CASE Len(s) > History
        <5>1. first = Len(s) + 1 - History
          BY <1>0, <1>2, <4>2
        <5>2. Len(t) = Len(s)
          BY <1>1, <1>8, <2>1, <5>1
        <5>3. Kept(t) = Kept(s)
          BY <5>2 DEF Kept
        <5> QED
          BY <1>2, <1>3, <5>2, <5>3
      <4> QED
        BY <1>1, <4>1, <4>2
    <3> QED
      BY <1>6, <2>1, <3>1 DEF Trimmed
  <2>2. CASE ~(Len(part) <= History)
    <3>1. PICK k : k = Len(part) - History + 1
      OBVIOUS
    <3>2. Kept(t) = History
      BY <1>0, <1>1, <1>4, <1>8, <2>2
    <3>3. k \in 1..(Len(t) + 2 - first) /\ first + k - 1 = last
      BY <1>1, <1>3, <1>4, <1>8, <2>2, <3>1, <3>2
    <3>4. SubSeq(part, k, Len(part)) = StretchOf(t, last, Len(t))
      BY <1>1, <1>4, <1>6, <3>3, SubStretch
    <3> QED
      BY <2>2, <3>1, <3>4 DEF Trimmed
  <2> QED
    BY <2>1, <2>2
<1>11. StretchOf(t, last, Len(t)) \in Seq(Event) /\ Len(StretchOf(t, last, Len(t))) <= History
  <2>1. Len(t) \in (last - 1)..Len(t) /\ Len(t) + 1 - last <= History
    BY <1>0, <1>1, <1>3, <1>4
  <2> QED
    BY <1>1, <1>4, <2>1, StretchIs
<1> QED
  BY <1>7, <1>9, <1>10, <1>11

\* The new events are the stretch that the log grows by.
LEMMA FreshIs ==
  ASSUME NEW s \in Seq(Item), NEW w \in Seq(Item), NEW t, t = s \o w
  PROVE  [i \in DOMAIN w |-> [id |-> Len(s) + i, uri |-> w[i]]] = StretchOf(t, Len(s) + 1, Len(t))
<1>1. /\ t \in Seq(Item) /\ Len(t) = Len(s) + Len(w) /\ Len(s) \in Nat /\ Len(w) \in Nat
      /\ \A i \in 1..(Len(s) + Len(w)) : t[i] = IF i <= Len(s) THEN s[i] ELSE w[i - Len(s)]
  BY ConcatProperties
<1>2. PICK n : n = Len(w)
  OBVIOUS
<1>3. PICK from : from = Len(s) + 1
  OBVIOUS
<1>4. Len(t) + 1 - from = n /\ DOMAIN w = 1..n
  BY <1>1, <1>2, <1>3
<1>5. \A i \in 1..n : /\ from + i - 1 = Len(s) + i
                      /\ t[from + i - 1] = w[i]
  <2> TAKE i \in 1..n
  <2>1. /\ from + i - 1 = Len(s) + i /\ Len(s) + i \in 1..(Len(s) + Len(w))
        /\ ~(Len(s) + i <= Len(s)) /\ (Len(s) + i) - Len(s) = i
    BY <1>1, <1>2, <1>3
  <2> QED
    BY <1>1, <2>1
<1>6. StretchOf(t, from, Len(t)) = [i \in 1..n |-> [id |-> from + i - 1, uri |-> t[from + i - 1]]]
  BY <1>4 DEF StretchOf
<1>7. [i \in DOMAIN w |-> [id |-> Len(s) + i, uri |-> w[i]]] = StretchOf(t, from, Len(t))
  BY <1>4, <1>5, <1>6
<1> QED
  BY <1>3, <1>7

\* There are none when nothing is wanted.
LEMMA FreshTypes ==
  ASSUME NEW s \in Seq(Item), NEW w \in Seq(Item), NEW t, t = s \o w
  PROVE  /\ t \in Seq(Item) /\ Len(t) = Len(s) + Len(w)
         /\ StretchOf(t, Len(s) + 1, Len(t)) \in Seq(Event)
         /\ StretchOf(t, Len(s) + 1, Len(t)) = <<>> <=> w = <<>>
<1>1. t \in Seq(Item) /\ Len(t) = Len(s) + Len(w) /\ Len(s) \in Nat /\ Len(w) \in Nat
  BY ConcatProperties
<1>2. PICK from : from = Len(s) + 1
  OBVIOUS
<1>3. /\ from \in 1..(Len(t) + 1) /\ Len(t) \in (from - 1)..Len(t)
      /\ Len(t) = from - 1 <=> Len(w) = 0
  BY <1>1, <1>2
<1>4. /\ StretchOf(t, from, Len(t)) \in Seq(Event)
      /\ StretchOf(t, from, Len(t)) = <<>> <=> Len(w) = 0
  BY <1>1, <1>3, StretchIs
<1>5. Len(w) = 0 <=> w = <<>>
  OBVIOUS
<1> QED
  BY <1>1, <1>2, <1>4, <1>5

\* What is in hand is in hand of a longer log.
LEMMA InHandKeeps ==
  ASSUME NEW s \in Seq(Item), NEW w \in Seq(Item), NEW t, t = s \o w, NEW place,
         NEW f \in Stream, InHand(s, place, f)
  PROVE  InHand(t, place, f)
<1>1. Len(t) = Len(s) + Len(w) /\ Len(s) \in Nat /\ Len(w) \in Nat
  BY ConcatProperties
<1>2. PICK a \in 1..Len(s) : /\ NextIs(s, place, a) /\ a <= f.cursor /\ f.cursor <= Len(s)
                             /\ f.batch = StretchOf(s, a, f.cursor)
  BY DEF InHand
<1>3. f.cursor \in Nat
  BY DEF Stream
<1>4. f.batch = StretchOf(t, a, f.cursor)
  <2>1. PICK to \in Nat : to = f.cursor
    BY <1>3
  <2>2. a \in 1..(Len(s) + 1) /\ to <= Len(s)
    BY <1>1, <1>2, <2>1
  <2>3. StretchOf(s \o w, a, to) = StretchOf(s, a, to)
    BY <2>2, StretchOfPrefix
  <2> QED
    BY <1>2, <2>1, <2>3
<1>5. NextIs(t, place, a) /\ a \in 1..Len(t) /\ f.cursor <= Len(t)
  BY <1>1, <1>2, <1>3, McpSessionAssumption DEF NextIs
<1> QED
  BY <1>2, <1>4, <1>5 DEF InHand

\* A stream takes what is new into its queue, or wakes with it.
LEMMA WokenKeeps ==
  ASSUME NEW s \in Seq(Item), NEW w \in Seq(Item), NEW t, t = s \o w,
         NEW place \in Nat, place <= Len(s), NEW f \in Stream, StreamInv(s, place, f),
         NEW fresh, fresh = StretchOf(t, Len(s) + 1, Len(t)),
         NEW g, g = Woken(f, Filtered(fresh, Later(f.cursor)))
  PROVE  g \in Stream /\ StreamInv(t, place, g)
<1>1. /\ t \in Seq(Item) /\ Len(t) = Len(s) + Len(w) /\ Len(s) \in Nat /\ Len(w) \in Nat
      /\ fresh \in Seq(Event) /\ Len(s) <= Len(t) /\ Len(s) + 1 \in 1..(Len(t) + 1)
      /\ fresh = <<>> => t = s
      /\ fresh # <<>> => Len(s) < Len(t)
  <2>1. /\ t \in Seq(Item) /\ Len(t) = Len(s) + Len(w) /\ fresh \in Seq(Event)
        /\ fresh = <<>> <=> w = <<>>
    <3>1. /\ t \in Seq(Item) /\ Len(t) = Len(s) + Len(w)
          /\ StretchOf(t, Len(s) + 1, Len(t)) \in Seq(Event)
          /\ StretchOf(t, Len(s) + 1, Len(t)) = <<>> <=> w = <<>>
      BY FreshTypes
    <3> QED
      BY <3>1
  <2>2. Len(s) \in Nat /\ Len(w) \in Nat /\ (w # <<>> => Len(w) > 0)
    OBVIOUS
  <2>3. w = <<>> => t = s
    OBVIOUS
  <2> QED
    BY <2>1, <2>2, <2>3
<1>2. f.cursor \in Nat /\ f.queue \in Seq(Event) /\ f.batch \in Seq(Event)
  BY DEF Stream
<1>3. CASE f.phase \in {"closed", "last"}
  <2>1. g = f
    BY <1>3 DEF Woken
  <2>2. CASE f.phase = "closed"
    BY <2>1, <2>2 DEF StreamInv
  <2>3. CASE f.phase = "last"
    BY <2>1, <2>3, InHandKeeps DEF StreamInv
  <2> QED
    BY <1>3, <2>2, <2>3
<1>4. CASE f.phase \in {"read", "wait", "write"}
  <2>1. f.cursor <= Len(s)
    BY <1>1, <1>2, <1>4 DEF StreamInv, InHand
  <2>2. Filtered(fresh, Later(f.cursor)) = fresh
    <3>1. PICK from : from = Len(s) + 1
      OBVIOUS
    <3>2. from \in 1..(Len(t) + 1) /\ f.cursor \in 0..Len(t) /\ f.cursor < from
      BY <1>1, <1>2, <2>1, <3>1
    <3> QED
      BY <1>1, <3>1, <3>2, LaterInStretch
  <2>3. g = Woken(f, fresh)
    BY <2>2
  <2>4. CASE fresh = <<>>
    <3>1. g = f
      BY <2>3, <2>4 DEF Woken
    <3>2. t = s
      BY <1>1, <2>4
    <3> QED
      BY <3>1, <3>2
  <2>5. CASE fresh # <<>> /\ f.phase = "wait"
    <3>1. PICK from : from = Len(s) + 1
      OBVIOUS
    <3>2. from \in 1..Len(t) /\ from - 1 = Len(s) /\ from \in Nat
      BY <1>1, <2>5, <3>1
    <3>3. /\ Head(fresh) \in Event /\ Head(fresh).id = from
          /\ <<Head(fresh)>> = StretchOf(t, from, from)
          /\ Tail(fresh) \in Seq(Event) /\ Tail(fresh) = StretchOf(t, from + 1, Len(t))
      <4>1. fresh = StretchOf(t, from, Len(t))
        BY <3>1
      <4> QED
        <5>1. PICK part : part = StretchOf(t, from, Len(t))
          OBVIOUS
        <5>2. /\ Head(part) \in Event /\ Head(part).id = from
              /\ <<Head(part)>> = StretchOf(t, from, from)
              /\ Tail(part) \in Seq(Event) /\ Tail(part) = StretchOf(t, from + 1, Len(t))
          BY <1>1, <3>2, <5>1, StretchSplit
        <5>3. part = fresh
          BY <4>1, <5>1
        <5> QED
          BY <5>2, <5>3
    <3>4. f.queue = <<>> /\ place = Len(s)
      BY <2>5 DEF StreamInv
    <3>5. g = [phase |-> "write", cursor |-> from, queue |-> Tail(fresh),
               batch |-> Append(f.queue, Head(fresh))]
      BY <2>3, <2>5, <3>3 DEF Woken
    <3>6. Append(f.queue, Head(fresh)) = <<Head(fresh)>> /\ <<Head(fresh)>> \in Seq(Event)
      BY <3>3, <3>4
    <3>7. g \in Stream /\ g.phase = "write" /\ g.cursor = from /\ g.queue = Tail(fresh)
          /\ g.batch = StretchOf(t, from, from)
      <4>1. PICK q \in Seq(Event) : q = Tail(fresh)
        BY <3>3
      <4>2. PICK b \in Seq(Event) : b = <<Head(fresh)>>
        BY <3>6
      <4>3. g = [phase |-> "write", cursor |-> from, queue |-> q, batch |-> b]
        BY <3>5, <3>6, <4>1, <4>2
      <4> QED
        <5>1. g \in Stream
          BY <3>2, <4>3 DEF Stream
        <5>2. g.phase = "write" /\ g.cursor = from /\ g.queue = q /\ g.batch = b
          BY <4>3
        <5> QED
          BY <3>3, <4>1, <4>2, <5>1, <5>2
    <3>8. NextIs(t, place, from)
      BY <1>1, <3>2, <3>4 DEF NextIs
    <3>9. InHand(t, place, g)
      BY <1>1, <3>2, <3>7, <3>8 DEF InHand
    <3> QED
      BY <3>3, <3>7, <3>9 DEF StreamInv
  <2>6. CASE fresh # <<>> /\ f.phase \in {"read", "write"}
    <3>1. PICK q : q = f.queue \o fresh
      OBVIOUS
    <3>2. q \in Seq(Event)
      BY <1>1, <1>2, <3>1, ConcatProperties
    <3>3. g = [f EXCEPT !.queue = q]
      BY <2>3, <2>6, <3>1 DEF Woken
    <3>4. /\ g \in Stream /\ g.phase = f.phase /\ g.cursor = f.cursor /\ g.batch = f.batch
          /\ g.queue = q
      BY <3>2, <3>3 DEF Stream
    <3>5. ASSUME NEW a \in 1..(Len(s) + 1), f.queue = StretchOf(s, a, Len(s))
          PROVE  g.queue = StretchOf(t, a, Len(t))
      <4>1. f.queue = StretchOf(t, a, Len(s))
        BY <1>1, <3>5, StretchOfPrefix
      <4>2. a \in 1..(Len(t) + 1) /\ Len(s) \in (a - 1)..Len(t) /\ Len(t) \in Len(s)..Len(t)
        BY <1>1
      <4> QED
        BY <1>1, <3>1, <3>4, <4>1, <4>2, StretchesJoin
    <3>6. CASE f.phase = "read"
      <4>1. PICK a \in 1..(Len(s) + 1) : NextIs(s, place, a) /\ f.queue = StretchOf(s, a, Len(s))
        BY <3>6 DEF StreamInv
      <4>2. a \in 1..(Len(t) + 1) /\ NextIs(t, place, a)
        BY <1>1, <4>1, McpSessionAssumption DEF NextIs
      <4>3. f.cursor = place
        BY <3>6 DEF StreamInv
      <4> QED
        BY <3>4, <3>5, <3>6, <4>1, <4>2, <4>3 DEF StreamInv
    <3>7. CASE f.phase = "write"
      <4>1. f.cursor + 1 \in 1..(Len(s) + 1)
        BY <1>1, <1>2, <2>1
      <4>2. f.queue = StretchOf(s, f.cursor + 1, Len(s)) /\ InHand(s, place, f)
        BY <3>7 DEF StreamInv
      <4>3. g.queue = StretchOf(t, g.cursor + 1, Len(t))
        BY <3>4, <3>5, <4>1, <4>2
      <4>4. InHand(t, place, g)
        <5>1. InHand(t, place, f)
          BY <4>2, InHandKeeps
        <5> QED
          BY <3>4, <5>1 DEF InHand
      <4> QED
        BY <3>4, <3>7, <4>3, <4>4 DEF StreamInv
    <3> QED
      BY <2>6, <3>6, <3>7
  <2> QED
    BY <1>4, <2>4, <2>5, <2>6
<1> QED
  BY <1>3, <1>4 DEF Stream

\* What a session wants of a notification are resources, and perhaps the list.
LEMMA WantedIs ==
  ASSUME NEW resources \in Seq(Uri), NEW listChanged
  PROVE  Wanted(resources, listChanged) \in Seq(Item)
<1>1. PICK part \in Seq(Uri) : part = Filtered(resources, session.subscriptions)
  BY FilteredTypes
<1>2. part \in Seq(Item) /\ <<>> \in Seq(Item) /\ <<"list">> \in Seq(Item)
  BY DEF Item
<1>3. PICK head \in Seq(Item) : head = IF listChanged THEN <<"list">> ELSE <<>>
  BY <1>2
<1>4. head \o part \in Seq(Item)
  BY <1>2, ConcatProperties
<1> QED
  BY <1>1, <1>2, <1>3, <1>4 DEF Wanted

\* A notification makes the log longer and every stream that is open has it in hand
\* or in its queue.
LEMMA EnqueueKeeps ==
  ASSUME SessionInv, NEW resources \in Seq(Uri), NEW listChanged \in BOOLEAN,
         EnqueueMutationNotifications(resources, listChanged)
  PROVE  SessionInv' /\ Promised
<1>1. PICK w \in Seq(Item) : w = Wanted(resources, listChanged)
  BY WantedIs
<1>2. PICK fresh : fresh = [i \in DOMAIN w |-> [id |-> Len(log) + i, uri |-> w[i]]]
  OBVIOUS
<1>3. /\ session' = [session EXCEPT !.events = Trimmed(session.events \o fresh)]
      /\ stream' = [c \in Client |-> Woken(stream[c], Filtered(fresh, Later(stream[c].cursor)))]
      /\ log' = log \o w
      /\ UNCHANGED <<origin, received>>
  BY <1>1, <1>2 DEF EnqueueMutationNotifications
<1>4. /\ log \in Seq(Item) /\ Len(log) \in Nat /\ session \in Session
      /\ session.delivered \in Nat /\ session.delivered <= Len(log)
      /\ stream \in [Client -> Stream] /\ session.events = EndOf(log)
      /\ \A c \in Client : SentIsLogged(log, origin[c], received[c])
      /\ \A c \in Client : StreamInv(log, Place(c), stream[c])
      /\ origin \in [Client -> Nat] /\ received \in [Client -> Seq(Event)]
  BY SessionFacts DEF SessionInv
<1>5. PICK t : t = log \o w
  OBVIOUS
<1>6. /\ t \in Seq(Item) /\ Len(t) = Len(log) + Len(w) /\ Len(log) <= Len(t)
      /\ fresh = StretchOf(t, Len(log) + 1, Len(t))
  <2>1. t \in Seq(Item) /\ Len(t) = Len(log) + Len(w) /\ Len(w) \in Nat
    BY <1>4, <1>5, FreshTypes
  <2>2. fresh = StretchOf(t, Len(log) + 1, Len(t))
    <3>1. [i \in DOMAIN w |-> [id |-> Len(log) + i, uri |-> w[i]]]
            = StretchOf(t, Len(log) + 1, Len(t))
      BY <1>4, <1>5, FreshIs, Zenon
    <3> QED
      BY <1>2, <3>1
  <2> QED
    BY <1>4, <2>1, <2>2
<1>7. Trimmed(session.events \o fresh) = EndOf(t) /\ EndOf(t) \in Seq(Event)
      /\ Len(EndOf(t)) <= History
  BY <1>4, <1>5, <1>6, HistoryGrows
<1>8. session' \in Session /\ session'.events = EndOf(t) /\ session'.delivered = session.delivered
  BY <1>3, <1>4, <1>7 DEF Session
<1>9. ASSUME NEW c \in Client
      PROVE  stream'[c] \in Stream /\ StreamInv(t, Place(c), stream'[c])
  <2>1. Place(c) \in Nat /\ Place(c) <= Len(log)
    BY StartIs
  <2>2. stream'[c] = Woken(stream[c], Filtered(fresh, Later(stream[c].cursor)))
    BY <1>3
  <2>3. stream[c] \in Stream
    BY <1>4
  <2> QED
    BY <1>4, <1>5, <1>6, <2>1, <2>2, <2>3, WokenKeeps
<1>10. stream' \in [Client -> Stream]
  <2>1. PICK f : f = stream'
    OBVIOUS
  <2>2. f = [c \in Client |-> f[c]]
    BY <1>3, <2>1
  <2>3. \A c \in Client : f[c] \in Stream
    BY <1>9, <2>1
  <2> QED
    BY <2>1, <2>2, <2>3
<1>11. \A c \in Client : SentIsLogged(t, origin[c], received[c])
  <2> TAKE c \in Client
  <2>1. SentIsLogged(log, origin[c], received[c]) /\ origin[c] \in Nat
    BY <1>4
  <2>2. received[c] # <<>> => Last(received[c]).id \in 1..Len(t)
    BY <1>4, <1>6, <2>1 DEF SentIsLogged
  <2>3. origin[c] <= Len(t)
    BY <1>4, <1>6, <2>1 DEF SentIsLogged
  <2> QED
    BY <2>2, <2>3 DEF SentIsLogged
<1>12. SessionTypeOK'
  <2>1. t \in Seq(Uri \cup {"list"})
    BY <1>6 DEF Item
  <2> QED
    BY <1>3, <1>4, <1>5, <1>7, <1>8, <1>10, <2>1 DEF SessionTypeOK
<1>13. SessionInv'
  <2>1. session'.delivered <= Len(t)
    BY <1>4, <1>6, <1>8
  <2>2. \A c \in Client : StreamInv(t, Place(c)', stream'[c])
    BY <1>3, <1>9 DEF Place
  <2> QED
    BY <1>3, <1>5, <1>8, <1>11, <1>12, <2>1, <2>2 DEF SessionInv
<1>14. Promised
  <2>1. CASE w = <<>>
    <3>1. log' = log
      BY <1>3, <1>4, <2>1
    <3> QED
      BY <1>3, <3>1 DEF Promised
  <2>2. CASE w # <<>>
    <3>1. PICK n : n = Len(w)
      OBVIOUS
    <3>2. n \in 1..Len(t) /\ Len(t) - n = Len(log)
      BY <1>4, <1>6, <2>2, <3>1
    <3>3. SubSeq(t, 1, Len(log)) = log
      BY <1>4, <1>5, SubSeqOfConcat1
    <3>4. Events!Publish
      BY <1>3, <1>5, <3>2, <3>3 DEF Events!Publish
    <3> QED
      BY <3>4 DEF Promised, Events!StreamNext
  <2> QED
    BY <2>1, <2>2
<1> QED
  BY <1>13, <1>14

LEMMA SessionStarts ==
  ASSUME SessionInit
  PROVE  SessionInv /\ Events!Start
<1> USE DEF SessionInit
<1>1. <<>> \in Seq(Item) /\ <<>> \in Seq(Event) /\ Len(<<>>) = 0
  OBVIOUS
<1>2. session \in Session /\ session.events = <<>> /\ session.delivered = 0
  BY <1>1 DEF Session
<1>3. stream \in [Client -> Stream] /\ \A c \in Client : StreamInv(log, Place(c), stream[c])
  BY ClosedIs
<1>4. EndOf(log) = <<>>
  <2>1. Kept(log) = 0
    BY <1>1, McpSessionAssumption DEF Kept
  <2>2. EndOf(log) = StretchOf(log, Len(log) + 1, Len(log))
    BY <1>1, <2>1 DEF EndOf
  <2> QED
    BY <1>1, <2>2, NothingLeft
<1>5. SessionTypeOK
  <2>1. Len(session.events) <= History /\ log \in Seq(Uri \cup {"list"})
    BY <1>1, <1>2, McpSessionAssumption DEF Item
  <2> QED
    BY <1>1, <1>2, <1>3, <2>1 DEF SessionTypeOK
<1>6. \A c \in Client : SentIsLogged(log, origin[c], received[c])
  BY <1>1 DEF SentIsLogged
<1>7. session.events = EndOf(log) /\ session.delivered <= Len(log)
  BY <1>1, <1>2, <1>4
<1>8. Events!Start
  BY DEF Events!Start
<1> QED
  BY <1>3, <1>5, <1>6, <1>7, <1>8 DEF SessionInv

LEMMA SessionStutters ==
  ASSUME SessionInv, UNCHANGED sessionVars
  PROVE  SessionInv' /\ Promised
<1>1. Change(session) /\ session \in Session /\ session.delivered <= Len(log)
  BY DEF sessionVars, Change, SessionInv, SessionTypeOK
<1> QED
  BY <1>1, ChangeKeeps

LEMMA ReadersKeep ==
  ASSUME SessionInv, ReaderStep
  PROVE  SessionInv' /\ Promised
BY DrainKeeps, DrainOtherKeeps, FollowKeeps, ReadBatchKeeps, WriteBatchKeeps, CloseStreamKeeps
   DEF ReaderStep
-----------------------------------------------------------------------------
(***************************************************************************)
(* What the gateway does to the session, and what it still has to tell.    *)
(***************************************************************************)
\* A session is opened before the requests to it are let through; a route has no
\* messages.
RequestShape(r) ==
  /\ r.step = "dispatch" => Head(r.rest).method # "initialize"
  /\ r.surface = "api" => r.step \in {"idle", "tool"}

\* A request whose tool has changed an alert, and has not told of it yet.
Untelling(r) ==
  /\ r.surface # "api"
  /\ r.step \in {"tool", "publish"}
  /\ r.rest # <<>>
  /\ Head(r.rest).tool # "submit_operator_request"

\* A tool works on an alert, or on no call of ControlState at all.
ToolWork(r, c) ==
  r.step = "tool" =>
    IF r.surface = "api" THEN c.route
    ELSE /\ r.rest # <<>>
         /\ Head(r.rest).tool = "submit_operator_request" => c.step \in {"done", "failed"}

ToldInv ==
  /\ \A h \in Handler : RequestShape(http[h]) /\ ToolWork(http[h], call[h])
  /\ untold \subseteq Handler
  /\ \A h \in untold : Untelling(http[h])
  /\ untold # {} => Subscribed

FullInv == GatewayInv /\ SessionInv /\ ToldInv

\* The resources a tool has updated are resources.
LEMMA UpdatesAreResources ==
  \A tool : UpdatedResources(tool) \in Seq(Uri) /\ ListChanged(tool) \in BOOLEAN
<1>1. <<"alerts://current">> \in Seq(Uri) /\ <<"requests://active">> \in Seq(Uri)
  BY McpGatewayAssumption
<1> QED
  BY <1>1 DEF UpdatedResources, ListChanged

\* A message that is let through to the session.
LEMMA DispatchesKeep ==
  ASSUME GatewayInv, SessionInv, ToldInv, NEW h \in Handler, Dispatch(h)
  PROVE  SessionInv' /\ Promised
<1>1. PICK r : r = http[h]
  OBVIOUS
<1>2. PICK m : m = Head(r.rest)
  OBVIOUS
<1>3. /\ r \in Request /\ r.step = "dispatch" /\ r.rest # <<>> /\ r.rest \in Seq(Message)
      /\ m.method # "initialize"
  BY <1>1, <1>2 DEF GatewayInv, ToldInv, RequestShape, RequestInv, Dispatch, IsAt, Request
<1>4. m \in Message /\ m.method # "call"
  BY <1>1, <1>2, <1>3, HeadTailProperties DEF Dispatch
<1>5. m.method = "initialized" \/ (m.method \in {"subscribe", "unsubscribe"} /\ m.uri \in Uri)
  BY <1>3, <1>4 DEF Message
<1>6. Act(r.surface, m) \/ UNCHANGED sessionVars
  BY <1>1, <1>2 DEF Dispatch
<1>7. CASE Act(r.surface, m)
  <2>1. \/ MarkSessionInitialized \/ UNCHANGED sessionVars
        \/ \E uri \in Uri : SubscribeToResource(uri) \/ UnsubscribeFromResource(uri)
    BY <1>5, <1>7 DEF Act
  <2> QED
    BY <2>1, SessionChanges, SessionStutters
<1> QED
  BY <1>6, <1>7, SessionStutters

\* Every step of the gateway keeps the session, and is one that EventStream allows.
LEMMA SessionSteps ==
  ASSUME GatewayInv, SessionInv, ToldInv, Next
  PROVE  SessionInv' /\ Promised
<1>1. CASE UNCHANGED sessionVars
  BY <1>1, SessionStutters
<1>2. ASSUME NEW h \in Handler, Serve(h) PROVE SessionInv' /\ Promised
  <2>1. CASE Look(h)
    <3>1. CreateSession \/ UNCHANGED sessionVars
      BY <2>1 DEF Look, Only
    <3> QED
      BY <1>1, <3>1, SessionChanges
  <2>2. CASE PublishMutation(h)
    <3>1. EnqueueMutationNotifications(UpdatedResources(Head(http[h].rest).tool),
                                       ListChanged(Head(http[h].rest).tool))
      BY <2>2 DEF PublishMutation
    <3> QED
      BY <3>1, UpdatesAreResources, EnqueueKeeps
  <2>3. CASE CallTool(h) \/ Work(h) \/ EndWork(h)
    <3>1. UNCHANGED sessionVars
      BY <2>3 DEF CallTool, Only, Work, EndWork
    <3> QED
      BY <1>1, <3>1
  <2> QED
    BY <1>2, <2>1, <2>2, <2>3, DispatchesKeep DEF Serve
<1>3. CASE \E role : DeleteSession(role)
  BY <1>3, SessionEnds DEF DeleteSession
<1>4. CASE Evict
  BY <1>4, SessionEnds DEF Evict
<1>5. CASE Meanwhile
  BY <1>1, <1>5, ReadersKeep DEF Meanwhile
<1>6. ASSUME NEW h \in Handler, ClientRequest(h) PROVE UNCHANGED sessionVars
  BY <1>6 DEF ClientRequest, Post, PostTool, Route, Only
<1> QED
  BY <1>1, <1>2, <1>3, <1>4, <1>5, <1>6 DEF Next
-----------------------------------------------------------------------------
\* The rest of a batch, and the answer.
LEMMA NextShape ==
  ASSUME NEW r \in Request, r.surface # "api"
  PROVE  /\ RequestShape(NextMessage(r)) /\ NextMessage(r).step \in {"idle", "message"}
         /\ \A c : ToolWork(NextMessage(r), c)
<1>1. CASE Len(r.rest) <= 1
  BY <1>1 DEF NextMessage, NoRequest, RequestShape, ToolWork
<1>2. CASE ~(Len(r.rest) <= 1)
  <2>1. PICK q : q = NextMessage(r)
    OBVIOUS
  <2>2. q = [r EXCEPT !.rest = Tail(r.rest), !.step = "message"]
    BY <1>2, <2>1 DEF NextMessage
  <2>3. q.step = "message" /\ q.surface = r.surface
    BY <2>2 DEF Request
  <2> QED
    BY <2>1, <2>3 DEF RequestShape, ToolWork
<1> QED
  BY <1>1, <1>2

\* A request moves on to r, and the other calls are as far as they were.
LEMMA MoveTells ==
  ASSUME GatewayInv, ToldInv, NEW h \in Handler, NEW r, Proceed(h, r), RequestShape(r),
         ToolWork(r, call'[h]),
         \A g \in Handler : g # h => /\ call'[g].route = call[g].route
                                     /\ call'[g].step = call[g].step,
         untold' \subseteq untold, h \in untold' => Untelling(r),
         untold' # {} => Subscribed'
  PROVE  ToldInv'
<1>1. \A g \in Handler : http'[g] = IF g = h THEN r ELSE http[g]
  BY DEF Proceed, GatewayInv
<1>2. ASSUME NEW g \in Handler PROVE RequestShape(http'[g]) /\ ToolWork(http'[g], call'[g])
  BY <1>1, <1>2 DEF ToldInv, ToolWork
<1>3. untold' \subseteq Handler
  BY DEF ToldInv
<1>4. \A g \in untold' : Untelling(http'[g])
  BY <1>1, <1>3 DEF ToldInv
<1>5. \A g \in Handler : RequestShape(http[g])' /\ ToolWork(http[g], call[g])'
  BY <1>2 DEF RequestShape, ToolWork
<1>6. \A g \in untold' : Untelling(http[g])'
  BY <1>4 DEF Untelling
<1> QED
  BY <1>3, <1>5, <1>6 DEF ToldInv

\* A request that moves on alone, and has nothing to tell.
LEMMA QuietTells ==
  ASSUME GatewayInv, ToldInv, NEW h \in Handler, NEW r, Only(h, r),
         http[h].step \notin {"tool", "publish"}, RequestShape(r), r.step # "tool"
  PROVE  ToldInv'
<1>1. h \notin untold
  BY DEF ToldInv, Untelling
<1>2. Proceed(h, r) /\ call' = call /\ untold' = untold /\ session' = session
  BY DEF Only, controlVars, sessionVars
<1>3. untold' # {} => Subscribed'
  BY <1>2 DEF ToldInv, Subscribed, IsOpen
<1>4. ToolWork(r, call'[h])
  BY DEF ToolWork
<1> QED
  BY <1>1, <1>2, <1>3, <1>4, MoveTells

LEMMA ClientTells ==
  ASSUME GatewayInv, ToldInv, NEW h \in Handler, ClientRequest(h)
  PROVE  ToldInv'
<1>1. ASSUME NEW p \in Posting, Post(h, p) PROVE ToldInv'
  <2>1. PICK r : r = [surface |-> p.surface, role |-> RoleOf(p.credential), named |-> p.named,
                      rest |-> p.batch, step |-> "message"]
    OBVIOUS
  <2>2. Only(h, r) /\ http[h].step = "idle"
    BY <1>1, <2>1 DEF Post, IsAt
  <2>3. RequestShape(r) /\ r.step # "tool"
    BY <2>1, McpGatewayAssumption DEF RequestShape
  <2> QED
    BY <2>2, <2>3, QuietTells
<1>2. ASSUME NEW role, NEW tool, NEW a,
             PostTool(h, role, [method |-> "call", tool |-> tool, alert |-> a])
      PROVE  ToldInv'
  <2>1. PICK m : m = [method |-> "call", tool |-> tool, alert |-> a]
    OBVIOUS
  <2>2. PICK r : r = [surface |-> "thin", role |-> role, named |-> "none", rest |-> <<m>>,
                      step |-> "dispatch"]
    OBVIOUS
  <2>3. Only(h, r) /\ http[h].step = "idle"
    BY <1>2, <2>1, <2>2 DEF PostTool, IsAt
  <2>4. m.method = "call"
    BY <2>1
  <2>5. Head(r.rest) = m
    BY <2>2
  <2>6. RequestShape(r) /\ r.step # "tool"
    BY <2>2, <2>4, <2>5 DEF RequestShape
  <2> QED
    BY <2>3, <2>6, QuietTells
<1>3. ASSUME NEW role, Route(h, role) PROVE ToldInv'
  <2>1. PICK r : r = [NoRequest EXCEPT !.role = role, !.step = "tool"]
    OBVIOUS
  <2>2. r.surface = "api" /\ r.step = "tool"
    BY <2>1 DEF NoRequest
  <2>3. PICK c : Begin(h, c) /\ c.route
    <3>1. \A a : MarkRead(a, TRUE).route /\ Dismiss(a, TRUE).route
      BY DEF MarkRead, Dismiss, NoCall
    <3>2. \A p, grant : CreateApproval(p, grant).route /\ DeleteApproval(p).route
      BY DEF CreateApproval, DeleteApproval, NoCall
    <3> QED
      BY <1>3, <3>1, <3>2 DEF Route, RouteCall
  <2>4. Proceed(h, r) /\ untold' = untold /\ session' = session /\ http[h].step = "idle"
    BY <1>3, <2>1 DEF Route, sessionVars, IsAt
  <2>5. call'[h] = c /\ \A g \in Handler : g # h => call'[g] = call[g]
    BY <2>3 DEF Begin, Set, GatewayInv, IInv, ControlTypeOK
  <2>6. h \notin untold /\ (untold' # {} => Subscribed')
    BY <2>4 DEF ToldInv, Untelling, Subscribed, IsOpen
  <2>7. RequestShape(r) /\ ToolWork(r, call'[h])
    BY <2>2, <2>3, <2>5 DEF RequestShape, ToolWork
  <2> QED
    BY <2>4, <2>5, <2>6, <2>7, MoveTells
<1> QED
  BY <1>1, <1>2, <1>3 DEF ClientRequest

LEMMA LookTells ==
  ASSUME GatewayInv, SessionInv, ToldInv, NEW h \in Handler, Look(h)
  PROVE  ToldInv'
<1>1. PICK r \in Request : r = http[h]
  BY DEF GatewayInv
<1>2. r.step = "message" /\ r.surface # "api"
  BY <1>1 DEF Look, IsAt, ToldInv, RequestShape
<1>3. CASE CreateSession /\ Proceed(h, NextMessage(Renamed(r))) /\ UNCHANGED <<controlVars, untold>>
  <2>1. Renamed(r) \in Request /\ Renamed(r).surface # "api"
    BY <1>2 DEF Renamed, Request, Named
  <2>2. untold # {} => Subscribed'
    <3>1. Subscribed => session' = session
      BY <1>3 DEF CreateSession, Change, Subscribed, IsOpen
    <3> QED
      BY <3>1 DEF ToldInv, Subscribed, IsOpen
  <2>3. h \notin untold /\ call' = call /\ untold' = untold
    BY <1>1, <1>2, <1>3 DEF ToldInv, Untelling, controlVars
  <2>4. PICK q : q = NextMessage(Renamed(r))
    OBVIOUS
  <2>5. RequestShape(q) /\ ToolWork(q, call'[h]) /\ Proceed(h, q)
    BY <1>3, <2>1, <2>4, NextShape
  <2> QED
    BY <2>2, <2>3, <2>5, MoveTells
<1>4. CASE Only(h, [r EXCEPT !.step = "dispatch"]) /\ Head(r.rest).method # "initialize"
  <2>1. PICK q : q = [r EXCEPT !.step = "dispatch"]
    OBVIOUS
  <2>2. q.step = "dispatch" /\ q.rest = r.rest /\ q.surface = r.surface
    BY <2>1 DEF Request
  <2>3. RequestShape(q)
    BY <1>2, <1>4, <2>2 DEF RequestShape
  <2> QED
    BY <1>1, <1>2, <1>4, <2>1, <2>2, <2>3, QuietTells
<1>5. CASE Only(h, NextMessage(r))
  BY <1>1, <1>2, <1>5, NextShape, QuietTells
<1> QED
  BY <1>1, <1>3, <1>4, <1>5 DEF Look

\* Who unsubscribes from the alerts is not to be told of them any more.
LEMMA DispatchTells ==
  ASSUME GatewayInv, SessionInv, ToldInv, NEW h \in Handler, Dispatch(h)
  PROVE  ToldInv'
<1>1. PICK r \in Request : r = http[h]
  BY DEF GatewayInv
<1>2. r.step = "dispatch" /\ r.surface # "api"
  BY <1>1 DEF Dispatch, IsAt, ToldInv, RequestShape
<1>3. PICK q : q = NextMessage(r)
  OBVIOUS
<1>4. /\ Proceed(h, q) /\ call' = call
      /\ untold' = IF "alerts://current" \in session'.subscriptions THEN untold ELSE {}
      /\ Act(r.surface, Head(r.rest)) \/ UNCHANGED sessionVars
  BY <1>1, <1>3 DEF Dispatch, controlVars
<1>5. RequestShape(q) /\ ToolWork(q, call'[h])
  BY <1>2, <1>3, NextShape
<1>6. h \notin untold' /\ untold' \subseteq untold
  BY <1>1, <1>2, <1>4 DEF ToldInv, Untelling
<1>7. untold' # {} => Subscribed'
  <2> SUFFICES ASSUME untold' # {} PROVE Subscribed'
    OBVIOUS
  <2>1. IsOpen /\ session.initialized /\ "alerts://current" \in session'.subscriptions
    BY <1>4 DEF ToldInv, Subscribed
  <2>2. PICK s \in Session : s = session
    BY DEF SessionInv, SessionTypeOK
  <2>3. session'.life = s.life /\ (s.initialized => session'.initialized)
    <3>1. \/ session' = s
          \/ session' = [s EXCEPT !.initialized = TRUE]
          \/ \E subs : session' = [s EXCEPT !.subscriptions = subs]
      <4>1. CASE UNCHANGED sessionVars
        BY <2>2, <4>1 DEF sessionVars
      <4>2. CASE MarkSessionInitialized
        BY <2>1, <2>2, <4>2 DEF MarkSessionInitialized, Change
      <4>3. ASSUME NEW uri, SubscribeToResource(uri) \/ UnsubscribeFromResource(uri)
            PROVE  \E subs : session' = [s EXCEPT !.subscriptions = subs]
        BY <2>1, <2>2, <4>3 DEF SubscribeToResource, UnsubscribeFromResource, Change
      <4>4. \/ UNCHANGED sessionVars \/ MarkSessionInitialized
            \/ \E uri : SubscribeToResource(uri) \/ UnsubscribeFromResource(uri)
        <5>1. PICK m : m = Head(r.rest)
          OBVIOUS
        <5>2. m \in Message /\ m.method \notin {"call", "initialize"}
          BY <1>1, <1>2, <5>1, HeadTailProperties
          DEF GatewayInv, RequestInv, Request, Dispatch, ToldInv, RequestShape
        <5>3. m.method \in {"initialized", "subscribe", "unsubscribe"}
          BY <5>2 DEF Message
        <5> QED
          BY <1>4, <5>1, <5>3 DEF Act
      <4> QED
        BY <4>1, <4>2, <4>3, <4>4
    <3> QED
      BY <3>1 DEF Session
  <2> QED
    BY <2>1, <2>2, <2>3 DEF Subscribed, IsOpen
<1> QED
  BY <1>4, <1>5, <1>6, <1>7, MoveTells

LEMMA CallToolTells ==
  ASSUME GatewayInv, ToldInv, NEW h \in Handler, CallTool(h)
  PROVE  ToldInv'
<1>1. PICK r \in Request : r = http[h]
  BY DEF GatewayInv
<1>2. r.step = "dispatch" /\ r.surface # "api" /\ r.rest # <<>>
  BY <1>1 DEF CallTool, IsAt, ToldInv, RequestShape, GatewayInv, RequestInv
<1>3. CASE Only(h, NextMessage(r))
  BY <1>1, <1>2, <1>3, NextShape, QuietTells
<1>4. CASE MayCall(r.surface, r.role, Head(r.rest).tool)
  <2>1. PICK q : q = [r EXCEPT !.step = "tool"]
    OBVIOUS
  <2>2. q.step = "tool" /\ q.rest = r.rest /\ q.surface = r.surface
    BY <2>1 DEF Request
  <2>3. PICK m : m = Head(r.rest)
    OBVIOUS
  <2>4. Proceed(h, q) /\ UNCHANGED <<sessionVars, untold>>
    BY <1>1, <1>4, <2>1 DEF CallTool
  <2>5. PICK outcome \in {"done", "failed"} :
          Begin(h, CASE m.tool = "read_alert"    -> MarkRead(m.alert, FALSE)
                     [] m.tool = "dismiss_alert" -> Dismiss(m.alert, FALSE)
                     [] OTHER                    -> [NoCall EXCEPT !.step = outcome])
    BY <1>1, <1>4, <2>3 DEF CallTool
  <2>6. PICK c : c = CASE m.tool = "read_alert"    -> MarkRead(m.alert, FALSE)
                       [] m.tool = "dismiss_alert" -> Dismiss(m.alert, FALSE)
                       [] OTHER                    -> [NoCall EXCEPT !.step = outcome]
    OBVIOUS
  <2>7. call'[h] = c /\ \A g \in Handler : g # h => call'[g] = call[g]
    BY <2>5, <2>6 DEF Begin, Set, GatewayInv, IInv, ControlTypeOK
  <2>8. m.tool = "submit_operator_request" => c.step \in {"done", "failed"}
    BY <2>6 DEF NoCall
  <2>9. RequestShape(q) /\ ToolWork(q, call'[h])
    BY <1>2, <2>2, <2>3, <2>7, <2>8 DEF RequestShape, ToolWork
  <2>10. h \notin untold /\ (untold' # {} => Subscribed')
    BY <1>1, <1>2, <2>4 DEF ToldInv, Untelling, Subscribed, IsOpen, sessionVars
  <2> QED
    BY <2>4, <2>7, <2>9, <2>10, MoveTells
<1> QED
  BY <1>1, <1>3, <1>4 DEF CallTool

\* A tool that changes an alert is to tell of it.
LEMMA WorkTells ==
  ASSUME GatewayInv, ToldInv, NEW h \in Handler, Work(h)
  PROVE  ToldInv'
<1>1. /\ http[h].step = "tool" /\ ControlStep(h) /\ UNCHANGED <<session, http>>
      /\ untold' = IF At(h, "put") /\ call'[h].step = "again" /\ ~call[h].route /\ Subscribed
                   THEN untold \cup {h} ELSE untold
  BY DEF Work, IsAt, sessionVars
<1>2. \A g \in Handler : /\ call'[g].route = call[g].route
                         /\ g # h => call'[g].step = call[g].step
  BY <1>1, SameOp DEF GatewayInv
<1>3. call[h].step \notin {"done", "failed"}
  BY <1>1 DEF ControlStep, RequireAlert, RequireApproval, Put, Again, Cache, Throws, At
<1>4. ToolWork(http[h], call[h])
  BY DEF ToldInv
<1>5. ToolWork(http[h], call'[h])
  BY <1>2, <1>3, <1>4 DEF ToolWork
<1>6. \A g \in Handler : (RequestShape(http[g]) /\ ToolWork(http[g], call[g]))'
  <2> SUFFICES ASSUME NEW g \in Handler PROVE RequestShape(http'[g]) /\ ToolWork(http'[g], call'[g])
    BY DEF RequestShape, ToolWork
  <2> QED
    BY <1>1, <1>2, <1>5 DEF ToldInv, ToolWork
<1>7. ~call[h].route => Untelling(http[h])
  BY <1>1, <1>3, <1>4 DEF ToolWork, Untelling
<1>8. \A g \in untold' : Untelling(http[g])'
  <2>1. \A g \in untold' : Untelling(http[g])
    BY <1>1, <1>7 DEF ToldInv
  <2> QED
    BY <1>1, <2>1 DEF Untelling
<1>9. untold' \subseteq Handler /\ (untold' # {} => Subscribed')
  BY <1>1 DEF ToldInv, Subscribed, IsOpen
<1> QED
  BY <1>6, <1>8, <1>9 DEF ToldInv

\* A tool that fails keeps silent.
LEMMA EndWorkTells ==
  ASSUME GatewayInv, ToldInv, NEW h \in Handler, EndWork(h)
  PROVE  ToldInv'
<1>1. PICK r \in Request : r = http[h]
  BY DEF GatewayInv
<1>2. /\ r.step = "tool" /\ End(h) /\ session' = session
      /\ untold' = IF At(h, "failed") THEN untold \ {h} ELSE untold
      /\ Proceed(h, IF r.surface = "api" THEN NoRequest
                    ELSE IF At(h, "done") THEN [r EXCEPT !.step = "publish"]
                    ELSE NextMessage(r))
  BY <1>1 DEF EndWork, IsAt, sessionVars
<1>3. \A g \in Handler : g # h => call'[g] = call[g]
  BY <1>2 DEF End, Become, Set, GatewayInv, IInv, ControlTypeOK
<1>4. untold' \subseteq untold /\ (untold' # {} => Subscribed')
  BY <1>2 DEF ToldInv, Subscribed, IsOpen
<1>5. CASE r.surface = "api"
  <2>1. h \notin untold /\ Proceed(h, NoRequest)
    BY <1>1, <1>2, <1>5 DEF ToldInv, Untelling
  <2>2. RequestShape(NoRequest) /\ ToolWork(NoRequest, call'[h])
    BY DEF NoRequest, RequestShape, ToolWork
  <2> QED
    BY <1>3, <1>4, <2>1, <2>2, MoveTells
<1>6. CASE r.surface # "api" /\ At(h, "done")
  <2>1. PICK q : q = [r EXCEPT !.step = "publish"]
    OBVIOUS
  <2>2. q.step = "publish" /\ q.surface = r.surface /\ q.rest = r.rest
    BY <2>1 DEF Request
  <2>3. RequestShape(q) /\ ToolWork(q, call'[h]) /\ (h \in untold' => Untelling(q))
    BY <1>1, <1>4, <1>6, <2>2 DEF RequestShape, ToolWork, ToldInv, Untelling
  <2> QED
    BY <1>2, <1>3, <1>4, <1>6, <2>1, <2>3, MoveTells
<1>7. CASE r.surface # "api" /\ ~At(h, "done")
  <2>1. At(h, "failed")
    BY <1>2, <1>7 DEF End
  <2>2. h \notin untold' /\ Proceed(h, NextMessage(r))
    BY <1>2, <1>7, <2>1
  <2>3. RequestShape(NextMessage(r)) /\ ToolWork(NextMessage(r), call'[h])
    BY <1>7, NextShape
  <2> QED
    BY <1>3, <1>4, <2>2, <2>3, MoveTells
<1> QED
  BY <1>5, <1>6, <1>7

\* Whoever is subscribed to the alerts wants to be told of them.
LEMMA SubscriberWants ==
  ASSUME Subscribed
  PROVE  Contains(Wanted(<<"alerts://current">>, FALSE), "alerts://current")
<1>1. PICK part : part = Filtered(<<"alerts://current">>, session.subscriptions)
  OBVIOUS
<1>2. part = <<"alerts://current">>
  BY <1>1, FilteredOne DEF Subscribed
<1>3. Wanted(<<"alerts://current">>, FALSE) = <<>> \o part
  BY <1>1 DEF Wanted, Subscribed
<1>4. <<>> \o part = <<"alerts://current">>
  BY <1>2
<1>5. PICK wanted : wanted = Wanted(<<"alerts://current">>, FALSE)
  OBVIOUS
<1>6. wanted = <<"alerts://current">>
  BY <1>3, <1>4, <1>5
<1>7. 1 \in 1..Len(wanted) /\ wanted[1] = "alerts://current"
  BY <1>6
<1>8. Contains(wanted, "alerts://current")
  BY <1>7 DEF Contains
<1> QED
  BY <1>5, <1>8

LEMMA PublishTells ==
  ASSUME GatewayInv, SessionInv, ToldInv, NEW h \in Handler, PublishMutation(h)
  PROVE  ToldInv'
<1>1. PICK r \in Request : r = http[h]
  BY DEF GatewayInv
<1>2. r.step = "publish" /\ r.surface # "api"
  BY <1>1 DEF PublishMutation, IsAt, ToldInv, RequestShape
<1>3. PICK tool : tool = Head(r.rest).tool
  OBVIOUS
<1>4. /\ Proceed(h, NextMessage(r)) /\ call' = call
      /\ EnqueueMutationNotifications(UpdatedResources(tool), ListChanged(tool))
      /\ untold' = IF Contains(Wanted(UpdatedResources(tool), FALSE), "alerts://current")
                   THEN {} ELSE untold
  BY <1>1, <1>3 DEF PublishMutation, controlVars
<1>5. RequestShape(NextMessage(r)) /\ ToolWork(NextMessage(r), call'[h])
  BY <1>2, NextShape
<1>6. h \notin untold'
  <2>1. SUFFICES ASSUME h \in untold PROVE untold' = {}
    BY <1>4
  <2>2. Subscribed /\ tool # "submit_operator_request"
    BY <1>1, <1>3, <2>1 DEF ToldInv, Untelling
  <2>3. UpdatedResources(tool) = <<"alerts://current">>
    BY <2>2 DEF UpdatedResources
  <2> QED
    BY <1>4, <2>2, <2>3, SubscriberWants
<1>7. untold' # {} => Subscribed'
  <2>1. PICK s \in Session : s = session
    BY DEF SessionInv, SessionTypeOK
  <2>2. \E events : session' = [s EXCEPT !.events = events]
    BY <1>4, <2>1 DEF EnqueueMutationNotifications
  <2>3. /\ session'.life = s.life /\ session'.initialized = s.initialized
        /\ session'.subscriptions = s.subscriptions
    BY <2>2 DEF Session
  <2> QED
    BY <1>4, <2>1, <2>3 DEF ToldInv, Subscribed, IsOpen
<1> QED
  BY <1>4, <1>5, <1>6, <1>7, MoveTells

\* A step that leaves the requests as they are, and how far the calls are.
LEMMA StandTells ==
  ASSUME ToldInv, UNCHANGED <<http, call>>, untold' \subseteq untold,
         untold' # {} => Subscribed'
  PROVE  ToldInv'
<1>1. \A h \in Handler : (RequestShape(http[h]) /\ ToolWork(http[h], call[h]))'
  BY DEF ToldInv, RequestShape, ToolWork
<1>2. untold' \subseteq Handler /\ \A h \in untold' : Untelling(http[h])'
  BY DEF ToldInv, Untelling
<1> QED
  BY <1>1, <1>2 DEF ToldInv

\* Readers change nothing of what a session is subscribed to.
LEMMA ReadersStay ==
  ASSUME SessionInv, ReaderStep, Subscribed
  PROVE  Subscribed'
<1>1. PICK s \in Session : s = session
  BY DEF SessionInv, SessionTypeOK
<1>2. session' = s \/ \E id : session' = [s EXCEPT !.delivered = id]
  <2>1. \A id : \E mark : Drained(id) = [s EXCEPT !.delivered = mark]
    BY <1>1 DEF Drained
  <2> QED
    BY <1>1, <2>1 DEF ReaderStep, DrainSessionEvents, DrainOther, Change, FollowSessionEvents,
                       ReadBatch, WriteBatch, CloseStream
<1>3. /\ session'.life = s.life /\ session'.initialized = s.initialized
      /\ session'.subscriptions = s.subscriptions
  BY <1>2 DEF Session
<1> QED
  BY <1>1, <1>3 DEF Subscribed, IsOpen

LEMMA OthersTell ==
  ASSUME GatewayInv, SessionInv, ToldInv,
         Meanwhile \/ Evict \/ \E role : DeleteSession(role)
  PROVE  ToldInv'
<1>1. CASE ReaderStep /\ UNCHANGED <<controlVars, http, untold>>
  BY <1>1, ReadersStay, StandTells DEF ToldInv, controlVars
<1>2. ASSUME NEW a \in Alert, CommandMoves(a), UNCHANGED <<sessionVars, http, untold>> PROVE ToldInv'
  <2>1. UNCHANGED <<http, call>> /\ untold' = untold /\ session' = session
    BY <1>2 DEF CommandMoves, sessionVars
  <2> QED
    BY <2>1, StandTells DEF ToldInv, Subscribed, IsOpen
<1>3. CASE \E role : DeleteSession(role)
  BY <1>3, StandTells DEF DeleteSession, controlVars
<1>4. CASE Evict
  <2>1. \A h \in Handler : http'[h] = NoRequest /\ untold' = {}
    BY <1>4 DEF Evict
  <2>2. \A c : RequestShape(NoRequest) /\ ToolWork(NoRequest, c)
    BY DEF NoRequest, RequestShape, ToolWork
  <2>3. \A h \in Handler : (RequestShape(http[h]) /\ ToolWork(http[h], call[h]))'
    <3> SUFFICES ASSUME NEW h \in Handler
                 PROVE  RequestShape(http'[h]) /\ ToolWork(http'[h], call'[h])
      BY DEF RequestShape, ToolWork
    <3> QED
      BY <2>1, <2>2
  <2>4. untold' = {}
    BY <1>4 DEF Evict
  <2> QED
    BY <2>3, <2>4 DEF ToldInv
<1> QED
  BY <1>1, <1>2, <1>3, <1>4 DEF Meanwhile
-----------------------------------------------------------------------------
LEMMA FullStarts == Init => FullInv /\ Events!Start
<1> SUFFICES ASSUME Init PROVE FullInv /\ Events!Start
  OBVIOUS
<1>1. GatewayInv /\ SessionInv /\ Events!Start
  BY GatewayStarts, SessionStarts DEF Init
<1>2. \A h \in Handler : http[h] = NoRequest
  BY DEF Init
<1>3. RequestShape(NoRequest) /\ \A c : ToolWork(NoRequest, c)
  BY DEF NoRequest, RequestShape, ToolWork
<1>4. ToldInv
  BY <1>2, <1>3 DEF Init, ToldInv
<1> QED
  BY <1>1, <1>4 DEF FullInv

LEMMA FullStep ==
  ASSUME FullInv, Next
  PROVE  FullInv' /\ Promised
<1>1. GatewayInv /\ SessionInv /\ ToldInv
  BY DEF FullInv
<1>2. GatewayInv'
  BY <1>1, GatewayStep
<1>3. SessionInv' /\ Promised
  BY <1>1, SessionSteps
<1>4. ToldInv'
  BY <1>1, ClientTells, LookTells, DispatchTells, CallToolTells, WorkTells, EndWorkTells,
     PublishTells, OthersTell DEF Next, Serve
<1> QED
  BY <1>2, <1>3, <1>4 DEF FullInv

LEMMA FullStutter ==
  ASSUME FullInv, UNCHANGED vars
  PROVE  FullInv' /\ Promised
<1>1. GatewayInv /\ SessionInv /\ ToldInv /\ UNCHANGED <<controlVars, sessionVars, http, untold>>
  BY DEF FullInv, vars
<1>2. GatewayInv'
  BY <1>1, StutterKeeps, RestKeeps DEF GatewayInv, controlVars
<1>3. SessionInv' /\ Promised
  BY <1>1, SessionStutters
<1>4. ToldInv'
  BY <1>1, StandTells DEF controlVars, sessionVars, ToldInv, Subscribed, IsOpen
<1> QED
  BY <1>2, <1>3, <1>4 DEF FullInv

LEMMA FullInvariance == Spec => []FullInv
<1>1. FullInv /\ [Next]_vars => FullInv'
  BY FullStep, FullStutter
<1> QED
  BY <1>1, FullStarts, PTL DEF Spec

\* The gateway's variables keep their types, and the history of the session its bound.
THEOREM GatewayTypes == Spec => []TypeOK
<1>1. FullInv => TypeOK
  BY DEF FullInv, GatewayInv, IInv, SessionInv, ToldInv, TypeOK
<1> QED
  BY <1>1, FullInvariance, PTL

\* session-store.ts:138-151, 169-178: wherever a notification falls in the loop of a
\* stream, the stream is woken for it or finds it in its queue.
THEOREM StreamsAreWoken == Spec => []NoLostWakeup
<1>1. FullInv => NoLostWakeup
  <2> SUFFICES ASSUME FullInv, NEW c \in Client, stream[c].phase = "wait"
               PROVE  stream[c].queue = <<>> /\ After(stream[c].cursor) = <<>>
    BY DEF NoLostWakeup
  <2>1. SessionInv
    BY DEF FullInv
  <2>2. StreamInv(log, Place(c), stream[c])
    BY <2>1 DEF SessionInv
  <2>3. stream[c].queue = <<>> /\ stream[c].cursor = Len(log)
    BY <2>2 DEF StreamInv
  <2> QED
    BY <2>1, <2>3, AtTheEnd
<1> QED
  BY <1>1, FullInvariance, PTL

\* catalog.ts:205-208, mcp-router.ts:653-657: who is subscribed to the alerts while a
\* tool changes one has been told, or the call is still to tell.
THEOREM SubscribersHear == Spec => []SubscribersAreTold
<1>1. FullInv => SubscribersAreTold
  BY DEF FullInv, ToldInv, Untelling, SubscribersAreTold
<1> QED
  BY <1>1, FullInvariance, PTL

\* README.md:166: whatever requests, streams and drains do to the session, a reader is
\* sent stretches of its notifications that follow each other.
THEOREM StreamImplementation == Spec => ImplementsEventStream
<1>1. Init => Events!Start
  BY FullStarts
<1>2. FullInv /\ [Next]_vars => [Events!StreamNext]_(Events!streamVars)
  <2>1. ASSUME FullInv, [Next]_vars PROVE Promised
    BY <2>1, FullStep, FullStutter
  <2> QED
    BY <2>1 DEF Promised, Events!streamVars
<1> QED
  BY <1>1, <1>2, FullInvariance, PTL DEF Spec, ImplementsEventStream, Events!StreamSpec
=============================================================================
