------------------------------- MODULE McpGateway ------------------------------
(***************************************************************************)
(* The gateway: who is let in, the JSON-RPC messages of /mcp and /mcp/app, *)
(* the thin /mcp/tools, the routes of alerts and approvals, and what they  *)
(* do to ControlState and McpSession.                                      *)
(*                                                                         *)
(* A request runs in a handler and works through its messages one by one.  *)
(* A tool writes the store first and notifies the sessions afterwards.     *)
(***************************************************************************)
EXTENDS ControlState, McpSession

CONSTANTS
  Posting,      \* the requests that clients post to /mcp and /mcp/app
  Credential    \* what clients present

VARIABLES
  http,         \* what each handler's request has still to do
  untold        \* history: whose tool changed an alert that subscribers do not know of

vars == <<controlVars, sessionVars, http, untold>>

Tool == {"read_alert", "dismiss_alert", "submit_operator_request"}

Message == [method : {"initialize", "initialized"}]
             \cup [method : {"subscribe", "unsubscribe"}, uri : Uri]
             \cup [method : {"call"}, tool : Tool, alert : Alert]

ASSUME McpGatewayAssumption ==
  /\ \A p \in Posting :
       /\ p.surface \in {"main", "app"}
       /\ p.credential \in Credential
       /\ p.named \in {"none", "this", "other"}
       /\ p.batch \in Seq(Message) /\ p.batch # <<>>
  /\ Credential \subseteq {"operatorToken", "viewerToken", "cookie", "expiredCookie", "none"}
  /\ {"alerts://current", "requests://active"} \subseteq Uri

Surface == {"main", "app", "thin", "api"}

\* named: the session the request names, by its header or by its own initialize;
\* only one session is followed here.
Named == {"none", "this", "other"}

Request == [surface : Surface, role : {"operator", "viewer", "nobody"}, named : Named,
            rest : Seq(Message), step : {"idle", "message", "dispatch", "tool", "publish"}]

NoRequest == [surface |-> "api", role |-> "nobody", named |-> "none", rest |-> <<>>,
              step |-> "idle"]

Init ==
  /\ ControlInit
  /\ SessionInit
  /\ http = [h \in Handler |-> NoRequest]
  /\ untold = {}
-----------------------------------------------------------------------------
(***************************************************************************)
(* Who may do what.                                                        *)
(***************************************************************************)
\* authenticatePrincipal, with authentication configured.
RoleOf(credential) ==
  CASE credential \in {"operatorToken", "cookie"} -> "operator"
    [] credential = "viewerToken"                 -> "viewer"
    [] OTHER                                      -> "nobody"

\* The middleware: /mcp/app is public, and /api asks for an operator to change.
IsAdmitted(surface, role) ==
  CASE surface = "app" -> TRUE
    [] surface = "api" -> role = "operator"
    [] OTHER           -> role # "nobody"

\* Mutant: whoever is let in may call a tool of the main surface.
MayCallUnchecked(surface, role, tool) ==
  surface = "app" => tool = "submit_operator_request"

\* ensureOperatorAccess, and the tools of the app.
MayCall(surface, role, tool) ==
  IF surface = "app" THEN tool = "submit_operator_request"
  ELSE role = "operator"

\* requireAppUri
MaySubscribe(surface, uri) == surface = "app" => uri = "requests://active"

\* Mutant: a dismissed alert changes the log only.
UpdatedResourcesOfLog(tool) ==
  CASE tool = "read_alert"    -> <<"alerts://current">>
    [] tool = "dismiss_alert" -> <<>>
    [] OTHER                  -> <<"requests://active">>

\* The list of updated resources a tool returns, as far as Uri holds them.
UpdatedResources(tool) ==
  IF tool = "submit_operator_request" THEN <<"requests://active">> ELSE <<"alerts://current">>

ListChanged(tool) == tool = "submit_operator_request"
-----------------------------------------------------------------------------
(***************************************************************************)
(* The steps of a request.                                                 *)
(***************************************************************************)
IsAt(h, step) == http[h].step = step

Proceed(h, r) == http' = [http EXCEPT ![h] = r]

\* Only the request of h moves.
Only(h, r) == Proceed(h, r) /\ UNCHANGED <<controlVars, sessionVars, untold>>

\* The request r after its first message; at the end it is answered.
NextMessage(r) == IF Len(r.rest) <= 1 THEN NoRequest
                  ELSE [r EXCEPT !.rest = Tail(@), !.step = "message"]

Post(h, p) ==
  /\ IsAt(h, "idle")
  /\ IsAdmitted(p.surface, RoleOf(p.credential))
  /\ Only(h, [surface |-> p.surface, role |-> RoleOf(p.credential), named |-> p.named,
              rest |-> p.batch, step |-> "message"])

\* /mcp/tools/x has no session.
PostTool(h, role, m) ==
  /\ IsAt(h, "idle")
  /\ IsAdmitted("thin", role)
  /\ MayCall("thin", role, m.tool)
  /\ Only(h, [surface |-> "thin", role |-> role, named |-> "none", rest |-> <<m>>,
              step |-> "dispatch"])

Route(h, role) ==
  /\ IsAt(h, "idle")
  /\ IsAdmitted("api", role)
  /\ RouteCall(h)
  /\ Proceed(h, [NoRequest EXCEPT !.role = role, !.step = "tool"])
  /\ UNCHANGED <<sessionVars, untold>>

\* The request r after initialize: the rest of an app batch runs in the new session.
Renamed(r) ==
  IF r.surface = "main" THEN r
  ELSE [r EXCEPT !.named = IF session.life = "none" THEN "this" ELSE "other"]

\* Does the request r name a session that takes its first message?
IsReady(r) ==
  \/ r.named = "this" /\ IsOpen /\ (Head(r.rest).method = "initialized" \/ session.initialized)
  \/ r.named = "other"

Look(h) ==
  LET r == http[h] IN
  /\ IsAt(h, "message")
  /\ \/ /\ Head(r.rest).method = "initialize"
        /\ CreateSession
        /\ Proceed(h, NextMessage(Renamed(r)))
        /\ UNCHANGED <<controlVars, untold>>
     \/ /\ Head(r.rest).method # "initialize"
        /\ IsReady(r)
        /\ Only(h, [r EXCEPT !.step = "dispatch"])
     \/ /\ Head(r.rest).method # "initialize"
        /\ ~IsReady(r) \/ r.named = "other"
        /\ Only(h, NextMessage(r))

\* What a message does to the session, as that is by now.
Act(surface, m) ==
  IF m.method = "initialized" THEN MarkSessionInitialized
  ELSE IF ~MaySubscribe(surface, m.uri) THEN UNCHANGED sessionVars
  ELSE CASE m.method = "subscribe"   -> SubscribeToResource(m.uri)
         [] m.method = "unsubscribe" -> UnsubscribeFromResource(m.uri)

Dispatch(h) ==
  LET r == http[h]
      m == Head(r.rest)
  IN /\ IsAt(h, "dispatch")
     /\ m.method # "call"
     /\ IF r.named = "this" THEN Act(r.surface, m) ELSE UNCHANGED sessionVars
     /\ untold' = IF "alerts://current" \in session'.subscriptions THEN untold ELSE {}
     /\ Proceed(h, NextMessage(r))
     /\ UNCHANGED controlVars

\* callMcpTool, or 403.
CallTool(h) ==
  LET r == http[h]
      m == Head(r.rest)
  IN /\ IsAt(h, "dispatch")
     /\ m.method = "call"
     /\ IF MayCall(r.surface, r.role, m.tool)
        THEN /\ Proceed(h, [r EXCEPT !.step = "tool"])
             /\ \E outcome \in {"done", "failed"} :
                  Begin(h, CASE m.tool = "read_alert"    -> MarkRead(m.alert, FALSE)
                             [] m.tool = "dismiss_alert" -> Dismiss(m.alert, FALSE)
                             [] OTHER                    -> [NoCall EXCEPT !.step = outcome])
             /\ UNCHANGED <<sessionVars, untold>>
        ELSE Only(h, NextMessage(r))

Subscribed == IsOpen /\ session.initialized /\ "alerts://current" \in session.subscriptions

\* The service works for the request.
Work(h) ==
  /\ IsAt(h, "tool")
  /\ ControlStep(h)
  /\ untold' = IF At(h, "put") /\ call'[h].step = "again" /\ ~call[h].route /\ Subscribed
               THEN untold \cup {h} ELSE untold
  /\ UNCHANGED <<sessionVars, http>>

\* A route answers; a tool that has succeeded is to be published; one that failed
\* is answered with the error, and the batch goes on.
EndWork(h) ==
  LET r == http[h] IN
  /\ IsAt(h, "tool")
  /\ End(h)
  /\ Proceed(h, IF r.surface = "api" THEN NoRequest
                ELSE IF At(h, "done") THEN [r EXCEPT !.step = "publish"]
                ELSE NextMessage(r))
  /\ untold' = IF At(h, "failed") THEN untold \ {h} ELSE untold
  /\ UNCHANGED sessionVars

\* publishMutationNotifications
PublishMutation(h) ==
  LET r == http[h]
      tool == Head(r.rest).tool
  IN /\ IsAt(h, "publish")
     /\ EnqueueMutationNotifications(UpdatedResources(tool), ListChanged(tool))
     /\ untold' = IF Contains(Wanted(UpdatedResources(tool), FALSE), "alerts://current")
                  THEN {} ELSE untold
     /\ Proceed(h, NextMessage(r))
     /\ UNCHANGED controlVars

\* DELETE /mcp
DeleteSession(role) ==
  /\ IsAdmitted("main", role)
  /\ TerminateSession
  /\ untold' = {}
  /\ UNCHANGED <<controlVars, http>>

\* The isolate goes with its requests and its sessions; the store and the object stay.
Evict ==
  /\ IsolateEvicted
  /\ http' = [h \in Handler |-> NoRequest]
  /\ call' = [h \in Handler |-> NoCall]
  /\ torn' = TornBy(Handler)
  /\ untold' = {}
  /\ UNCHANGED <<candidates, states, approvals, overlay, cached, used>>

\* Streams are read, and commands move, while the requests run.
Meanwhile ==
  \/ ReaderStep /\ UNCHANGED <<controlVars, http, untold>>
  \/ \E a \in Alert : CommandMoves(a) /\ UNCHANGED <<sessionVars, http, untold>>

ClientRequest(h) ==
  \/ \E p \in Posting : Post(h, p)
  \/ \E credential \in Credential :
       \/ \E tool \in Tool, a \in Alert :
            PostTool(h, RoleOf(credential), [method |-> "call", tool |-> tool, alert |-> a])
       \/ Route(h, RoleOf(credential))

Serve(h) ==
  \/ Look(h)
  \/ Dispatch(h)
  \/ CallTool(h)
  \/ Work(h)
  \/ EndWork(h)
  \/ PublishMutation(h)

Next ==
  \/ \E h \in Handler : ClientRequest(h) \/ Serve(h)
  \/ \E credential \in Credential : DeleteSession(RoleOf(credential))
  \/ Meanwhile
  \/ Evict

Spec == Init /\ [][Next]_vars
-----------------------------------------------------------------------------
TypeOK ==
  /\ ControlTypeOK
  /\ SessionTypeOK
  /\ http \in [Handler -> Request]
  /\ untold \subseteq Handler

\* catalog.ts:169-172, mcp-router.ts:653-657: when a tool changes an alert, who was
\* subscribed to the alerts then and still is has been told since, or the call is
\* still to tell; only a tool that fails after its write keeps silent.
SubscribersAreTold == \A h \in untold : http[h].step \in {"tool", "publish"}

\* README.md:178-179: alerts and approvals are changed by nobody but operators,
\* through whichever surface, batch or session a request comes.
OnlyOperatorsMutate ==
  [][states' # states \/ approvals' # approvals =>
       \E h \in Handler : http[h].step = "tool" /\ http[h].role = "operator"]_vars
=============================================================================
