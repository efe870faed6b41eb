------------------------------ MODULE ControlState -----------------------------
(***************************************************************************)
(* Alerts and scoped approvals: what the store holds of them, and the copy *)
(* the control-state Durable Object keeps for the console.  A route writes *)
(* the store and then the copy; a tool writes the store alone.             *)
(*                                                                         *)
(* Every store call and every request to the object is one step; handlers  *)
(* interleave in between and may fail at each of them.                     *)
(***************************************************************************)
EXTENDS Naturals, FiniteSets

CONSTANTS
  Handler,      \* concurrent calls
  Alert,        \* alerts, named by their commands
  Approval,     \* ids of scoped approvals
  Grant,        \* what an approval may grant
  NoGrant,      \* the store or the object holds no approval under the id
  NoOverlay,    \* the object holds no state of the alert
  ReadFaults,   \* may the store fail to read a file?
  MaxCalls      \* bound on the number of calls

ASSUME ControlStateAssumption ==
  /\ Alert # {} /\ Alert \cap Approval = {}
  /\ ReadFaults \in BOOLEAN
  /\ NoGrant \notin Grant
  /\ MaxCalls \in Nat

VARIABLES
  candidates,   \* alerts whose command has a status that raises one
  states,       \* Alert -> the alert as the store has it
  approvals,    \* Approval -> what it grants in the store, which the guardrail reads
  overlay,      \* Alert -> the state the object holds
  cached,       \* Approval -> the approval the object holds
  call,         \* what each handler is doing
  used,         \* number of calls, bounded by MaxCalls
  torn          \* history: where overlaps and failures have parted store and object

controlVars == <<candidates, states, approvals, overlay, cached, call, used, torn>>

AlertState == [unread : BOOLEAN, dismissed : BOOLEAN]

\* toAlert without a stored state
Unset == [unread |-> TRUE, dismissed |-> FALSE]

Value == AlertState \cup Grant \cup {NoGrant}

\* route: the object is written too.  value is what is written next; stale: the
\* store was written by another call since this one last read or wrote it, or a
\* read of its file failed.
Call == [op : {"none", "read", "dismiss", "create", "delete"}, route : BOOLEAN,
         step : {"idle", "require", "put", "again", "cache", "done", "failed"},
         id : Alert \cup Approval, value : Value, stale : BOOLEAN]

NoCall == [op |-> "none", route |-> FALSE, step |-> "idle", stale |-> FALSE,
           id |-> CHOOSE a \in Alert : TRUE, value |-> NoGrant]

ControlInit ==
  /\ candidates \in SUBSET Alert
  /\ states = [a \in Alert |-> Unset]
  /\ approvals = [p \in Approval |-> NoGrant]
  /\ overlay = [a \in Alert |-> NoOverlay]
  /\ cached = [p \in Approval |-> NoGrant]
  /\ call = [h \in Handler |-> NoCall]
  /\ used = 0
  /\ torn = {}
-----------------------------------------------------------------------------
MarkRead(a, route) ==
  [NoCall EXCEPT !.op = "read", !.route = route, !.step = "require", !.id = a]

Dismiss(a, route) ==
  [NoCall EXCEPT !.op = "dismiss", !.route = route, !.step = "require", !.id = a]

CreateApproval(p, grant) ==
  [NoCall EXCEPT !.op = "create", !.route = TRUE, !.step = "put", !.id = p, !.value = grant]

DeleteApproval(p) ==
  [NoCall EXCEPT !.op = "delete", !.route = TRUE, !.step = "require", !.id = p]

At(h, step) == call[h].step = step

Set(h, c) == call' = [call EXCEPT ![h] = c]

Become(h, c) ==
  /\ Set(h, c)
  /\ UNCHANGED <<candidates, states, approvals, overlay, cached, used, torn>>

Begin(h, c) ==
  /\ At(h, "idle")
  /\ used < MaxCalls
  /\ used' = used + 1
  /\ Set(h, c)
  /\ UNCHANGED <<candidates, states, approvals, overlay, cached, torn>>

\* The call is answered.
End(h) == (At(h, "done") \/ At(h, "failed")) /\ Become(h, NoCall)

\* The command of an alert gets another status.
CommandMoves(a) ==
  /\ candidates' = IF a \in candidates THEN candidates \ {a} ELSE candidates \cup {a}
  /\ UNCHANGED <<states, approvals, overlay, cached, call, used, torn>>

\* Mutant: the alert is shown as the object has it.
AlertOfOverlay(a) == IF overlay[a] = NoOverlay THEN states[a] ELSE overlay[a]

\* The alert in listLog.
AlertOf(a) == states[a]

\* A state that cannot be read counts as none.
AlertsSeen(a) == {AlertOf(a)} \cup (IF ReadFaults THEN {Unset} ELSE {})

\* requireAlert finds it.
IsFound(a, alert, includeDismissed) ==
  a \in candidates /\ (includeDismissed \/ ~alert.dismissed)

Stored(id) == IF id \in Alert THEN states[id] ELSE approvals[id]

Mine(h, id) == call[h].id = id /\ ~(At(h, "idle") \/ At(h, "failed"))

\* torn, when the calls in hs end here.
TornBy(hs) ==
  torn \cup {call[h].id : h \in {k \in hs : call[k].route /\ call[k].step \in {"again", "cache"}}}

Fail(h) ==
  /\ Set(h, [call[h] EXCEPT !.step = "failed"])
  /\ torn' = TornBy({h})
  /\ UNCHANGED <<candidates, states, approvals, overlay, cached, used>>

RequireAlert(h) ==
  LET c == call[h] IN
  /\ At(h, "require")
  /\ c.id \in Alert
  /\ \E alert \in AlertsSeen(c.id) :
       IF IsFound(c.id, alert, FALSE)
       THEN Become(h, [c EXCEPT !.step = "put", !.stale = alert # AlertOf(c.id),
                                !.value = [unread |-> FALSE,
                                           dismissed |-> c.op = "dismiss" \/ alert.dismissed]])
       ELSE Fail(h)

RequireApproval(h) ==
  LET c == call[h] IN
  /\ At(h, "require")
  /\ c.id \in Approval
  /\ IF approvals[c.id] # NoGrant
     THEN Become(h, [c EXCEPT !.step = "put", !.value = NoGrant])
     ELSE Fail(h)

\* The step after the store has been written.
AfterPut(c) == IF c.id \in Alert THEN "again" ELSE "cache"

Put(h) ==
  LET c == call[h] IN
  /\ At(h, "put")
  /\ IF c.id \in Alert
     THEN states' = [states EXCEPT ![c.id] = c.value] /\ UNCHANGED approvals
     ELSE approvals' = [approvals EXCEPT ![c.id] = c.value] /\ UNCHANGED states
  /\ call' = [k \in Handler |->
                IF k = h THEN [c EXCEPT !.step = AfterPut(c), !.stale = FALSE]
                ELSE [call[k] EXCEPT !.stale = @ \/ Mine(k, c.id)]]
  /\ torn' = IF c.route THEN torn ELSE torn \cup {c.id}
  /\ UNCHANGED <<candidates, overlay, cached, used>>

\* The alert is read again, for the answer and for the object.
Again(h) ==
  LET c == call[h] IN
  /\ At(h, "again")
  /\ \E alert \in AlertsSeen(c.id) :
       IF IsFound(c.id, alert, c.op = "dismiss")
       THEN Become(h, [c EXCEPT !.step = IF c.route THEN "cache" ELSE "done",
                                !.value = alert, !.stale = alert # AlertOf(c.id)])
       ELSE Fail(h)

\* Mutant: a deleted approval stays in the object.
CachedValueKept(c) == IF c.op = "delete" THEN cached[c.id] ELSE c.value

\* Mutant: a deletion stores an empty record.
CachedValueEmpty(c) == IF c.op = "delete" THEN Unset ELSE c.value

CachedValue(c) == c.value

Cache(h) ==
  LET c == call[h] IN
  /\ At(h, "cache")
  /\ IF c.id \in Alert
     THEN overlay' = [overlay EXCEPT ![c.id] = CachedValue(c)] /\ UNCHANGED cached
     ELSE cached' = [cached EXCEPT ![c.id] = CachedValue(c)] /\ UNCHANGED overlay
  /\ torn' = IF c.value = Stored(c.id) THEN torn \ {c.id}
             ELSE IF c.stale THEN torn \cup {c.id} ELSE torn
  /\ Set(h, [c EXCEPT !.step = "done"])
  /\ UNCHANGED <<candidates, states, approvals, used>>

\* The store or the object throws, or a command or approval that cannot be read
\* is not found.
Throws(h) == call[h].step \in {"require", "put", "again", "cache"} /\ Fail(h)

ControlStep(h) ==
  RequireAlert(h) \/ RequireApproval(h) \/ Put(h) \/ Again(h) \/ Cache(h) \/ Throws(h)

\* The Worker is evicted in the middle of a call.
Evicted(h) ==
  /\ ~At(h, "idle")
  /\ Set(h, NoCall)
  /\ torn' = TornBy({h})
  /\ UNCHANGED <<candidates, states, approvals, overlay, cached, used>>

RouteCall(h) ==
  \/ \E a \in Alert : Begin(h, MarkRead(a, TRUE)) \/ Begin(h, Dismiss(a, TRUE))
  \/ \E p \in Approval :
       \/ \E grant \in Grant : Begin(h, CreateApproval(p, grant))
       \/ Begin(h, DeleteApproval(p))

ToolCall(h) ==
  \E a \in Alert : Begin(h, MarkRead(a, FALSE)) \/ Begin(h, Dismiss(a, FALSE))

ControlNext ==
  \/ \E h \in Handler : RouteCall(h) \/ ToolCall(h) \/ ControlStep(h) \/ End(h) \/ Evicted(h)
  \/ \E a \in Alert : CommandMoves(a)

ControlSpec == ControlInit /\ [][ControlNext]_controlVars
-----------------------------------------------------------------------------
ControlTypeOK ==
  /\ candidates \subseteq Alert
  /\ states \in [Alert -> AlertState]
  /\ approvals \in [Approval -> Grant \cup {NoGrant}]
  /\ overlay \in [Alert -> AlertState \cup {NoOverlay}]
  /\ cached \in [Approval -> Grant \cup {NoGrant}]
  /\ call \in [Handler -> Call]
  /\ used \in 0..MaxCalls
  /\ torn \subseteq Alert \cup Approval

\* README.md:289, "approval-scope and alert-unread coordination through
\* `CONTROL_STATE`": when no call is at work on it, the console is shown the
\* approval the guardrail honours and the alert state the store has, unless calls
\* overlapped, one failed between its two writes, the store could not be read, or a
\* tool wrote it.  The next undisturbed call of a route repairs it.
ConsoleShowsTheStore ==
  \A id \in Alert \cup Approval :
    id \notin torn /\ (\A h \in Handler : ~Mine(h, id)) =>
      IF id \in Alert THEN overlay[id] \in {NoOverlay, states[id]}
                      ELSE cached[id] = approvals[id]

\* list-alerts.service.ts:47-56: a dismissed alert comes back only by a markRead
\* that found it before it was dismissed, or could not read that it was.
DismissalIsFinal ==
  [][\A a \in Alert : states[a].dismissed /\ ~states'[a].dismissed =>
       \E h \in Handler : At(h, "put") /\ call[h].op = "read" /\ call[h].stale]_controlVars
=============================================================================
