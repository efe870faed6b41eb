--------------------------- MODULE ControlState_proofs --------------------------
(***************************************************************************)
(* Proofs about ControlState, for any number of handlers, alerts and       *)
(* approvals.  The inductive invariant IInv says what a call in progress   *)
(* knows of the store, and that a part of the console that differs from    *)
(* the store is one a route is still to write.  Most steps only move one   *)
(* call on, which MoveKeeps covers once and for all.                       *)
(***************************************************************************)
EXTENDS ControlState, TLAPS

\* What a call writes fits what it is written to.
Fits(c) == IF c.id \in Alert THEN c.value \in AlertState ELSE c.value \in Grant \cup {NoGrant}

CallInv(c) ==
  /\ c.op \in {"read", "dismiss"} => c.id \in Alert
  /\ c.op \in {"create", "delete"} => c.id \in Approval
  /\ c.step \in {"require", "put", "again", "cache"} => c.op # "none"
  /\ c.step = "require" => c.op # "create"
  /\ c.step = "again" => c.id \in Alert
  /\ c.step \in {"put", "cache"} => Fits(c)

\* A write that nobody got ahead of keeps a dismissal, and what is written to the
\* object is what the store has.
Fresh(c) ==
  /\ c.step = "put" /\ c.op = "dismiss" => c.value.dismissed
  /\ c.step = "put" /\ c.op = "read" /\ ~c.stale =>
       (states[c.id].dismissed => c.value.dismissed)
  /\ c.step = "cache" /\ ~c.stale => c.value = Stored(c.id)

Synced(id) == IF id \in Alert THEN overlay[id] \in {NoOverlay, states[id]}
                              ELSE cached[id] = approvals[id]

\* c is still to write the object for id.
Repairs(c, id) == c.id = id /\ c.route /\ c.step \in {"again", "cache"}

Repaired ==
  \A id \in Alert \cup Approval :
    id \in torn \/ Synced(id) \/ \E h \in Handler : Repairs(call[h], id)

IInv ==
  /\ ControlTypeOK
  /\ \A h \in Handler : CallInv(call[h]) /\ Fresh(call[h])
  /\ Repaired
-----------------------------------------------------------------------------
\* The call at rest is a legal one.
LEMMA Rest == NoCall \in Call /\ CallInv(NoCall) /\ Fresh(NoCall)
<1>1. (CHOOSE a \in Alert : TRUE) \in Alert
  BY ControlStateAssumption
<1>2. NoCall \in Call
  BY <1>1 DEF NoCall, Call, Value
<1> QED
  BY <1>2 DEF NoCall, CallInv, Fresh

\* The initial states satisfy the invariant: nothing is dismissed or cached.
LEMMA Starts == ControlInit => IInv
<1> SUFFICES ASSUME ControlInit PROVE IInv
  OBVIOUS
<1> USE DEF ControlInit
<1>1. ControlTypeOK
  BY Rest, ControlStateAssumption DEF ControlTypeOK, AlertState, Unset
<1>2. \A h \in Handler : CallInv(call[h]) /\ Fresh(call[h])
  BY Rest
<1>3. Repaired
  BY ControlStateAssumption DEF Repaired, Synced
<1> QED
  BY <1>1, <1>2, <1>3 DEF IInv

\* A step that moves the call of h on and leaves store and object alone keeps the
\* invariant, when the call it becomes is legal and does not drop a repair
\* without a mark.
LEMMA MoveKeeps ==
  ASSUME IInv, NEW h \in Handler, NEW c \in Call, CallInv(c), Fresh(c),
         call' = [call EXCEPT ![h] = c],
         UNCHANGED <<candidates, states, approvals, overlay, cached>>,
         used' \in 0..MaxCalls,
         torn \subseteq torn', torn' \subseteq Alert \cup Approval,
         \A id \in Alert \cup Approval :
           Repairs(call[h], id) => id \in torn' \/ Repairs(c, id)
  PROVE  IInv'
<1> USE DEF IInv
<1>1. ControlTypeOK'
  BY DEF ControlTypeOK
<1>2. \A g \in Handler : call'[g] = IF g = h THEN c ELSE call[g]
  BY DEF ControlTypeOK
<1>3. ASSUME NEW g \in Handler PROVE CallInv(call'[g]) /\ Fresh(call'[g])
  BY <1>2
<1>4. ASSUME NEW g \in Handler PROVE (CallInv(call[g]) /\ Fresh(call[g]))'
  BY <1>3 DEF CallInv, Fits, Fresh, Stored
<1>5. Repaired'
  <2> SUFFICES ASSUME NEW id \in Alert \cup Approval, id \notin torn', ~Synced(id)'
               PROVE  \E g \in Handler : Repairs(call'[g], id)
    BY DEF Repaired, Repairs
  <2>1. ~Synced(id) /\ id \notin torn
    BY DEF Synced
  <2>2. PICK g \in Handler : Repairs(call[g], id)
    BY <2>1 DEF Repaired
  <2> QED
    BY <1>2, <2>2
<1> QED
  BY <1>1, <1>4, <1>5

\* A call that ends is marked if it was to write the object.
LEMMA EndKeeps ==
  ASSUME IInv, NEW h \in Handler, NEW c \in {NoCall, [call[h] EXCEPT !.step = "failed"]},
         call' = [call EXCEPT ![h] = c],
         UNCHANGED <<candidates, states, approvals, overlay, cached, used>>,
         torn' = TornBy({h})
  PROVE  IInv'
<1>1. call[h] \in Call /\ CallInv(call[h])
  BY DEF IInv, ControlTypeOK
<1>2. c \in Call /\ CallInv(c) /\ Fresh(c)
  BY <1>1, Rest DEF Call, CallInv, Fresh
<1>3. torn \subseteq torn' /\ torn' \subseteq Alert \cup Approval /\ used' \in 0..MaxCalls
  BY <1>1 DEF TornBy, IInv, ControlTypeOK, Call
<1>4. \A id \in Alert \cup Approval : Repairs(call[h], id) => id \in torn'
  BY DEF TornBy, Repairs
<1> QED
  BY <1>2, <1>3, <1>4, MoveKeeps

\* MoveKeeps for the steps that change nothing but the call.
LEMMA BecomeKeeps ==
  ASSUME IInv, NEW h \in Handler, NEW c \in Call, CallInv(c), Fresh(c), Become(h, c),
         \A id \in Alert \cup Approval : Repairs(call[h], id) => Repairs(c, id)
  PROVE  IInv'
<1> USE DEF Become, Set
<1>1. used' \in 0..MaxCalls /\ torn \subseteq torn' /\ torn' \subseteq Alert \cup Approval
  BY DEF IInv, ControlTypeOK
<1> QED
  BY <1>1, MoveKeeps
-----------------------------------------------------------------------------
(***************************************************************************)
(* The steps, one lemma for each kind.                                     *)
(***************************************************************************)
LEMMA BeginsKeep ==
  ASSUME IInv, NEW h \in Handler, NEW c \in Call, CallInv(c), Fresh(c), Begin(h, c)
  PROVE  IInv'
<1>1. used' \in 0..MaxCalls
  BY ControlStateAssumption DEF Begin, IInv, ControlTypeOK
<1>2. torn \subseteq torn' /\ torn' \subseteq Alert \cup Approval
  BY DEF Begin, IInv, ControlTypeOK
<1>3. \A id \in Alert \cup Approval : ~Repairs(call[h], id)
  BY DEF Begin, At, Repairs
<1> QED
  BY <1>1, <1>2, <1>3, MoveKeeps DEF Begin, Set

\* A call that begins knows nothing of the store yet.
LEMMA BeginKeeps ==
  ASSUME IInv, NEW h \in Handler, RouteCall(h) \/ ToolCall(h)
  PROVE  IInv'
<1> DEFINE Legal(c) == c \in Call /\ CallInv(c) /\ Fresh(c)
<1>1. SUFFICES \E c : Legal(c) /\ Begin(h, c)
  BY BeginsKeep
<1>2. ASSUME NEW a \in Alert, NEW route \in BOOLEAN,
             NEW c \in {MarkRead(a, route), Dismiss(a, route)}
      PROVE  Legal(c)
  BY Rest DEF MarkRead, Dismiss, NoCall, Call, CallInv, Fresh
<1>3. ASSUME NEW p \in Approval PROVE Legal(DeleteApproval(p))
  BY Rest DEF DeleteApproval, NoCall, Call, CallInv, Fresh
<1>4. ASSUME NEW p \in Approval, NEW grant \in Grant PROVE Legal(CreateApproval(p, grant))
  <2>1. p \notin Alert /\ grant \in Value
    BY ControlStateAssumption DEF Value
  <2> QED
    BY <2>1, Rest DEF CreateApproval, NoCall, Call, CallInv, Fresh, Fits
<1> HIDE DEF Legal
<1> QED
  BY <1>2, <1>3, <1>4 DEF RouteCall, ToolCall

\* What is seen of an alert has its type.
LEMMA AlertTypes ==
  ASSUME IInv, NEW a \in Alert, NEW alert \in AlertsSeen(a)
  PROVE  alert \in AlertState /\ AlertOf(a) = states[a]
<1>1. states[a] \in AlertState /\ Unset \in AlertState
  BY DEF IInv, ControlTypeOK, AlertState, Unset
<1>2. alert \in {states[a], Unset}
  BY DEF AlertsSeen, AlertOf
<1> QED
  BY <1>1, <1>2 DEF AlertOf

\* What is to be written is decided on what the store has now, or is stale.
LEMMA RequireAlertKeeps ==
  ASSUME IInv, NEW h \in Handler, RequireAlert(h)
  PROVE  IInv'
<1> DEFINE c == call[h]
           value(alert) == [unread |-> FALSE, dismissed |-> c.op = "dismiss" \/ alert.dismissed]
           next(alert) == [c EXCEPT !.step = "put", !.stale = alert # AlertOf(c.id),
                                    !.value = value(alert)]
<1>1. CASE Fail(h)
  BY <1>1, EndKeeps DEF Fail, Set
<1>2. ASSUME NEW alert \in AlertsSeen(c.id), Become(h, next(alert)) PROVE IInv'
  <2>1. c \in Call /\ CallInv(c) /\ c.step = "require" /\ c.id \in Alert
    BY DEF IInv, ControlTypeOK, RequireAlert, At
  <2>2. alert \in AlertState /\ AlertOf(c.id) = states[c.id]
    BY <2>1, AlertTypes
  <2>3. c.op \in {"read", "dismiss"}
    BY <2>1, ControlStateAssumption DEF CallInv, Call
  <2>4. /\ value(alert) \in AlertState
        /\ value(alert).dismissed = (c.op = "dismiss" \/ alert.dismissed)
    BY <2>2 DEF AlertState
  <2>5. /\ next(alert) \in Call
        /\ next(alert).step = "put" /\ next(alert).op = c.op /\ next(alert).id = c.id
        /\ next(alert).value = value(alert) /\ next(alert).stale = (alert # AlertOf(c.id))
    BY <2>1, <2>4 DEF Call, Value
  <2> HIDE DEF next, value
  <2>6. CallInv(next(alert))
    BY <2>1, <2>3, <2>4, <2>5 DEF CallInv, Fits
  <2>7. Fresh(next(alert))
    BY <2>2, <2>4, <2>5 DEF Fresh
  <2>8. \A id \in Alert \cup Approval : ~Repairs(call[h], id)
    BY <2>1 DEF Repairs
  <2> QED
    BY <1>2, <2>5, <2>6, <2>7, <2>8, BecomeKeeps
<1> QED
  BY <1>1, <1>2 DEF RequireAlert

LEMMA RequireApprovalKeeps ==
  ASSUME IInv, NEW h \in Handler, RequireApproval(h)
  PROVE  IInv'
<1> DEFINE c == call[h]
           next == [c EXCEPT !.step = "put", !.value = NoGrant]
<1>1. CASE Fail(h)
  BY <1>1, EndKeeps DEF Fail, Set
<1>2. CASE Become(h, next)
  <2>1. c \in Call /\ CallInv(c) /\ c.step = "require" /\ c.id \in Approval
    BY DEF IInv, ControlTypeOK, RequireApproval, At
  <2>2. c.op = "delete" /\ c.id \notin Alert
    BY <2>1, ControlStateAssumption DEF CallInv, Call
  <2>3. /\ next \in Call /\ next.step = "put" /\ next.op = c.op /\ next.id = c.id
        /\ next.value = NoGrant
    BY <2>1 DEF Call, Value
  <2> HIDE DEF next
  <2>4. CallInv(next) /\ Fresh(next)
    BY <2>1, <2>2, <2>3 DEF CallInv, Fits, Fresh
  <2>5. \A id \in Alert \cup Approval : ~Repairs(call[h], id)
    BY <2>1 DEF Repairs
  <2> QED
    BY <1>2, <2>3, <2>4, <2>5, BecomeKeeps
<1> QED
  BY <1>1, <1>2 DEF RequireApproval

\* A written record makes the other calls at work on it stale, and the call that
\* wrote it is to repair the object.
LEMMA PutKeeps ==
  ASSUME IInv, NEW h \in Handler, Put(h)
  PROVE  IInv'
<1> DEFINE c == call[h]
           next(g) == IF g = h THEN [c EXCEPT !.step = AfterPut(c), !.stale = FALSE]
                      ELSE [call[g] EXCEPT !.stale = @ \/ Mine(g, c.id)]
<1>1. /\ \A g \in Handler : call[g] \in Call /\ CallInv(call[g]) /\ Fresh(call[g])
      /\ c.step = "put" /\ Fits(c) /\ c.id \in Alert \cup Approval
  BY DEF IInv, ControlTypeOK, Put, At, CallInv, Call
<1>2. \A g \in Handler : call'[g] = next(g)
  BY DEF Put
<1>3. ASSUME NEW g \in Handler, g # h
      PROVE  /\ next(g) \in Call
             /\ next(g).op = call[g].op /\ next(g).step = call[g].step
             /\ next(g).id = call[g].id /\ next(g).value = call[g].value
             /\ next(g).route = call[g].route
             /\ next(g).stale = (call[g].stale \/ Mine(g, c.id))
  BY <1>1, <1>3 DEF Call, Mine, At
<1>4. /\ next(h) \in Call
      /\ next(h).op = c.op /\ next(h).step = AfterPut(c) /\ next(h).id = c.id
      /\ next(h).value = c.value /\ next(h).route = c.route /\ ~next(h).stale
  BY <1>1 DEF Call, AfterPut
<1>5. /\ c.id \in Alert => states' = [states EXCEPT ![c.id] = c.value] /\ approvals' = approvals
      /\ c.id \notin Alert => approvals' = [approvals EXCEPT ![c.id] = c.value] /\ states' = states
      /\ torn' = IF c.route THEN torn ELSE torn \cup {c.id}
      /\ UNCHANGED <<candidates, overlay, cached, used>>
  BY DEF Put
<1>6. ControlTypeOK'
  <2>1. call' \in [Handler -> Call]
    BY <1>2, <1>3, <1>4 DEF Put
  <2>2. states' \in [Alert -> AlertState] /\ approvals' \in [Approval -> Grant \cup {NoGrant}]
    BY <1>1, <1>5 DEF IInv, ControlTypeOK, Fits
  <2> QED
    BY <1>1, <1>5, <2>1, <2>2 DEF IInv, ControlTypeOK
<1>7. /\ \A id \in Alert : id # c.id => states'[id] = states[id]
      /\ \A id \in Approval : id # c.id => approvals'[id] = approvals[id]
      /\ c.id \in Approval => approvals'[c.id] = c.value
  BY <1>5, <1>1, ControlStateAssumption DEF IInv, ControlTypeOK
<1> HIDE DEF next
<1>8. ASSUME NEW g \in Handler, NEW x, x = next(g) PROVE CallInv(x) /\ Fresh(x)'
  <2>1. CASE g = h
    <3>1. CallInv(x)
      BY <1>1, <1>4, <1>8, <2>1 DEF CallInv, Fits, AfterPut
    <3>2. Fresh(x)'
      BY <1>1, <1>4, <1>7, <1>8, <2>1 DEF Fresh, AfterPut, Stored
    <3> QED
      BY <3>1, <3>2
  <2>2. CASE g # h
    <3>1. CallInv(x)
      BY <1>1, <1>3, <1>8, <2>2 DEF CallInv, Fits
    <3>2. Fresh(x)'
      <4>1. CASE call[g].step \in {"put", "cache"} /\ call[g].id = c.id
        <5>1. x.stale
          BY <1>3, <1>8, <2>2, <4>1 DEF Mine, At
        <5> QED
          BY <1>1, <1>3, <1>8, <2>2, <5>1 DEF Fresh
      <4>2. CASE call[g].step \in {"put", "cache"} /\ call[g].id # c.id
        <5>1. \A id \in Alert \cup Approval : id # c.id => Stored(id)' = Stored(id)
          BY <1>7 DEF Stored
        <5>2. x.id \in Alert \cup Approval /\ x.id # c.id
          BY <1>1, <1>3, <1>8, <2>2, <4>2 DEF Call
        <5>3. x.op = "read" => x.id \in Alert
          BY <1>1, <1>3, <1>8, <2>2 DEF CallInv
        <5>4. Fresh(x)
          BY <1>1, <1>3, <1>8, <2>2, <4>2 DEF Fresh, Call, Mine
        <5> QED
          BY <1>7, <5>1, <5>2, <5>3, <5>4 DEF Fresh
      <4>3. CASE call[g].step \notin {"put", "cache"}
        BY <1>3, <1>8, <2>2, <4>3 DEF Fresh
      <4> QED
        BY <4>1, <4>2, <4>3
    <3> QED
      BY <3>1, <3>2
  <2> QED
    BY <2>1, <2>2
<1>9. ASSUME NEW g \in Handler PROVE (CallInv(call[g]) /\ Fresh(call[g]))'
  BY <1>2, <1>8 DEF CallInv, Fits, Fresh, Stored
<1>10. Repaired'
  <2> SUFFICES ASSUME NEW id \in Alert \cup Approval, id \notin torn', ~Synced(id)'
               PROVE  \E g \in Handler : Repairs(call'[g], id)
    BY DEF Repaired, Repairs
  <2>1. CASE id = c.id
    <3>1. c.route
      BY <1>5, <2>1
    <3> QED
      BY <1>2, <1>4, <2>1, <3>1 DEF Repairs, AfterPut
  <2>2. CASE id # c.id
    <3>1. id \notin torn /\ ~Synced(id)
      BY <1>5, <1>7, <2>2 DEF Synced
    <3>2. PICK g \in Handler : Repairs(call[g], id)
      BY <3>1 DEF IInv, Repaired
    <3>3. g # h
      BY <1>1, <3>2 DEF Repairs
    <3> QED
      BY <1>2, <1>3, <3>2, <3>3 DEF Repairs
  <2> QED
    BY <2>1, <2>2
<1> QED
  BY <1>6, <1>9, <1>10 DEF IInv

\* What Again hands on to Cache is what the store has then, or is stale.
LEMMA AgainKeeps ==
  ASSUME IInv, NEW h \in Handler, Again(h)
  PROVE  IInv'
<1> DEFINE c == call[h]
           next(alert) == [c EXCEPT !.step = IF c.route THEN "cache" ELSE "done",
                                    !.value = alert, !.stale = alert # AlertOf(c.id)]
<1>1. CASE Fail(h)
  BY <1>1, EndKeeps DEF Fail, Set
<1>2. ASSUME NEW alert \in AlertsSeen(c.id), Become(h, next(alert)) PROVE IInv'
  <2>1. c \in Call /\ CallInv(c) /\ c.step = "again" /\ c.id \in Alert
    BY DEF IInv, ControlTypeOK, Again, At, CallInv
  <2>2. alert \in AlertState /\ AlertOf(c.id) = states[c.id]
    BY <2>1, AlertTypes
  <2>3. /\ next(alert) \in Call
        /\ next(alert).op = c.op /\ next(alert).id = c.id /\ next(alert).route = c.route
        /\ next(alert).step = (IF c.route THEN "cache" ELSE "done")
        /\ next(alert).value = alert /\ next(alert).stale = (alert # AlertOf(c.id))
    BY <2>1, <2>2 DEF Call, Value
  <2> HIDE DEF next
  <2>4. CallInv(next(alert)) /\ Fresh(next(alert))
    BY <2>1, <2>2, <2>3 DEF CallInv, Fits, Fresh, Stored
  <2>5. \A id \in Alert \cup Approval : Repairs(c, id) => Repairs(next(alert), id)
    BY <2>3 DEF Repairs
  <2> QED
    BY <1>2, <2>3, <2>4, <2>5, BecomeKeeps
<1> QED
  BY <1>1, <1>2 DEF Again

\* The object then has what the store has, unless the call was overtaken, and
\* then it is marked.
LEMMA CacheKeeps ==
  ASSUME IInv, NEW h \in Handler, Cache(h)
  PROVE  IInv'
<1> DEFINE c == call[h]
           next == [c EXCEPT !.step = "done"]
<1>1. /\ c \in Call /\ CallInv(c) /\ Fresh(c) /\ Fits(c)
      /\ c.step = "cache" /\ c.id \in Alert \cup Approval
  BY DEF IInv, ControlTypeOK, Cache, At, CallInv, Call
<1>2. /\ next \in Call /\ CallInv(next) /\ Fresh(next)
      /\ \A id : ~Repairs(next, id)
  BY <1>1 DEF Call, CallInv, Fresh, Repairs
<1>3. /\ c.id \in Alert => overlay' = [overlay EXCEPT ![c.id] = c.value] /\ cached' = cached
      /\ c.id \notin Alert => cached' = [cached EXCEPT ![c.id] = c.value] /\ overlay' = overlay
      /\ torn' = IF c.value = Stored(c.id) THEN torn \ {c.id}
                 ELSE IF c.stale THEN torn \cup {c.id} ELSE torn
      /\ call' = [call EXCEPT ![h] = next]
      /\ UNCHANGED <<candidates, states, approvals, used>>
  BY DEF Cache, CachedValue, Set
<1> HIDE DEF next
<1>4. ControlTypeOK'
  <2>1. overlay' \in [Alert -> AlertState \cup {NoOverlay}] /\ cached' \in [Approval -> Grant \cup {NoGrant}]
    BY <1>1, <1>3 DEF IInv, ControlTypeOK, Fits
  <2> QED
    BY <1>1, <1>2, <1>3, <2>1 DEF IInv, ControlTypeOK
<1>5. \A g \in Handler : call'[g] = IF g = h THEN next ELSE call[g]
  BY <1>3 DEF IInv, ControlTypeOK
<1>6. ASSUME NEW g \in Handler PROVE (CallInv(call[g]) /\ Fresh(call[g]))'
  <2>1. CallInv(call'[g]) /\ Fresh(call'[g])
    BY <1>2, <1>5 DEF IInv
  <2> QED
    BY <1>3, <2>1 DEF CallInv, Fits, Fresh, Stored
<1>7. Repaired'
  <2> SUFFICES ASSUME NEW id \in Alert \cup Approval, id \notin torn', ~Synced(id)'
               PROVE  \E g \in Handler : Repairs(call'[g], id)
    BY DEF Repaired, Repairs
  <2>1. CASE id = c.id
    <3>1. c.value = Stored(c.id)
      BY <1>1, <1>3, <2>1 DEF Fresh
    <3>2. Synced(id)'
      BY <1>1, <1>3, <2>1, <3>1 DEF Synced, Stored, IInv, ControlTypeOK
    <3> QED
      BY <3>2
  <2>2. CASE id # c.id
    <3>1. id \notin torn /\ ~Synced(id)
      BY <1>1, <1>3, <2>2, ControlStateAssumption DEF Synced, IInv, ControlTypeOK
    <3>2. PICK g \in Handler : Repairs(call[g], id)
      BY <3>1 DEF IInv, Repaired
    <3> QED
      BY <1>5, <2>2, <3>2 DEF Repairs
  <2> QED
    BY <2>1, <2>2
<1> QED
  BY <1>4, <1>6, <1>7 DEF IInv

\* The status of a command says nothing of store and object.
LEMMA CommandMovesKeeps ==
  ASSUME IInv, NEW a \in Alert, CommandMoves(a)
  PROVE  IInv'
<1> USE DEF IInv, CommandMoves
<1>1. ControlTypeOK'
  BY DEF ControlTypeOK
<1>2. \A h \in Handler : (CallInv(call[h]) /\ Fresh(call[h]))'
  BY DEF CallInv, Fits, Fresh, Stored
<1>3. Repaired'
  BY DEF Repaired, Synced, Repairs
<1> QED
  BY <1>1, <1>2, <1>3

LEMMA ControlStepKeeps ==
  ASSUME IInv, NEW h \in Handler, ControlStep(h)
  PROVE  IInv'
<1>1. CASE Throws(h)
  BY <1>1, EndKeeps DEF Throws, Fail, Set
<1> QED
  BY <1>1, RequireAlertKeeps, RequireApprovalKeeps, PutKeeps, AgainKeeps, CacheKeeps DEF ControlStep

LEMMA AnswerKeeps ==
  ASSUME IInv, NEW h \in Handler, End(h)
  PROVE  IInv'
<1>1. \A id \in Alert \cup Approval : ~Repairs(call[h], id)
  BY DEF End, At, Repairs
<1> QED
  BY <1>1, Rest, BecomeKeeps DEF End

LEMMA StutterKeeps ==
  ASSUME IInv, UNCHANGED controlVars
  PROVE  IInv'
<1> USE DEF controlVars, IInv
<1>1. ControlTypeOK'
  BY DEF ControlTypeOK
<1>2. \A h \in Handler : (CallInv(call[h]) /\ Fresh(call[h]))'
  BY DEF CallInv, Fits, Fresh, Stored
<1>3. Repaired'
  BY DEF Repaired, Synced, Repairs
<1> QED
  BY <1>1, <1>2, <1>3

LEMMA StepKeeps ==
  ASSUME IInv, ControlNext
  PROVE  IInv'
<1>1. CASE \E a \in Alert : CommandMoves(a)
  BY <1>1, CommandMovesKeeps
<1>2. ASSUME NEW h \in Handler, RouteCall(h) \/ ToolCall(h) PROVE IInv'
  BY <1>2, BeginKeeps
<1>3. ASSUME NEW h \in Handler, Evicted(h) PROVE IInv'
  BY <1>3, EndKeeps DEF Evicted, Set
<1> QED
  BY <1>1, <1>2, <1>3, ControlStepKeeps, AnswerKeeps DEF ControlNext

LEMMA Invariance == ControlSpec => []IInv
<1>1. IInv /\ [ControlNext]_controlVars => IInv'
  BY StutterKeeps, StepKeeps
<1> QED
  BY <1>1, Starts, PTL DEF ControlSpec
-----------------------------------------------------------------------------
\* Every variable keeps to its type.
THEOREM ControlTypes == ControlSpec => []ControlTypeOK
BY Invariance, PTL DEF IInv

\* The console is shown what the store has, however the calls of routes and tools
\* overlap and fail: approvals.route.ts:39-45, alerts.route.ts:11-30.
THEOREM ConsoleIsCurrent == ControlSpec => []ConsoleShowsTheStore
<1>1. IInv => ConsoleShowsTheStore
  BY DEF IInv, Repaired, Synced, Repairs, ConsoleShowsTheStore, Mine, At
<1> QED
  BY <1>1, Invariance, PTL

\* The writer that takes a dismissal back is a markRead that was overtaken.
LEMMA Undoing ==
  ASSUME IInv, NEW h \in Handler, Put(h), NEW a \in Alert,
         states[a].dismissed, ~states'[a].dismissed
  PROVE  At(h, "put") /\ call[h].op = "read" /\ call[h].stale
<1>1. /\ call[h] \in Call /\ CallInv(call[h]) /\ Fresh(call[h])
      /\ call[h].step = "put" /\ states \in [Alert -> AlertState]
  BY DEF IInv, ControlTypeOK, Put, At
<1>2. call[h].id = a /\ call[h].value = states'[a]
  BY <1>1 DEF Put
<1>3. call[h].op = "read"
  BY <1>1, <1>2, ControlStateAssumption DEF CallInv, Fresh, Call
<1> QED
  BY <1>1, <1>2, <1>3 DEF Fresh, At

\* Only a markRead that was overtaken takes a dismissal back:
\* list-alerts.service.ts:47-67.
THEOREM DismissalsStay == ControlSpec => DismissalIsFinal
<1> DEFINE Kept == \A a \in Alert : states[a].dismissed /\ ~states'[a].dismissed =>
                     \E h \in Handler : At(h, "put") /\ call[h].op = "read" /\ call[h].stale
<1>1. ASSUME IInv, ControlNext PROVE Kept
  <2> SUFFICES ASSUME NEW a \in Alert, states[a].dismissed, ~states'[a].dismissed
               PROVE  \E h \in Handler : Put(h)
    BY <1>1, Undoing
  <2> QED
    BY <1>1 DEF ControlNext, RouteCall, ToolCall, ControlStep, Begin, Become, End, Evicted,
                RequireAlert, RequireApproval, Again, Cache, Throws, Fail, CommandMoves
<1>2. IInv /\ [ControlNext]_controlVars => [Kept]_controlVars
  BY <1>1
<1> QED
  BY <1>2, Invariance, PTL DEF ControlSpec, DismissalIsFinal, Kept
=============================================================================
