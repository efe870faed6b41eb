------------------------- MODULE OperatorRequest_proofs -------------------------
(***************************************************************************)
(* Proofs about OperatorRequest, for any number of handlers, requests and  *)
(* orchestrators, every set of updates and any of the failures.  The       *)
(* inductive invariant IInv adds to the type invariant what a call in      *)
(* progress has decided, and that a request open for claims is granted to  *)
(* nobody.  All steps but Put only move one call on (MoveKeeps).           *)
(***************************************************************************)
EXTENDS OperatorRequest, FiniteSetTheorems, TLAPS

\* What a call at each of its steps has decided.
CallInv(c) ==
  /\ c.step \in {"get", "put"} => c.op # "none"
  /\ c.step = "get" => c.op # "submit"
  /\ c.step \in {"list", "next"} => c.op = "sync"
  /\ c.op \in {"claim", "heartbeat"} => c.owner \in Owner
  /\ c.op \in {"status", "exhaust"} => c.status \in Status
  /\ c.op = "exhaust" => c.status = "failed"
  /\ c.op = "sync" /\ c.step # "list" =>
       /\ c.status \in Status
       /\ \A l \in c.todo : l.record.status \notin Finished
  /\ c.op = "sync" /\ c.step \in {"get", "put"} => c.listed.status \notin Finished
  /\ c.step = "put" => IF c.op = "submit" THEN c.next.owner = NoOwner
                       ELSE ~Refused(c, c.base) /\ c.next = Saved(c, c.base)

BagOK(B) == IsABag(B) /\ BagToSet(B) \subseteq Message

\* A request that is open for claims is granted to nobody.
OpenIsFree ==
  \A r \in RequestId :
    ~undone[r] /\ requests[r].status \in Claimable => grants[r] = {}

IInv ==
  /\ TypeOK
  /\ \A h \in Handler : CallInv(call[h])
  /\ OwnerIsLastHolder
  /\ OpenIsFree
  /\ DoubleClaimOnlyUnseen
-----------------------------------------------------------------------------
(***************************************************************************)
(* Records, bags, and the call at rest.                                    *)
(***************************************************************************)
LEMMA Rest == AnyRequest \in RequestId /\ NoRecord \in Record /\ NoCall \in Call /\ CallInv(NoCall)
<1>1. AnyRequest \in RequestId
  BY OperatorRequestAssumption DEF AnyRequest
<1>2. NoRecord \in Record
  BY DEF NoRecord, Record
<1>3. NoCall \in Call
  BY <1>1, <1>2, OperatorRequestAssumption DEF NoCall, Call, Op
<1> QED
  BY <1>1, <1>2, <1>3 DEF NoCall, CallInv

\* What is written back is a record, and has the owner it had unless the call is
\* one that gives it another.
LEMMA SavedRecord ==
  ASSUME NEW c \in Call, NEW rec \in Record, CallInv(c), c.step \in {"get", "put"},
         c.op # "submit"
  PROVE  /\ Saved(c, rec) \in Record
         /\ Saved(c, rec).owner = IF c.op \in {"claim", "heartbeat"} THEN c.owner ELSE rec.owner
         /\ Saved(c, rec).status = CASE c.op = "dispatch"  -> "queued_for_orchestrator"
                                     [] c.op = "claim"     -> "claimed"
                                     [] c.op = "heartbeat" -> rec.status
                                     [] OTHER              -> c.status
<1> USE DEF Record, Status, Claimable
<1>1. c.op \in {"claim", "heartbeat", "status", "dispatch", "exhaust", "sync"}
  BY DEF Call, Op, CallInv
<1>2. CASE c.op = "dispatch"
  BY <1>2 DEF Saved
<1>3. CASE c.op = "claim"
  BY <1>3 DEF Saved, CallInv
<1>4. CASE c.op = "heartbeat"
  BY <1>4 DEF Saved, CallInv
<1>5. CASE c.op \in {"status", "exhaust", "sync"}
  <2>1. c.status \in Status
    BY <1>5 DEF CallInv
  <2>2. Saved(c, rec) = WithStatus(rec, c.status)
    BY <1>5 DEF Saved
  <2> QED
    BY <1>5, <2>1, <2>2 DEF WithStatus
<1> QED
  BY <1>1, <1>2, <1>3, <1>4, <1>5

LEMMA BagGrows ==
  ASSUME NEW B, BagOK(B), NEW m \in Message
  PROVE  BagOK(B (+) SetToBag({m}))
BY DEF BagOK, IsABag, BagToSet, SetToBag, (+)

LEMMA BagShrinks ==
  ASSUME NEW B, BagOK(B), NEW m
  PROVE  BagOK(B (-) SetToBag({m}))
BY DEF BagOK, IsABag, BagToSet, SetToBag, (-)

LEMMA Starts == Init => IInv
<1> SUFFICES ASSUME Init PROVE IInv
  OBVIOUS
<1> USE Rest DEF Init
<1>1. BagOK(EmptyBag)
  BY DEF BagOK, EmptyBag, IsABag, BagToSet, SetToBag
<1>2. TypeOK
  BY <1>1, OperatorRequestAssumption DEF TypeOK, BagOK
<1>3. DoubleClaimOnlyUnseen
  BY FS_EmptySet DEF DoubleClaimOnlyUnseen
<1> QED
  BY <1>2, <1>3 DEF IInv, OwnerIsLastHolder, OpenIsFree, NoRecord
-----------------------------------------------------------------------------
(***************************************************************************)
(* The steps.                                                              *)
(***************************************************************************)
\* A step that only moves a call on keeps the invariant, when the call it becomes
\* is legal.
LEMMA MoveKeeps ==
  ASSUME IInv, NEW h \in Handler, NEW c \in Call, CallInv(c),
         call' = [call EXCEPT ![h] = c],
         UNCHANGED <<requests, holder, grants, undone>>,
         BagOK(messages'), started' \in 0..MaxCalls,
         dropped' \in [RequestId -> BOOLEAN]
  PROVE  IInv'
<1> USE DEF IInv
<1>1. TypeOK'
  BY DEF TypeOK, BagOK
<1>2. ASSUME NEW g \in Handler PROVE CallInv(call[g])'
  <2>1. call'[g] = IF g = h THEN c ELSE call[g]
    BY DEF TypeOK
  <2>2. CallInv(call'[g])
    BY <2>1
  <2> QED
    BY <2>2 DEF CallInv, Refused, Saved, WithStatus, ClaimAllowed, OtherOwner
<1> QED
  BY <1>1, <1>2 DEF OwnerIsLastHolder, OpenIsFree, DoubleClaimOnlyUnseen

LEMMA BecomeKeeps ==
  ASSUME IInv, NEW h \in Handler, NEW c \in Call, CallInv(c), Become(h, c)
  PROVE  IInv'
BY MoveKeeps DEF Become, history, IInv, TypeOK, BagOK

\* A message that comes back is counted, one that has been delivered for the last
\* time is gone.
LEMMA RedeliverKeeps ==
  ASSUME IInv, NEW h \in Handler, Redeliver(h)
  PROVE  IInv'
<1>1. call[h] \in Call /\ BagOK(messages) /\ dropped \in [RequestId -> BOOLEAN]
  BY DEF IInv, TypeOK, BagOK
<1>2. BagOK(messages')
  <2>1. CASE call[h].attempts < MaxAttempts
    <3>1. [id |-> call[h].id, attempts |-> call[h].attempts + 1] \in Message
      BY <1>1, <2>1, OperatorRequestAssumption DEF Call, Message
    <3> QED
      BY <1>1, <2>1, <3>1, BagGrows DEF Redeliver
  <2>2. CASE ~(call[h].attempts < MaxAttempts)
    BY <1>1, <2>2 DEF Redeliver
  <2> QED
    BY <2>1, <2>2
<1>3. dropped' \in [RequestId -> BOOLEAN] /\ started' \in 0..MaxCalls
  BY <1>1 DEF Redeliver, IInv, TypeOK
<1> QED
  BY <1>2, <1>3, Rest, MoveKeeps DEF Redeliver, Leave

LEMMA CutShortKeeps ==
  ASSUME IInv, NEW h \in Handler, CutShort(h)
  PROVE  IInv'
<1>1. dropped' \in [RequestId -> BOOLEAN] /\ started' \in 0..MaxCalls /\ BagOK(messages')
  BY DEF CutShort, IInv, TypeOK, BagOK
<1> QED
  BY <1>1, Rest, MoveKeeps DEF CutShort, Leave

\* The catch clause redelivers, or is to fail the request.
LEMMA CaughtKeeps ==
  ASSUME IInv, NEW h \in Handler, Caught(h)
  PROVE  IInv'
<1>1. CASE Redeliver(h)
  BY <1>1, RedeliverKeeps
<1>2. CASE Become(h, [UpdateStatus("exhaust", call[h].id, NoOwner, "failed")
                        EXCEPT !.attempts = call[h].attempts])
  <2> DEFINE c == [UpdateStatus("exhaust", call[h].id, NoOwner, "failed")
                     EXCEPT !.attempts = call[h].attempts]
  <2>1. call[h] \in Call
    BY DEF IInv, TypeOK
  <2>2. c \in Call /\ c.op = "exhaust" /\ c.step = "get" /\ c.status = "failed"
    BY <2>1, Rest DEF UpdateStatus, Call, NoCall, Op, Status, Finished
  <2> HIDE DEF c
  <2>3. CallInv(c)
    BY <2>2 DEF CallInv, Status, Finished
  <2> QED
    BY <1>2, <2>2, <2>3, BecomeKeeps DEF c
<1> QED
  BY <1>1, <1>2 DEF Caught

\* Every client call begins at a legal position.
LEMMA ClientCallKeeps ==
  ASSUME IInv, NEW h \in Handler, ClientCall(h)
  PROVE  IInv'
<1> DEFINE Legal(c) == c \in Call /\ CallInv(c)
<1>1. SUFFICES \E c : Legal(c) /\ Begin(h, c)
  <2>1. ASSUME NEW c, Legal(c), Begin(h, c) PROVE IInv'
    <3>1. started' \in 0..MaxCalls
      BY <2>1, OperatorRequestAssumption DEF Begin, IInv, TypeOK
    <3>2. BagOK(messages') /\ dropped' \in [RequestId -> BOOLEAN]
      BY <2>1 DEF Begin, history, IInv, TypeOK, BagOK
    <3> QED
      BY <2>1, <3>1, <3>2, MoveKeeps DEF Begin, history
  <2> QED
    BY <1>1, <2>1
<1> USE Rest DEF NoCall, Call, Op, CallInv
<1>2. ASSUME NEW r \in RequestId, NEW related \in BOOLEAN PROVE Legal(Submit(r, related))
  <2> DEFINE new == [NoRecord EXCEPT !.status = "received", !.related = related]
  <2>1. new \in Record /\ new.owner = NoOwner
    BY DEF NoRecord, Record, Status
  <2> HIDE DEF new
  <2>2. Submit(r, related) = [NoCall EXCEPT !.op = "submit", !.step = "put", !.id = r, !.next = new]
    BY DEF Submit, new
  <2> QED
    BY <2>1, <2>2
<1>3. ASSUME NEW r \in RequestId, NEW o \in Owner
      PROVE  Legal(Claim(r, o)) /\ Legal(Heartbeat(r, o))
  <2>1. Legal(Claim(r, o))
    BY DEF Claim
  <2>2. Legal(Heartbeat(r, o))
    BY DEF Heartbeat
  <2> QED
    BY <2>1, <2>2
<1>4. ASSUME NEW r \in RequestId, NEW o \in Owner \cup {NoOwner}, NEW status \in Update
      PROVE  Legal(UpdateStatus("status", r, o, status))
  BY OperatorRequestAssumption DEF UpdateStatus
<1>5. ASSUME NEW outcome \in Outcome PROVE Legal(Sync(outcome))
  <2>1. StatusFor(outcome) \in Status \cup {"none"}
    BY OperatorRequestAssumption DEF StatusFor, Status, Claimable, Finished
  <2> QED
    BY <2>1 DEF Sync
<1> HIDE DEF Legal
<1> QED
  BY <1>2, <1>3, <1>4, <1>5 DEF ClientCall

\* A sync goes through requests that were not finished when it listed them.
LEMMA SyncKeeps ==
  ASSUME IInv, NEW h \in Handler,
         List(h) \/ (\E l \in call[h].todo : NextListed(h, l)) \/ EndSync(h)
  PROVE  IInv'
<1>1. call[h] \in Call /\ CallInv(call[h])
  BY DEF IInv, TypeOK
<1>2. CASE List(h)
  <2> DEFINE c == [call[h] EXCEPT !.step = "next", !.todo = RelatedOpen]
  <2>1. CASE Become(h, NoCall)
    BY <2>1, Rest, BecomeKeeps
  <2>2. CASE call[h].status # "none" /\ Become(h, c)
    <3>1. RelatedOpen \subseteq Listed /\ \A l \in RelatedOpen : l.record.status \notin Finished
      BY DEF RelatedOpen, Listed, IInv, TypeOK
    <3>2. /\ c \in Call /\ c.step = "next" /\ c.todo = RelatedOpen
          /\ c.op = call[h].op /\ c.status = call[h].status /\ c.owner = call[h].owner
      BY <1>1, <3>1 DEF Call
    <3>3. c.status \in Status
      BY <1>1, <2>2, <3>2 DEF Call
    <3>4. call[h].op = "sync"
      BY <1>1, <1>2 DEF List, CallInv
    <3> HIDE DEF c
    <3>5. CallInv(c)
      BY <1>1, <3>1, <3>2, <3>3, <3>4 DEF CallInv
    <3> QED
      BY <2>2, <3>2, <3>5, BecomeKeeps
  <2> QED
    BY <1>2, <2>1, <2>2 DEF List
<1>3. ASSUME NEW l \in call[h].todo, NextListed(h, l) PROVE IInv'
  <2> DEFINE c == [call[h] EXCEPT !.step = "get", !.id = l.id, !.owner = l.record.owner,
                                  !.listed = l.record, !.todo = @ \ {l}]
  <2>1. l \in Listed /\ call[h].step = "next"
    BY <1>1, <1>3 DEF Call, NextListed
  <2>2. l.id \in RequestId /\ l.record \in Record /\ l.record.owner \in Owner \cup {NoOwner}
    BY <2>1 DEF Listed, Record
  <2>3. /\ c \in Call /\ c.step = "get" /\ c.op = call[h].op /\ c.status = call[h].status
        /\ c.listed = l.record /\ c.todo \subseteq call[h].todo
    BY <1>1, <2>2 DEF Call
  <2>4. call[h].op = "sync"
    BY <1>1, <2>1 DEF CallInv
  <2> HIDE DEF c
  <2>5. CallInv(c)
    BY <1>1, <1>3, <2>1, <2>3, <2>4 DEF CallInv
  <2> QED
    BY <1>3, <2>3, <2>5, BecomeKeeps DEF NextListed, c
<1>4. CASE EndSync(h)
  BY <1>4, Rest, BecomeKeeps DEF EndSync
<1> QED
  BY <1>2, <1>3, <1>4

\* A call that has read a record writes what its operation makes of it.
LEMMA GetKeeps ==
  ASSUME IInv, NEW h \in Handler, NEW rec \in Record, Get(h, rec)
  PROVE  IInv'
<1> DEFINE c == [call[h] EXCEPT !.step = "put", !.base = rec, !.next = Saved(call[h], rec)]
<1>1. call[h] \in Call /\ CallInv(call[h]) /\ call[h].step = "get" /\ call[h].op # "submit"
  BY DEF IInv, TypeOK, Get, CallInv
<1>2. CASE Refuse(h)
  BY <1>2, RedeliverKeeps, CutShortKeeps DEF Refuse
<1>3. CASE ~Refused(call[h], rec) /\ Become(h, c)
  <2>1. Saved(call[h], rec) \in Record
    BY <1>1, SavedRecord
  <2>2. /\ c \in Call /\ c.step = "put" /\ c.base = rec /\ c.next = Saved(call[h], rec)
        /\ c.op = call[h].op /\ c.owner = call[h].owner /\ c.status = call[h].status
        /\ c.listed = call[h].listed /\ c.todo = call[h].todo
    BY <1>1, <2>1 DEF Call
  <2> HIDE DEF c
  <2>3. Refused(c, rec) = Refused(call[h], rec) /\ Saved(c, rec) = Saved(call[h], rec)
    BY <2>2 DEF Refused, Saved
  <2>4. CallInv(c)
    BY <1>1, <1>3, <2>2, <2>3 DEF CallInv
  <2> QED
    BY <1>3, <2>2, <2>4, BecomeKeeps
<1> QED
  BY <1>2, <1>3 DEF Get

\* A record is written: what the write was computed from decides whether it may
\* change hands.
LEMMA PutKeeps ==
  ASSUME IInv, NEW h \in Handler, Put(h)
  PROVE  IInv'
<1> DEFINE c == call[h]
           r == c.id
<1>1. c \in Call /\ CallInv(c) /\ c.step = "put" /\ r \in RequestId /\ c.next \in Record
  BY DEF IInv, TypeOK, Put, Call
<1>2. /\ requests' = [requests EXCEPT ![r] = c.next]
      /\ call' = [call EXCEPT ![h] = AfterPut(c)]
      /\ holder' = [holder EXCEPT ![r] =
                      IF c.op = "submit" THEN NoOwner
                      ELSE IF c.op \in {"claim", "heartbeat"} THEN c.owner ELSE @]
      /\ grants' = [grants EXCEPT ![r] =
                      IF c.op = "submit" \/ c.next.status \in Claimable THEN {}
                      ELSE IF c.op = "claim" THEN @ \cup {c.owner} ELSE @]
      /\ undone' = [undone EXCEPT ![r] = c.op # "submit" /\ (@ \/ c.base # requests[r])]
      /\ dropped' = [dropped EXCEPT ![r] =
            c.op # "submit" /\ (@ \/ (c.op = "status" /\ c.status = "received"))]
      /\ UNCHANGED <<messages, started>>
  BY DEF Put
<1>3. AfterPut(c) \in Call /\ CallInv(AfterPut(c))
  <2>1. CASE c.op \in {"submit", "dispatch", "sync"}
    BY <1>1, <2>1 DEF AfterPut, Call, CallInv
  <2>2. CASE c.op \notin {"submit", "dispatch", "sync"}
    BY <2>2, Rest DEF AfterPut
  <2> QED
    BY <2>1, <2>2
<1>4. c.op = "submit" => c.next.owner = NoOwner
  BY <1>1 DEF CallInv
<1>5. ASSUME c.op # "submit"
      PROVE  /\ ~Refused(c, c.base)
             /\ c.next.owner = IF c.op \in {"claim", "heartbeat"} THEN c.owner ELSE c.base.owner
             /\ c.op = "claim" => c.next.status = "claimed"
  <2>1. ~Refused(c, c.base) /\ c.next = Saved(c, c.base) /\ c.base \in Record
    BY <1>1, <1>5 DEF CallInv, Call
  <2> QED
    BY <1>1, <1>5, <2>1, SavedRecord
<1> HIDE DEF c
<1>6. TypeOK'
  <2>1. call' \in [Handler -> Call] /\ requests' \in [RequestId -> Record]
    BY <1>1, <1>2, <1>3 DEF IInv, TypeOK
  <2>2. holder' \in [RequestId -> Owner \cup {NoOwner}] /\ grants' \in [RequestId -> SUBSET Owner]
    BY <1>1, <1>2 DEF IInv, TypeOK, CallInv
  <2>3. undone' \in [RequestId -> BOOLEAN] /\ dropped' \in [RequestId -> BOOLEAN]
    BY <1>1, <1>2 DEF IInv, TypeOK
  <2> QED
    BY <1>2, <2>1, <2>2, <2>3 DEF IInv, TypeOK
<1>7. ASSUME NEW g \in Handler PROVE CallInv(call[g])'
  <2>1. call'[g] = IF g = h THEN AfterPut(c) ELSE call[g]
    BY <1>2 DEF IInv, TypeOK
  <2>2. CallInv(call'[g])
    BY <1>3, <2>1 DEF IInv
  <2> QED
    BY <2>2 DEF CallInv, Refused, Saved, WithStatus, ClaimAllowed, OtherOwner
<1>8. \A q \in RequestId : q # r => /\ requests'[q] = requests[q]
                                    /\ holder'[q] = holder[q]
                                    /\ grants'[q] = grants[q]
                                    /\ undone'[q] = undone[q]
  BY <1>2 DEF IInv, TypeOK
<1>9. /\ requests'[r] = c.next
      /\ holder'[r] = IF c.op = "submit" THEN NoOwner
                      ELSE IF c.op \in {"claim", "heartbeat"} THEN c.owner ELSE holder[r]
      /\ grants'[r] = IF c.op = "submit" \/ c.next.status \in Claimable THEN {}
                      ELSE IF c.op = "claim" THEN grants[r] \cup {c.owner} ELSE grants[r]
      /\ ~undone'[r] /\ c.op # "submit" => ~undone[r] /\ c.base = requests[r]
  BY <1>1, <1>2 DEF IInv, TypeOK
<1>10. OwnerIsLastHolder'
  BY <1>4, <1>5, <1>8, <1>9 DEF IInv, OwnerIsLastHolder
<1>11. OpenIsFree'
  <2>1. ASSUME ~undone'[r], c.next.status \in Claimable PROVE grants'[r] = {}
    BY <1>9, <2>1
  <2> QED
    BY <1>8, <1>9, <2>1 DEF IInv, OpenIsFree
<1>12. DoubleClaimOnlyUnseen'
  <2>1. ASSUME ~undone'[r] PROVE Cardinality(grants'[r]) <= 1
    <3>1. CASE c.op = "submit" \/ c.next.status \in Claimable
      BY <1>9, <3>1, FS_EmptySet
    <3>2. CASE c.op = "claim" /\ c.next.status \notin Claimable
      <4>1. c.base.status \in Claimable
        BY <1>5, <3>2 DEF Refused, ClaimAllowed
      <4>2. ~undone[r] /\ c.base = requests[r]
        <5>1. c.op # "submit"
          BY <3>2
        <5> QED
          BY <1>9, <2>1, <5>1, Zenon
      <4>3. grants[r] = {}
        BY <1>1, <4>1, <4>2 DEF IInv, OpenIsFree
      <4>4. grants'[r] = grants[r] \cup {c.owner}
        BY <1>9, <3>2
      <4>5. grants'[r] = {c.owner}
        BY <4>3, <4>4
      <4>6. Cardinality({c.owner}) = 1
        BY FS_Singleton
      <4> QED
        BY <4>5, <4>6
    <3>3. CASE c.op \notin {"submit", "claim"} /\ c.next.status \notin Claimable
      BY <1>1, <1>9, <2>1, <3>3 DEF IInv, DoubleClaimOnlyUnseen
    <3> QED
      BY <3>1, <3>2, <3>3
  <2> QED
    BY <1>8, <2>1 DEF IInv, DoubleClaimOnlyUnseen
<1> QED
  BY <1>6, <1>7, <1>10, <1>11, <1>12 DEF IInv

\* A submission puts its message into the queue, a handler takes one out.
LEMMA MessageKeeps ==
  ASSUME IInv, NEW h \in Handler, Enqueue(h) \/ \E m \in BagToSet(messages) : Deliver(h, m)
  PROVE  IInv'
<1>1. call[h] \in Call /\ BagOK(messages)
  BY DEF IInv, TypeOK, BagOK
<1>2. started' \in 0..MaxCalls /\ dropped' \in [RequestId -> BOOLEAN]
      /\ UNCHANGED <<requests, holder, grants, undone>>
  BY DEF Enqueue, Deliver, history, IInv, TypeOK
<1>3. CASE Enqueue(h)
  <2>1. [id |-> call[h].id, attempts |-> 1] \in Message
    BY <1>1, OperatorRequestAssumption DEF Call, Message
  <2>2. BagOK(messages')
    BY <1>1, <1>3, <2>1, BagGrows DEF Enqueue
  <2> QED
    BY <1>2, <1>3, <2>2, Rest, MoveKeeps DEF Enqueue, Leave
<1>4. ASSUME NEW m \in BagToSet(messages), Deliver(h, m) PROVE IInv'
  <2> DEFINE c == [NoCall EXCEPT !.op = "dispatch", !.step = "get", !.id = m.id,
                                 !.attempts = m.attempts]
  <2>1. m.id \in RequestId /\ m.attempts \in 0..MaxAttempts
    BY <1>1, OperatorRequestAssumption DEF BagOK, Message
  <2>2. c \in Call /\ CallInv(c)
    BY <2>1, Rest DEF NoCall, Call, Op, CallInv
  <2>3. BagOK(messages')
    BY <1>1, <1>4, BagShrinks DEF Deliver
  <2> HIDE DEF c
  <2> QED
    BY <1>2, <1>4, <2>2, <2>3, MoveKeeps DEF Deliver, c
<1> QED
  BY <1>3, <1>4

LEMMA FailureKeeps ==
  ASSUME IInv, NEW h \in Handler, Failure(h)
  PROVE  IInv'
<1>1. CASE StoreThrows(h)
  BY <1>1, CaughtKeeps, RedeliverKeeps, CutShortKeeps DEF StoreThrows
<1>2. CASE ReadFails(h)
  BY <1>2, Rest, GetKeeps DEF ReadFails
<1>3. CASE PublishFails(h)
  BY <1>3, CaughtKeeps DEF PublishFails
<1>4. CASE Evicted(h)
  BY <1>4, RedeliverKeeps, CutShortKeeps DEF Evicted
<1> QED
  BY <1>1, <1>2, <1>3, <1>4 DEF Failure

LEMMA ServerStepKeeps ==
  ASSUME IInv, NEW h \in Handler, ServerStep(h)
  PROVE  IInv'
<1>1. CASE Get(h, requests[call[h].id])
  <2>1. requests[call[h].id] \in Record
    BY DEF IInv, TypeOK, Call
  <2> QED
    BY <1>1, <2>1, GetKeeps
<1>2. CASE Publish(h)
  BY <1>2, Rest, BecomeKeeps DEF Publish
<1> QED
  BY <1>1, <1>2, SyncKeeps, PutKeeps, MessageKeeps DEF ServerStep

LEMMA Invariance == Spec => []IInv
<1>1. ASSUME IInv, [Next]_vars PROVE IInv'
  <2>1. CASE Next
    BY <1>1, <2>1, ClientCallKeeps, ServerStepKeeps, FailureKeeps DEF Next
  <2>2. CASE UNCHANGED vars
    <3> USE <1>1, <2>2 DEF vars, history, IInv
    <3>1. TypeOK'
      BY DEF TypeOK
    <3>2. \A h \in Handler : CallInv(call[h])'
      BY DEF CallInv, Refused, Saved, WithStatus, ClaimAllowed, OtherOwner
    <3> QED
      BY <3>1, <3>2 DEF OwnerIsLastHolder, OpenIsFree, DoubleClaimOnlyUnseen
  <2> QED
    BY <1>1, <2>1, <2>2
<1> QED
  BY <1>1, Starts, PTL DEF Spec
-----------------------------------------------------------------------------
\* Every variable keeps to its type, the bag of messages with it.
THEOREM TypeCorrect == Spec => []TypeOK
BY Invariance, PTL DEF IInv

\* Claims exclude each other, but for writes computed from an older copy:
\* operator-request-lifecycle.service.ts:24-37.
THEOREM ClaimsExclude == Spec => []DoubleClaimOnlyUnseen
BY Invariance, PTL DEF IInv

\* Nothing but a claim or a heartbeat gives a request another owner:
\* operator-request-lifecycle.service.ts:39-79.
THEOREM OwnersKeep == Spec => []OwnerIsLastHolder
BY Invariance, PTL DEF IInv

\* A finished request is opened again on purpose only: command-side-effects.ts:23-44
\* and process-control-queue.ts:121.
THEOREM FinishedStays == Spec => ReopenedOnlyOnPurpose
<1> DEFINE OnPurpose(h, r) ==
             /\ call[h].id = r
             /\ call[h].step = "put"
             /\ \/ call[h].op \in {"submit", "dispatch", "status"}
                \/ call[h].base # requests[r]
                \/ call[h].op = "sync" /\ call[h].listed.status \notin Finished
           Kept == \A r \in RequestId :
             requests[r].status \in Finished /\ requests'[r].status \notin Finished =>
               \E h \in Handler : OnPurpose(h, r)
<1>1. ASSUME IInv, Next PROVE Kept
  <2> SUFFICES ASSUME NEW r \in RequestId, requests[r].status \in Finished,
                      requests'[r].status \notin Finished
               PROVE  \E h \in Handler : OnPurpose(h, r)
    OBVIOUS
  <2>1. PICK h \in Handler : Put(h)
    BY <1>1 DEF Next, ClientCall, ServerStep, Failure, Begin, Become, history, List, NextListed,
                EndSync, Get, Refuse, Enqueue, Publish, Deliver, StoreThrows, ReadFails,
                PublishFails, Evicted, Caught, Redeliver, CutShort
  <2>2. call[h] \in Call /\ CallInv(call[h]) /\ call[h].step = "put"
    BY <1>1, <2>1 DEF IInv, TypeOK, Put
  <2>3. call[h].id = r /\ requests'[r] = call[h].next
    BY <1>1, <2>1 DEF Put, IInv, TypeOK
  <2> SUFFICES ASSUME call[h].op \notin {"submit", "dispatch", "status"},
                      call[h].base = requests[r]
               PROVE  call[h].op = "sync" /\ call[h].listed.status \notin Finished
    BY <2>2, <2>3
  <2>4. /\ ~Refused(call[h], call[h].base) /\ call[h].next = Saved(call[h], call[h].base)
        /\ call[h].base \in Record
    BY <2>2 DEF CallInv, Call
  <2>5. call[h].op \notin {"claim", "heartbeat", "exhaust"}
    <3>1. CASE call[h].op = "claim"
      BY <2>4, <3>1 DEF Refused, ClaimAllowed, Claimable, Finished
    <3>2. CASE call[h].op = "heartbeat"
      BY <2>2, <2>3, <2>4, <3>2, SavedRecord
    <3>3. CASE call[h].op = "exhaust"
      BY <2>2, <2>3, <2>4, <3>3, SavedRecord DEF CallInv, Finished
    <3> QED
      BY <3>1, <3>2, <3>3
  <2>6. call[h].op = "sync"
    BY <2>2, <2>5 DEF CallInv, Call, Op
  <2> QED
    BY <2>2, <2>6 DEF CallInv
<1>2. IInv /\ [Next]_vars => [Kept]_vars
  BY <1>1
<1> QED
  BY <1>2, Invariance, PTL DEF Spec, ReopenedOnlyOnPurpose, Kept, OnPurpose
=============================================================================
