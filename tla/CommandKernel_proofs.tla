-------------------------- MODULE CommandKernel_proofs --------------------------
(***************************************************************************)
(* Proofs about CommandKernel, for any number of handlers, commands,       *)
(* sessions and leases, whatever the clients submit and whichever files    *)
(* cannot be read.  The inductive invariant IInv says what the writes that *)
(* a call has still to make rest on: each follows, in the list or in the   *)
(* store, what it must not be ahead of.                                    *)
(***************************************************************************)
EXTENDS CommandKernel, FiniteSetTheorems, SequenceTheorems, TLAPS

\* A live deploy of this request may be executed by a call that began then.
Authorised(q, at) ==
  q.action = "deploy_live" /\ ~q.explicit =>
    \E r \in Scope : SameResourceScope(r, q.scope) /\ approvedUntil[r] > at

EventBefore(todo, i, status) ==
  \E j \in DOMAIN todo : j < i /\ todo[j].kind = "event" /\ todo[j].status = status

DedupBefore(todo, i) == \E j \in DOMAIN todo : j < i /\ todo[j].kind = "dedup"

Emits(w) == w.kind # "dedup" /\ w.status = "emitted"

\* What the i-th write of the list rests on.
RecordRests(c, i) ==
  c.todo[i].kind = "record" /\ c.todo[i].status # "emitted" =>
    EventBefore(c.todo, i, c.todo[i].status) \/ Logged(c.req.command, c.todo[i].status)

CompletionRests(c, i) ==
  c.op = "submit" /\ c.todo[i].kind = "event" /\ c.todo[i].status = "completed" =>
    DedupBefore(c.todo, i) \/ c.req.dedup \in dedup

EmissionRests(c, i) ==
  Emits(c.todo[i]) => Authorised(c.req, c.now)

Rests(c) ==
  \A i \in DOMAIN c.todo : RecordRests(c, i) /\ CompletionRests(c, i) /\ EmissionRests(c, i)

\* A check that said no all along is still to be made, or has said it; a lease that
\* held the resource all along is still to be read, or one that held it was.
StillBarred(c) ==
  /\ \A w \in c.barred : Refused(w, c.req, c.now, sessions, leases)
  /\ c.rivals \subseteq Competing(leases, c.req)

BarredInv(c) ==
  /\ c.step \in {"get", "read"} /\ c.op \in Submitting => StillBarred(c)
  /\ c.step = "get" /\ c.op \in Submitting => c.barred \subseteq ChecksOf(c.op)
  /\ c.step \in {"check", "get"} => c.failed = {}
  /\ c.step = "read" => /\ c.barred \subseteq c.pending \cup c.failed
                        /\ c.rivals \subseteq c.unlisted \/ "leases" \in c.failed

\* The copy a call works on is one of its own command.
BaseInv(c) ==
  /\ c.step \in {"read", "write"} => c.base.req.command = c.req.command
  /\ c.step = "read" => c.op \in Submitting
  /\ c.step = "check" => c.op \in {"approve", "retry", "fail"}

CallInv(c) ==
  /\ c.step = "write" <=> c.todo # <<>>
  /\ c.now <= clock
  /\ BarredInv(c)
  /\ BaseInv(c)
  /\ Rests(c)

StoreInv ==
  /\ \A id \in CommandId : commands[id].status # "absent" => commands[id].req.command = id
  /\ RecordNeverAheadOfLog
  /\ CompletionIsDeduplicated
  /\ LiveDeployIsAuthorised
  /\ \A r \in Scope : approvals[r] <= approvedUntil[r]

Calls == {call[h] : h \in Handler}

IInv ==
  /\ TypeOK
  /\ \A c \in Calls : CallInv(c)
  /\ StoreInv
-----------------------------------------------------------------------------
(***************************************************************************)
(* The call at rest, and lists of writes.                                  *)
(***************************************************************************)
\* An event that is logged is there, and takes no status away.
LEMMA LogGrows ==
  ASSUME NEW log \in Seq(Event), NEW e \in Event, NEW new \in Logging(log, e)
  PROVE  /\ new \in Seq(Event)
         /\ DOMAIN log \subseteq DOMAIN new
         /\ \A i \in DOMAIN log : new[i].status = log[i].status
         /\ \A i \in DOMAIN new : new[i] = e \/ (i \in DOMAIN log /\ new[i] = log[i])
         /\ \E i \in DOMAIN new : new[i] = e
<1>1. CASE new = Append(log, e)
  <2>1. /\ new \in Seq(Event)
        /\ DOMAIN new = DOMAIN log \cup {Len(log) + 1}
        /\ \A i \in DOMAIN log : new[i] = log[i]
        /\ new[Len(log) + 1] = e
    BY <1>1
  <2> QED
    BY <2>1
<1>2. ASSUME NEW k \in DOMAIN log, log[k].status = e.status, new = [log EXCEPT ![k] = e]
      PROVE  /\ new \in Seq(Event)
             /\ DOMAIN new = DOMAIN log
             /\ \A i \in DOMAIN log : new[i] = IF i = k THEN e ELSE log[i]
  <2>1. DOMAIN log = 1..Len(log)
    BY LenProperties
  <2>2. new \in Seq(Event) /\ DOMAIN new = DOMAIN log
    BY <1>2, <2>1, ExceptSeq
  <2>3. ASSUME NEW i \in DOMAIN log PROVE new[i] = IF i = k THEN e ELSE log[i]
    BY <1>2, <2>1, ExceptSeq
  <2> QED
    BY <2>2, <2>3
<1>3. \/ new = Append(log, e)
      \/ \E k \in DOMAIN log : log[k].status = e.status /\ new = [log EXCEPT ![k] = e]
  BY DEF Logging
<1> QED
  BY <1>1, <1>2, <1>3

LEMMA Rest ==
  /\ AnyRequest \in Envelope
  /\ NoCommand \in Command
  /\ NoCall \in Call
<1>1. AnyRequest \in Envelope
  BY CommandKernelAssumption DEF AnyRequest
<1>2. NoCommand \in Command
  BY <1>1 DEF NoCommand, Command, Reason
<1>3. NoCall \in Call
  BY <1>1, <1>2 DEF NoCall, Call, Reason
<1> QED
  BY <1>1, <1>2, <1>3

\* What is left of a list once its first write is made.
LEMMA TailOf ==
  ASSUME NEW S, NEW todo \in Seq(S), todo # <<>>
  PROVE  /\ Head(todo) = todo[1] /\ Head(todo) \in S
         /\ 1 \in DOMAIN todo
         /\ Tail(todo) \in Seq(S)
         /\ Tail(todo) = <<>> <=> Len(todo) = 1
         /\ \A i \in DOMAIN Tail(todo) : i + 1 \in DOMAIN todo /\ Tail(todo)[i] = todo[i + 1]
         /\ \A i \in DOMAIN todo : i > 1 => i - 1 \in DOMAIN Tail(todo)
<1>1. /\ Head(todo) \in S
      /\ Tail(todo) \in Seq(S)
      /\ Len(Tail(todo)) = Len(todo) - 1
      /\ \A i \in 1..Len(Tail(todo)) : Tail(todo)[i] = todo[i + 1]
  BY HeadTailProperties
<1>2. Len(todo) \in Nat \ {0} /\ DOMAIN todo = 1..Len(todo)
  BY EmptySeq, LenProperties
<1>3. DOMAIN Tail(todo) = 1..Len(Tail(todo))
  BY <1>1, LenProperties
<1>4. Tail(todo) = <<>> <=> Len(Tail(todo)) = 0
  BY <1>1, EmptySeq
<1>5. Head(todo) = todo[1]
  OBVIOUS
<1> QED
  BY <1>1, <1>2, <1>3, <1>4, <1>5

LEMMA Joined ==
  ASSUME NEW S, NEW s \in Seq(S), NEW t \in Seq(S), NEW u \in Seq(S),
         Len(u) = Len(s) + Len(t),
         \A i \in 1..Len(u) : u[i] = IF i <= Len(s) THEN s[i] ELSE t[i - Len(s)]
  PROVE  s \o t = u
BY ConcatProperties, SeqEqual

LEMMA JoinedTuples ==
  ASSUME NEW a, NEW b, NEW d, NEW e, NEW f
  PROVE  /\ <<a, b>> \o <<>> = <<a, b>>
         /\ <<a, b>> \o <<d>> = <<a, b, d>>
         /\ <<a, b>> \o <<e, f>> = <<a, b, e, f>>
<1> DEFINE S == {a, b, d, e, f}
<1>1. <<>> \in Seq(S) /\ <<a, b>> \in Seq(S) /\ <<d>> \in Seq(S) /\ <<e, f>> \in Seq(S)
  OBVIOUS
<1>2. <<a, b, d>> \in Seq(S) /\ <<a, b, e, f>> \in Seq(S)
  OBVIOUS
<1> HIDE DEF S
<1>3. <<a, b>> \o <<>> = <<a, b>>
  BY <1>1, ConcatEmptySeq
<1>4. <<a, b>> \o <<d>> = <<a, b, d>>
  <2>1. \A i \in 1..3 : <<a, b, d>>[i] = IF i <= 2 THEN <<a, b>>[i] ELSE <<d>>[i - 2]
    OBVIOUS
  <2>2. Len(<<a, b>>) = 2 /\ Len(<<d>>) = 1 /\ Len(<<a, b, d>>) = 3
    OBVIOUS
  <2>3. Len(<<a, b, d>>) = Len(<<a, b>>) + Len(<<d>>)
    BY <2>2
  <2>4. \A i \in 1..Len(<<a, b, d>>) : <<a, b, d>>[i] = IF i <= Len(<<a, b>>) THEN <<a, b>>[i] ELSE <<d>>[i - Len(<<a, b>>)]
    BY <2>1, <2>2
  <2> QED
    BY <1>1, <1>2, <2>3, <2>4, Joined
<1>5. <<a, b>> \o <<e, f>> = <<a, b, e, f>>
  <2>1. \A i \in 1..4 : <<a, b, e, f>>[i] = IF i <= 2 THEN <<a, b>>[i] ELSE <<e, f>>[i - 2]
    OBVIOUS
  <2>2. Len(<<a, b>>) = 2 /\ Len(<<e, f>>) = 2 /\ Len(<<a, b, e, f>>) = 4
    OBVIOUS
  <2>3. Len(<<a, b, e, f>>) = Len(<<a, b>>) + Len(<<e, f>>)
    BY <2>2
  <2>4. \A i \in 1..Len(<<a, b, e, f>>) : <<a, b, e, f>>[i] = IF i <= Len(<<a, b>>) THEN <<a, b>>[i] ELSE <<e, f>>[i - Len(<<a, b>>)]
    BY <2>1, <2>2
  <2> QED
    BY <1>1, <1>2, <2>3, <2>4, Joined
<1> QED
  BY <1>3, <1>4, <1>5

LEMMA JoinedTriple ==
  ASSUME NEW a, NEW b, NEW d, NEW e, NEW f
  PROVE  <<a, b, d>> \o <<e, f>> = <<a, b, d, e, f>>
<1> DEFINE S == {a, b, d, e, f}
<1>1. <<a, b, d>> \in Seq(S) /\ <<e, f>> \in Seq(S) /\ <<a, b, d, e, f>> \in Seq(S)
  OBVIOUS
<1> HIDE DEF S
<1>2. \A i \in 1..5 : <<a, b, d, e, f>>[i] = IF i <= 3 THEN <<a, b, d>>[i] ELSE <<e, f>>[i - 3]
  OBVIOUS
<1>3. Len(<<a, b, d>>) = 3 /\ Len(<<e, f>>) = 2 /\ Len(<<a, b, d, e, f>>) = 5
  OBVIOUS
<1>4. Len(<<a, b, d, e, f>>) = Len(<<a, b, d>>) + Len(<<e, f>>)
  BY <1>3
<1>5. \A i \in 1..Len(<<a, b, d, e, f>>) :
        <<a, b, d, e, f>>[i] = IF i <= Len(<<a, b, d>>) THEN <<a, b, d>>[i]
                               ELSE <<e, f>>[i - Len(<<a, b, d>>)]
  BY <1>2, <1>3
<1> QED
  BY <1>1, <1>4, <1>5, Joined

\* The lists of execute, written out.
LEMMA Lists ==
  ASSUME NEW op, NEW status
  PROVE  /\ SingleEvent(status) = <<EventOf(status), RecordOf(status, "other")>>
         /\ SingleEvent(status) \o SaveDedup(op) =
              IF op = "submit" THEN <<EventOf(status), RecordOf(status, "other"), DedupEntry>>
              ELSE <<EventOf(status), RecordOf(status, "other")>>
         /\ InlineExecution(op) =
              IF op = "submit"
              THEN <<RecordOf("emitted", "none"), EventOf("emitted"), DedupEntry,
                     EventOf("completed"), RecordOf("completed", "other")>>
              ELSE <<RecordOf("emitted", "none"), EventOf("emitted"),
                     EventOf("completed"), RecordOf("completed", "other")>>
<1>1. CASE op = "submit"
  <2>1. SaveDedup(op) = <<DedupEntry>>
    BY <1>1 DEF SaveDedup
  <2>2. SingleEvent(status) \o SaveDedup(op) =
          <<EventOf(status), RecordOf(status, "other"), DedupEntry>>
    BY <2>1, JoinedTuples, Zenon DEF SingleEvent
  <2>3. <<RecordOf("emitted", "none"), EventOf("emitted")>> \o SaveDedup(op) =
          <<RecordOf("emitted", "none"), EventOf("emitted"), DedupEntry>>
    BY <2>1, JoinedTuples, Zenon
  <2>4. <<RecordOf("emitted", "none"), EventOf("emitted"), DedupEntry>>
           \o <<EventOf("completed"), RecordOf("completed", "other")>> =
          <<RecordOf("emitted", "none"), EventOf("emitted"), DedupEntry,
            EventOf("completed"), RecordOf("completed", "other")>>
    BY JoinedTriple, Zenon
  <2>5. InlineExecution(op) =
          <<RecordOf("emitted", "none"), EventOf("emitted"), DedupEntry,
            EventOf("completed"), RecordOf("completed", "other")>>
    BY <2>3, <2>4, Zenon DEF InlineExecution
  <2> QED
    BY <1>1, <2>2, <2>5 DEF SingleEvent
<1>2. CASE op # "submit"
  <2>1. SaveDedup(op) = <<>>
    BY <1>2 DEF SaveDedup
  <2>2. SingleEvent(status) \o SaveDedup(op) =
          <<EventOf(status), RecordOf(status, "other")>>
    BY <2>1, JoinedTuples, Zenon DEF SingleEvent
  <2>3. <<RecordOf("emitted", "none"), EventOf("emitted")>> \o SaveDedup(op) =
          <<RecordOf("emitted", "none"), EventOf("emitted")>>
    BY <2>1, JoinedTuples, Zenon
  <2>4. <<RecordOf("emitted", "none"), EventOf("emitted")>>
           \o <<EventOf("completed"), RecordOf("completed", "other")>> =
          <<RecordOf("emitted", "none"), EventOf("emitted"),
            EventOf("completed"), RecordOf("completed", "other")>>
    BY JoinedTuples
  <2>5. InlineExecution(op) =
          <<RecordOf("emitted", "none"), EventOf("emitted"),
            EventOf("completed"), RecordOf("completed", "other")>>
    BY <2>3, <2>4, Zenon DEF InlineExecution
  <2> QED
    BY <1>2, <2>2, <2>5 DEF SingleEvent
<1> QED
  BY <1>1, <1>2

LEMMA WritesTyped ==
  ASSUME NEW status \in Status, NEW reason \in Reason
  PROVE  EventOf(status) \in Write /\ RecordOf(status, reason) \in Write /\ DedupEntry \in Write
BY DEF EventOf, RecordOf, DedupEntry, Write, Reason

\* An event comes before its record, and a completion is not logged this way by a
\* submission.
LEMMA TransitionRests ==
  ASSUME NEW c, NEW status \in Status \ {"emitted"}, NEW reason,
         c.op = "submit" => status # "completed",
         \/ c.todo = <<EventOf(status), RecordOf(status, reason)>>
         \/ c.todo = <<EventOf(status), RecordOf(status, reason), DedupEntry>>
  PROVE  Rests(c)
<1>1. /\ 1 \in DOMAIN c.todo
      /\ c.todo[1] = EventOf(status)
      /\ c.todo[2] = RecordOf(status, reason)
      /\ \A i \in DOMAIN c.todo : i \in 1..3 /\ (i = 3 => c.todo[i] = DedupEntry)
  OBVIOUS
<1>2. ASSUME NEW i \in DOMAIN c.todo
      PROVE  RecordRests(c, i) /\ CompletionRests(c, i) /\ EmissionRests(c, i)
  <2>1. CASE i = 1
    BY <1>1, <2>1 DEF RecordRests, CompletionRests, EmissionRests, Emits, EventOf
  <2>2. CASE i = 2
    <3>1. EventBefore(c.todo, i, status)
      BY <1>1, <2>2 DEF EventBefore, EventOf
    <3> QED
      BY <1>1, <2>2, <3>1 DEF RecordRests, CompletionRests, EmissionRests, Emits, RecordOf
  <2>3. CASE i = 3
    BY <1>1, <2>3 DEF RecordRests, CompletionRests, EmissionRests, Emits, DedupEntry
  <2> QED
    BY <1>1, <2>1, <2>2, <2>3
<1> QED
  BY <1>2 DEF Rests

\* An inline execution that is authorised: the completion comes
\* after the dedup entry, its record after its event.
LEMMA InlineRests ==
  ASSUME NEW c, c.todo = InlineExecution(c.op), Authorised(c.req, c.now)
  PROVE  Rests(c)
<1> DEFINE n == IF c.op = "submit" THEN 4 ELSE 3
<1>1. /\ DOMAIN c.todo = 1..(n + 1)
      /\ c.todo[1] = RecordOf("emitted", "none")
      /\ c.todo[2] = EventOf("emitted")
      /\ c.op = "submit" => c.todo[3] = DedupEntry
      /\ c.todo[n] = EventOf("completed")
      /\ c.todo[n + 1] = RecordOf("completed", "other")
  <2>1. CASE c.op = "submit"
    <3>1. c.todo = <<RecordOf("emitted", "none"), EventOf("emitted"), DedupEntry,
                     EventOf("completed"), RecordOf("completed", "other")>>
      BY <2>1, Lists
    <3> QED
      BY <2>1, <3>1
  <2>2. CASE c.op # "submit"
    <3>1. c.todo = <<RecordOf("emitted", "none"), EventOf("emitted"),
                     EventOf("completed"), RecordOf("completed", "other")>>
      BY <2>2, Lists
    <3> QED
      BY <2>2, <3>1
  <2> QED
    BY <2>1, <2>2
<1>2. ASSUME NEW i \in DOMAIN c.todo
      PROVE  RecordRests(c, i) /\ CompletionRests(c, i) /\ EmissionRests(c, i)
  <2>1. CASE i = 1 \/ i = 2
    BY <1>1, <2>1 DEF RecordRests, CompletionRests, EmissionRests, Emits, EventOf, RecordOf
  <2>2. CASE i = 3 /\ c.op = "submit"
    BY <1>1, <2>2 DEF RecordRests, CompletionRests, EmissionRests, Emits, DedupEntry
  <2>3. CASE i = n
    <3>1. c.op = "submit" => DedupBefore(c.todo, i)
      BY <1>1, <2>3 DEF DedupBefore, DedupEntry
    <3> QED
      BY <1>1, <2>3, <3>1 DEF RecordRests, CompletionRests, EmissionRests, Emits, EventOf
  <2>4. CASE i = n + 1
    <3>1. EventBefore(c.todo, i, "completed")
      BY <1>1, <2>4 DEF EventBefore, EventOf
    <3> QED
      BY <1>1, <2>4, <3>1 DEF RecordRests, CompletionRests, EmissionRests, Emits, RecordOf
  <2> QED
    BY <1>1, <2>1, <2>2, <2>3, <2>4
<1> QED
  BY <1>2 DEF Rests
-----------------------------------------------------------------------------
(***************************************************************************)
(* What the other calls rest on stays.                                     *)
(***************************************************************************)
LEMMA CallsAreLegal ==
  ASSUME IInv, NEW h \in Handler
  PROVE  call[h] \in Call /\ CallInv(call[h])
<1>1. call[h] \in Calls
  BY DEF Calls
<1> QED
  BY <1>1, Zenon DEF IInv, TypeOK

\* Time does not go back, and nothing that was logged, stored or approved is lost.
Grows ==
  /\ clock \in Nat /\ clock' \in Nat /\ clock <= clock'
  /\ dedup \subseteq dedup'
  /\ \A id \in CommandId, status \in Status : Logged(id, status) => Logged(id, status)'
  /\ \A r \in Scope : /\ approvedUntil[r] \in Nat /\ approvedUntil'[r] \in Nat
                      /\ approvedUntil[r] <= approvedUntil'[r]

LEMMA AuthorisedGrows ==
  ASSUME Grows, NEW q \in Envelope, NEW at \in Nat, Authorised(q, at)
  PROVE  Authorised(q, at)'
<1>1. ASSUME NEW r \in Scope, approvedUntil[r] > at PROVE approvedUntil'[r] > at
  BY <1>1 DEF Grows
<1> QED
  BY <1>1 DEF Authorised

LEMMA GrowthKeeps ==
  ASSUME Grows, NEW c \in Call, CallInv(c), NEW x \in Call,
         x.op = c.op, x.step = c.step, x.req = c.req, x.now = c.now, x.base = c.base,
         x.pending = c.pending, x.unlisted = c.unlisted, x.failed = c.failed,
         x.todo = c.todo, x.barred \subseteq c.barred, x.rivals \subseteq c.rivals,
         x.step \in {"get", "read"} /\ x.op \in Submitting => StillBarred(x)'
  PROVE  CallInv(x)'
<1>1. x.req \in Envelope /\ x.req.command \in CommandId /\ x.now \in Nat
  BY DEF Call, Envelope
<1>2. x.now <= clock'
  BY <1>1 DEF CallInv, Grows
<1>3. BarredInv(x)'
  BY DEF CallInv, BarredInv
<1>4. BaseInv(x)'
  BY DEF CallInv, BaseInv
<1>5. ASSUME NEW i \in DOMAIN x.todo
      PROVE  (RecordRests(x, i) /\ CompletionRests(x, i) /\ EmissionRests(x, i))'
  <2>1. RecordRests(c, i) /\ CompletionRests(c, i) /\ EmissionRests(c, i)
    BY DEF CallInv, Rests
  <2>2. RecordRests(x, i)'
    <3>1. CASE x.todo[i].kind = "record"
      <4>1. x.todo[i] \in Write
        BY DEF Call
      <4>2. x.todo[i].status \in Status
        BY <3>1, <4>1 DEF Write
      <4>3. Logged(x.req.command, x.todo[i].status) => Logged(x.req.command, x.todo[i].status)'
        BY <1>1, <4>2 DEF Grows
      <4> QED
        BY <2>1, <4>3 DEF RecordRests
    <3>2. CASE x.todo[i].kind # "record"
      BY <3>2 DEF RecordRests
    <3> QED
      BY <3>1, <3>2
  <2>3. CompletionRests(x, i)'
    BY <2>1 DEF CompletionRests, Grows
  <2>4. EmissionRests(x, i)'
    BY <1>1, <2>1, AuthorisedGrows DEF EmissionRests
  <2> QED
    BY <2>2, <2>3, <2>4
<1>6. Rests(x)'
  BY <1>5 DEF Rests
<1> QED
  BY <1>2, <1>3, <1>4, <1>6 DEF CallInv

\* One handler moves on and nothing else changes.
LEMMA MoveKeeps ==
  ASSUME IInv, NEW h \in Handler, NEW c \in Call, CallInv(c),
         call' = [call EXCEPT ![h] = c], started' \in 0..MaxCalls,
         UNCHANGED <<storeVars, commands, events, dedup, approvals, changed, approvedUntil>>
  PROVE  IInv'
<1>1. TypeOK'
  BY DEF IInv, TypeOK, storeVars
<1>2. StoreInv'
  BY DEF IInv, StoreInv, RecordNeverAheadOfLog, CompletionIsDeduplicated,
         LiveDeployIsAuthorised, Logged, storeVars
<1>3. Grows
  BY LeaseStoreAssumption DEF IInv, TypeOK, Grows, Logged, storeVars
<1>4. ASSUME NEW x \in Calls' PROVE CallInv(x)'
  <2>1. x \in Call /\ CallInv(x)
    BY CallsAreLegal DEF Calls, IInv, TypeOK
  <2>2. BarredInv(x)'
    BY <2>1 DEF CallInv, BarredInv, StillBarred, Refused, SessionRefused, LeaseRefused,
                Competing, Others, storeVars
  <2> QED
    BY <1>3, <2>1, <2>2, GrowthKeeps DEF BarredInv
<1> QED
  BY <1>1, <1>2, <1>4 DEF IInv

LEMMA BecomeKeeps ==
  ASSUME IInv, NEW h \in Handler, NEW c \in Call, CallInv(c), Become(h, c)
  PROVE  IInv'
<1>1. started' \in 0..MaxCalls
  BY DEF IInv, TypeOK, Become
<1> QED
  BY <1>1, MoveKeeps DEF Become

LEMMA BeginsKeep ==
  ASSUME IInv, NEW h \in Handler, NEW c \in Call, CallInv(c), Begin(h, c)
  PROVE  IInv'
<1>1. started' \in 0..MaxCalls
  BY CommandKernelAssumption DEF IInv, TypeOK, Begin
<1> QED
  BY <1>1, MoveKeeps DEF Begin
-----------------------------------------------------------------------------
(***************************************************************************)
(* Init, and the calls that begin and end.                                 *)
(***************************************************************************)
Quiet == {"idle", "final", "done", "refused", "thrown"}

\* A call that has nothing left to decide or to write is legal.
LEMMA QuietIsLegal ==
  ASSUME NEW c \in Call, c.step \in Quiet, c.todo = <<>>, c.now <= clock
  PROVE  CallInv(c)
<1>1. Rests(c)
  BY DEF Rests
<1> QED
  BY <1>1 DEF CallInv, BarredInv, BaseInv, Quiet

\* What a call is made of when it is over.
LEMMA Endings ==
  ASSUME TypeOK, NEW step \in Quiet
  PROVE  [NoCall EXCEPT !.step = step] \in Call /\ CallInv([NoCall EXCEPT !.step = step])
<1> DEFINE c == [NoCall EXCEPT !.step = step]
<1>1. c \in Call
  BY Rest DEF Call, Quiet
<1>2. c.step = step /\ c.todo = <<>> /\ c.now = 0
  BY DEF NoCall
<1>3. 0 <= clock
  BY DEF TypeOK
<1> HIDE DEF c
<1>4. CallInv(c)
  BY <1>1, <1>2, <1>3, QuietIsLegal
<1> QED
  BY <1>1, <1>4 DEF c

LEMMA StoreTypes ==
  /\ NoSession \in Session /\ NoLease \in Lease
  /\ \A ttl \in Ttl, at \in Nat :
       /\ IssueSession(ttl, at) \in Session
       /\ RevokeSession(IssueSession(ttl, at)) \in Session
       /\ \A s \in SessionId, r \in Scope :
            LET l == AcquireLease(s, r, ttl, at) IN
            l \in Lease /\ ReleaseLease(l) \in Lease /\ RevokeLease(l) \in Lease
<1>1. NoSession \in Session /\ NoLease \in Lease
  BY PolicyAssumption DEF NoSession, NoLease, Session, Lease
<1>2. ASSUME NEW ttl \in Ttl, NEW at \in Nat
      PROVE  at + ttl \in Nat
  BY LeaseStoreAssumption
<1> QED
  BY <1>1, <1>2 DEF Session, Lease, IssueSession, RevokeSession, AcquireLease, ReleaseLease,
                    RevokeLease

\* The initial states satisfy the invariant: no call is made and nothing is stored.
LEMMA Starts == Init => IInv
<1> SUFFICES ASSUME Init PROVE IInv
  OBVIOUS
<1>1. TypeOK
  <2>1. sessions \in [SessionId -> Session]
    BY StoreTypes DEF Init
  <2>2. leases \in [LeaseId -> Lease]
    BY StoreTypes DEF Init
  <2>3. clock \in 0..MaxTime /\ started \in 0..MaxCalls /\ changed \in 0..MaxChanges
    BY LeaseStoreAssumption, CommandKernelAssumption DEF Init
  <2>4. /\ commands \in [CommandId -> Command]
        /\ events \in [CommandId -> Seq(Event)]
        /\ dedup \subseteq DedupKey
        /\ approvals \in [Scope -> Nat] /\ approvedUntil \in [Scope -> Nat]
        /\ call \in [Handler -> Call]
    BY Rest DEF Init
  <2> QED
    BY <2>1, <2>2, <2>3, <2>4 DEF TypeOK
<1>2. ASSUME NEW c \in Calls PROVE CallInv(c)
  <2>1. c = NoCall /\ NoCall.step = "idle" /\ NoCall.todo = <<>> /\ NoCall.now = 0
    BY DEF Calls, Init, NoCall
  <2> QED
    BY <2>1, Rest, QuietIsLegal DEF Init, Quiet
<1>3. StoreInv
  <2>1. \A id \in CommandId : commands[id].status = "absent" /\ events[id] = <<>>
    BY DEF Init, NoCommand
  <2> QED
    BY <2>1 DEF Init, StoreInv, RecordNeverAheadOfLog, CompletionIsDeduplicated,
                     LiveDeployIsAuthorised
<1> QED
  BY <1>1, <1>2, <1>3 DEF IInv

\* execute begins with every check to be made.
LEMMA ExecuteIsLegal ==
  ASSUME IInv, NEW c \in Call, c.failed = {}, c.todo = <<>>,
         NEW op \in Submitting, NEW q \in Envelope
  PROVE  Execute(c, op, q) \in Call /\ CallInv(Execute(c, op, q))
<1> DEFINE barred == {w \in ChecksOf(op) : Refused(w, q, clock, sessions, leases)}
           rivals == Competing(leases, q)
           x == Execute(c, op, q)
<1>1. clock \in Nat /\ clock <= clock
  BY LeaseStoreAssumption DEF IInv, TypeOK
<1>2. barred \subseteq ChecksOf(op) /\ barred \subseteq Check /\ rivals \subseteq LeaseId
  BY DEF ChecksOf, Competing, Others
<1>3. \A w \in barred : Refused(w, q, clock, sessions, leases)
  OBVIOUS
<1> HIDE DEF barred, rivals
<1>4. x = [c EXCEPT !.op = op, !.step = "get", !.req = q, !.now = clock, !.barred = barred,
                    !.rivals = rivals]
  BY DEF Execute, barred, rivals
<1> HIDE DEF x
<1>5. /\ x \in Call /\ x.op = op /\ x.step = "get" /\ x.req = q /\ x.now = clock
      /\ x.barred = barred /\ x.rivals = rivals /\ x.failed = {} /\ x.todo = <<>>
  <2>1. x \in Call
    BY <1>1, <1>2, <1>4 DEF Call
  <2>2. /\ x.op = op /\ x.step = "get" /\ x.req = q /\ x.now = clock
        /\ x.barred = barred /\ x.rivals = rivals /\ x.failed = {} /\ x.todo = <<>>
    BY <1>4 DEF Call
  <2> QED
    BY <2>1, <2>2
<1>6. BarredInv(x) /\ BaseInv(x)
  BY <1>2, <1>3, <1>5 DEF BarredInv, StillBarred, BaseInv, rivals
<1>7. Rests(x)
  BY <1>5 DEF Rests
<1>8. CallInv(x)
  BY <1>1, <1>5, <1>6, <1>7 DEF CallInv
<1> QED
  BY <1>5, <1>8 DEF x

\* Every call begins in a legal state.
LEMMA SubmitKeeps ==
  ASSUME IInv, NEW h \in Handler, NEW q \in Request, Begin(h, Submit(q))
  PROVE  IInv'
<1>1. NoCall.failed = {} /\ NoCall.todo = <<>>
  BY DEF NoCall
<1>2. Submit(q) \in Call /\ CallInv(Submit(q))
  BY <1>1, Rest, ExecuteIsLegal, CommandKernelAssumption DEF Submit, Submitting
<1> QED
  BY <1>2, BeginsKeep

LEMMA OnCommandIsLegal ==
  ASSUME TypeOK, NEW op \in Submitting \cup Transition, NEW id \in CommandId,
         NEW step \in {"check", "get"}, NEW reason \in Reason,
         step = "check" => op \in {"approve", "retry", "fail"},
         step = "get" => op \in Transition,
         NEW c, c \in {OnCommand(op, step, id), [OnCommand(op, step, id) EXCEPT !.reason = reason]}
  PROVE  c \in Call /\ CallInv(c)
<1>1. [AnyRequest EXCEPT !.command = id] \in Envelope
  BY Rest DEF Envelope
<1>2. /\ c \in Call /\ c.op = op /\ c.step = step /\ c.todo = <<>> /\ c.now = 0
      /\ c.barred = {} /\ c.failed = {}
  BY <1>1, Rest DEF OnCommand, NoCall, Call
<1>3. 0 <= clock
  BY DEF TypeOK
<1>4. Rests(c)
  BY <1>2 DEF Rests
<1> QED
  BY <1>2, <1>3, <1>4 DEF CallInv, BarredInv, BaseInv, Submitting, Transition

LEMMA BeginKeeps ==
  ASSUME IInv, NEW h \in Handler, NEW id \in CommandId,
         \/ Begin(h, Approve(id))
         \/ Begin(h, Retry(id))
         \/ \E reason \in FailReason : Begin(h, Fail(id, reason))
         \/ \E op \in {"reject", "cancel", "complete"} : Begin(h, Move(op, id))
  PROVE  IInv'
<1>1. TypeOK
  BY DEF IInv
<1>2. ASSUME NEW op \in {"approve", "retry"}, Begin(h, OnCommand(op, "check", id))
      PROVE  IInv'
  <2>1. OnCommand(op, "check", id) \in Call /\ CallInv(OnCommand(op, "check", id))
    BY <1>1, OnCommandIsLegal DEF Submitting, Reason
  <2> QED
    BY <1>2, <2>1, BeginsKeep
<1>3. ASSUME NEW reason \in FailReason, Begin(h, Fail(id, reason)) PROVE IInv'
  <2>1. Fail(id, reason) \in Call /\ CallInv(Fail(id, reason))
    BY <1>1, OnCommandIsLegal DEF Fail, Transition, Reason
  <2> QED
    BY <1>3, <2>1, BeginsKeep
<1>4. ASSUME NEW op \in {"reject", "cancel", "complete"}, Begin(h, Move(op, id)) PROVE IInv'
  <2>1. Move(op, id) \in Call /\ CallInv(Move(op, id))
    BY <1>1, OnCommandIsLegal DEF Move, Transition, Reason
  <2> QED
    BY <1>4, <2>1, BeginsKeep
<1> QED
  BY <1>2, <1>3, <1>4 DEF Approve, Retry

\* A call that throws keeps nothing but what it has written.
LEMMA EndKeeps ==
  ASSUME IInv, NEW h \in Handler, Abort(h) \/ Return(h)
  PROVE  IInv'
<1>1. NoCall.step = "idle" /\ NoCall.todo = <<>> /\ NoCall.now <= clock
  BY DEF IInv, TypeOK, NoCall
<1>2. NoCall \in Call /\ CallInv(NoCall)
  BY <1>1, Rest, QuietIsLegal DEF Quiet
<1>3. [NoCall EXCEPT !.step = "thrown"] \in Call /\ CallInv([NoCall EXCEPT !.step = "thrown"])
  BY Endings DEF IInv, Quiet
<1> QED
  BY <1>2, <1>3, BecomeKeeps DEF Abort, Return
-----------------------------------------------------------------------------
(***************************************************************************)
(* The steps of a call that write nothing.                                 *)
(***************************************************************************)
\* A record that is read is one of its command.
LEMMA SeenTypes ==
  ASSUME IInv, NEW id \in CommandId, NEW cmd \in CommandsSeen(id)
  PROVE  /\ cmd \in Command
         /\ cmd.status # "absent" => cmd.req.command = id
<1>1. cmd = commands[id] \/ cmd = NoCommand
  BY DEF CommandsSeen
<1>2. commands[id] \in Command /\ NoCommand \in Command
  BY Rest DEF IInv, TypeOK
<1>3. NoCommand.status = "absent"
  BY DEF NoCommand
<1> QED
  BY <1>1, <1>2, <1>3 DEF IInv, StoreInv

LEMMA CheckCommandKeeps ==
  ASSUME IInv, NEW h \in Handler, CheckCommand(h)
  PROVE  IInv'
<1> DEFINE c == call[h]
<1>1. /\ c \in Call /\ CallInv(c) /\ c.step = "check" /\ c.req.command \in CommandId
      /\ c.failed = {} /\ c.todo = <<>> /\ c.op \in {"approve", "retry", "fail"}
  BY CallsAreLegal DEF CheckCommand, CallInv, BarredInv, BaseInv, Call, Envelope
<1>2. PICK cmd \in CommandsSeen(c.req.command) :
        \/ Become(h, [NoCall EXCEPT !.step = "refused"])
        \/ c.op = "approve" /\ Become(h, Execute(c, "approve", [cmd.req EXCEPT !.explicit = TRUE]))
        \/ c.op = "retry" /\ Become(h, Execute(c, "retry", cmd.req))
        \/ Become(h, [c EXCEPT !.step = "done", !.result = cmd])
        \/ c.op = "fail" /\ Become(h, [c EXCEPT !.step = "get"])
  BY <1>1 DEF CheckCommand
<1>3. cmd \in Command /\ cmd.req \in Envelope
  BY <1>1, SeenTypes DEF Command
<1>4. CASE Become(h, [NoCall EXCEPT !.step = "refused"])
  BY <1>4, Endings, BecomeKeeps DEF IInv, Quiet
<1>5. CASE Become(h, Execute(c, "approve", [cmd.req EXCEPT !.explicit = TRUE]))
  <2>1. [cmd.req EXCEPT !.explicit = TRUE] \in Envelope
    BY <1>3 DEF Envelope
  <2> QED
    BY <1>1, <1>5, <2>1, ExecuteIsLegal, BecomeKeeps DEF Submitting
<1>6. CASE Become(h, Execute(c, "retry", cmd.req))
  BY <1>1, <1>3, <1>6, ExecuteIsLegal, BecomeKeeps DEF Submitting
<1>7. CASE Become(h, [c EXCEPT !.step = "done", !.result = cmd])
  <2> DEFINE x == [c EXCEPT !.step = "done", !.result = cmd]
  <2>1. x \in Call /\ x.step = "done" /\ x.todo = <<>> /\ x.now = c.now
    BY <1>1, <1>3 DEF Call
  <2> HIDE DEF x
  <2>2. x.now <= clock
    BY <1>1, <2>1 DEF CallInv
  <2>3. CallInv(x)
    BY <2>1, <2>2, QuietIsLegal DEF Quiet
  <2> QED
    BY <1>7, <2>1, <2>3, BecomeKeeps DEF x
<1>8. CASE c.op = "fail" /\ Become(h, [c EXCEPT !.step = "get"])
  <2> DEFINE x == [c EXCEPT !.step = "get"]
  <2>1. /\ x \in Call /\ x.step = "get" /\ x.op = "fail" /\ x.todo = <<>>
        /\ x.failed = {} /\ x.now = c.now
    BY <1>1, <1>8 DEF Call
  <2> HIDE DEF x
  <2>2. Rests(x)
    BY <2>1 DEF Rests
  <2>3. CallInv(x)
    BY <1>1, <2>1, <2>2 DEF CallInv, BarredInv, BaseInv, Submitting
  <2> QED
    BY <1>8, <2>1, <2>3, BecomeKeeps DEF x
<1> QED
  BY <1>2, <1>4, <1>5, <1>6, <1>7, <1>8

LEMMA SingleEventIsTyped ==
  ASSUME NEW status \in Status, NEW op
  PROVE  /\ SingleEvent(status) \in Seq(Write) /\ SingleEvent(status) # <<>>
         /\ SingleEvent(status) \o SaveDedup(op) \in Seq(Write)
         /\ SingleEvent(status) \o SaveDedup(op) # <<>>
<1>1. EventOf(status) \in Write /\ RecordOf(status, "other") \in Write /\ DedupEntry \in Write
  BY WritesTyped DEF Reason
<1>2. /\ <<EventOf(status), RecordOf(status, "other")>> \in Seq(Write)
      /\ <<EventOf(status), RecordOf(status, "other")>> # <<>>
  BY <1>1
<1>3. /\ <<EventOf(status), RecordOf(status, "other"), DedupEntry>> \in Seq(Write)
      /\ <<EventOf(status), RecordOf(status, "other"), DedupEntry>> # <<>>
  BY <1>1
<1>4. \/ SingleEvent(status) \o SaveDedup(op) = <<EventOf(status), RecordOf(status, "other")>>
      \/ SingleEvent(status) \o SaveDedup(op) =
           <<EventOf(status), RecordOf(status, "other"), DedupEntry>>
  BY Lists
<1> QED
  BY <1>2, <1>3, <1>4, Zenon DEF SingleEvent

LEMMA InlineIsTyped ==
  ASSUME NEW op
  PROVE  InlineExecution(op) \in Seq(Write) /\ InlineExecution(op) # <<>>
<1>1. /\ EventOf("emitted") \in Write /\ RecordOf("emitted", "none") \in Write
      /\ EventOf("completed") \in Write /\ RecordOf("completed", "other") \in Write
      /\ DedupEntry \in Write
  BY WritesTyped DEF Reason, Status
<1>2. /\ <<RecordOf("emitted", "none"), EventOf("emitted"), DedupEntry,
           EventOf("completed"), RecordOf("completed", "other")>> \in Seq(Write)
      /\ <<RecordOf("emitted", "none"), EventOf("emitted"), DedupEntry,
           EventOf("completed"), RecordOf("completed", "other")>> # <<>>
  BY <1>1
<1>3. /\ <<RecordOf("emitted", "none"), EventOf("emitted"),
           EventOf("completed"), RecordOf("completed", "other")>> \in Seq(Write)
      /\ <<RecordOf("emitted", "none"), EventOf("emitted"),
           EventOf("completed"), RecordOf("completed", "other")>> # <<>>
  BY <1>1
<1>4. \/ InlineExecution(op) = <<RecordOf("emitted", "none"), EventOf("emitted"), DedupEntry,
                                 EventOf("completed"), RecordOf("completed", "other")>>
      \/ InlineExecution(op) = <<RecordOf("emitted", "none"), EventOf("emitted"),
                                 EventOf("completed"), RecordOf("completed", "other")>>
  BY Lists
<1> QED
  BY <1>2, <1>3, <1>4, Zenon

\* A list of writes that is decided on is legal if what it holds rests on something.
LEMMA WritingIsLegal ==
  ASSUME NEW x \in Call, x.step = "write", x.todo # <<>>, x.now <= clock, Rests(x),
         x.base.req.command = x.req.command
  PROVE  CallInv(x)
BY DEF CallInv, BarredInv, BaseInv

\* The lists without an execution.
LEMMA SingleEventRests ==
  ASSUME NEW x, NEW status \in {"rejected", "queued"},
         x.todo \in {SingleEvent(status), SingleEvent(status) \o SaveDedup(x.op)}
  PROVE  Rests(x)
<1>1. \/ x.todo = <<EventOf(status), RecordOf(status, "other")>>
      \/ x.todo = <<EventOf(status), RecordOf(status, "other"), DedupEntry>>
  BY Lists
<1> QED
  BY <1>1, TransitionRests DEF Status

LEMMA GetForExecuteKeeps ==
  ASSUME IInv, NEW h \in Handler, GetForExecute(h)
  PROVE  IInv'
<1> DEFINE c == call[h]
<1>1. /\ c \in Call /\ CallInv(c) /\ c.step = "get" /\ c.op \in Submitting
      /\ c.req \in Envelope /\ c.req.command \in CommandId
  BY CallsAreLegal DEF GetForExecute, Call, Envelope
<1>2. PICK cmd \in CommandsSeen(c.req.command) :
        \/ Become(h, [c EXCEPT !.step = "read", !.base = BaseRecord(cmd, c.req),
                               !.pending = ChecksOf(c.op), !.unlisted = Others(c.req)])
        \/ Become(h, Decided([c EXCEPT !.base = BaseRecord(cmd, c.req)],
                             SingleEvent("rejected")))
  BY DEF GetForExecute
<1> DEFINE base == BaseRecord(cmd, c.req)
<1>3. cmd \in Command
  BY <1>1, SeenTypes
<1>4. base \in Command /\ base.req.command = c.req.command
  <2>1. [c.req EXCEPT !.keyOk = TRUE] \in Envelope
        /\ [c.req EXCEPT !.keyOk = TRUE].command = c.req.command
    BY <1>1 DEF Envelope
  <2>2. CASE cmd.status = "absent"
    <3>1. base = [[NoCommand EXCEPT !.status = "received"] EXCEPT !.req = [c.req EXCEPT !.keyOk = TRUE]]
      BY <2>2 DEF BaseRecord
    <3>2. base \in Command /\ base.req.command = c.req.command
      BY <2>1, <3>1, Rest DEF Command, NoCommand
    <3> QED
      BY <1>3, <3>2
  <2>3. CASE cmd.status # "absent"
    <3>1. base = [cmd EXCEPT !.req = [c.req EXCEPT !.keyOk = TRUE]]
      BY <2>3 DEF BaseRecord
    <3> QED
      BY <1>3, <2>1, <3>1 DEF Command
  <2> QED
    BY <2>2, <2>3
<1> HIDE DEF base
<1>5. CASE Become(h, [c EXCEPT !.step = "read", !.base = base, !.pending = ChecksOf(c.op),
                               !.unlisted = Others(c.req)])
  <2> DEFINE x == [c EXCEPT !.step = "read", !.base = base, !.pending = ChecksOf(c.op),
                            !.unlisted = Others(c.req)]
  <2>1. ChecksOf(c.op) \subseteq Check /\ Others(c.req) \subseteq LeaseId
    BY DEF ChecksOf, Others
  <2>2. /\ x \in Call /\ x.step = "read" /\ x.op = c.op /\ x.req = c.req /\ x.now = c.now
        /\ x.base = base /\ x.pending = ChecksOf(c.op) /\ x.unlisted = Others(c.req)
        /\ x.failed = c.failed /\ x.barred = c.barred /\ x.rivals = c.rivals
        /\ x.todo = c.todo
    BY <1>1, <1>4, <2>1 DEF Call
  <2> HIDE DEF x
  <2>3. BarredInv(x) /\ BaseInv(x)
    BY <1>1, <1>4, <2>2 DEF CallInv, BarredInv, StillBarred, BaseInv, Competing
  <2>4. x.todo = <<>> /\ Rests(x)
    BY <1>1, <2>2 DEF CallInv, Rests
  <2>5. CallInv(x)
    BY <1>1, <2>2, <2>3, <2>4 DEF CallInv
  <2> QED
    BY <1>5, <2>2, <2>5, BecomeKeeps DEF x
<1>6. CASE Become(h, Decided([c EXCEPT !.base = base], SingleEvent("rejected")))
  <2> DEFINE x == Decided([c EXCEPT !.base = base], SingleEvent("rejected"))
  <2>1. SingleEvent("rejected") \in Seq(Write) /\ SingleEvent("rejected") # <<>>
    BY SingleEventIsTyped DEF Status
  <2>2. /\ x \in Call /\ x.step = "write" /\ x.op = c.op /\ x.req = c.req /\ x.now = c.now
        /\ x.base = base /\ x.todo = SingleEvent("rejected")
    BY <1>1, <1>4, <2>1 DEF Decided, Call
  <2> HIDE DEF x
  <2>3. Rests(x)
    BY <2>2, SingleEventRests
  <2>4. CallInv(x)
    BY <1>1, <1>4, <2>1, <2>2, <2>3, WritingIsLegal DEF CallInv
  <2> QED
    BY <1>6, <2>2, <2>4, BecomeKeeps DEF x
<1> QED
  BY <1>2, <1>5, <1>6 DEF base

\* Reading on, a check that said no all along is counted among those that failed.
LEMMA ReadKeeps ==
  ASSUME IInv, NEW h \in Handler, NEW what \in Check, Read(h, what) \/ LeaveUnread(h, what)
  PROVE  IInv'
<1> DEFINE c == call[h]
           refused == Refused(what, c.req, c.now, sessions, leases)
           read == [c EXCEPT !.pending = @ \ {what},
                             !.failed = IF refused THEN @ \cup {what} ELSE @]
           unread == [c EXCEPT !.pending = @ \ {what}, !.barred = @ \ {what},
                               !.failed = IF what \in {"session", "lease"}
                                          THEN @ \cup {what} ELSE @]
<1>1. /\ c \in Call /\ CallInv(c) /\ c.step = "read" /\ c.op \in Submitting /\ c.todo = <<>>
      /\ c.barred \subseteq c.pending \cup c.failed
      /\ c.rivals \subseteq c.unlisted \/ "leases" \in c.failed
      /\ StillBarred(c)
  BY CallsAreLegal DEF Read, LeaveUnread, CallInv, BarredInv, BaseInv
<1>2. Become(h, read) \/ Become(h, unread)
  BY DEF Read, LeaveUnread
<1>3. /\ read \in Call /\ unread \in Call
      /\ read.barred = c.barred /\ unread.barred = c.barred \ {what}
      /\ read.pending = c.pending \ {what} /\ unread.pending = c.pending \ {what}
      /\ c.failed \subseteq read.failed /\ c.failed \subseteq unread.failed
      /\ refused => what \in read.failed
  BY <1>1 DEF Call
<1>4. ASSUME NEW x \in {read, unread}
      PROVE  /\ x.op = c.op /\ x.step = c.step /\ x.req = c.req /\ x.now = c.now
             /\ x.base = c.base /\ x.todo = c.todo
             /\ x.rivals = c.rivals /\ x.unlisted = c.unlisted
  BY <1>1 DEF Call
<1> HIDE DEF read, unread
<1>5. read.barred \subseteq read.pending \cup read.failed
  BY <1>1, <1>3 DEF StillBarred
<1>6. unread.barred \subseteq unread.pending \cup unread.failed
  BY <1>1, <1>3
<1>7. ASSUME NEW x \in {read, unread} PROVE x \in Call /\ CallInv(x)
  <2>1. BarredInv(x)
    BY <1>1, <1>3, <1>4, <1>5, <1>6 DEF BarredInv, StillBarred
  <2>2. BaseInv(x)
    BY <1>1, <1>4 DEF CallInv, BaseInv
  <2>3. Rests(x)
    BY <1>1, <1>4 DEF Rests
  <2> QED
    BY <1>1, <1>3, <1>4, <2>1, <2>2, <2>3 DEF CallInv
<1> QED
  BY <1>2, <1>7, BecomeKeeps

\* So is a lease of the list that held the resource all along.
LEMMA ListKeeps ==
  ASSUME IInv, NEW h \in Handler, NEW l \in LeaseId, ListLease(h, l) \/ MissLease(h, l)
  PROVE  IInv'
<1> DEFINE c == call[h]
           holds == HoldsResource(leases[l], c.req.scope)
           listed == [c EXCEPT !.unlisted = @ \ {l},
                               !.failed = IF holds THEN @ \cup {"leases"} ELSE @]
           missed == [c EXCEPT !.unlisted = @ \ {l}, !.rivals = @ \ {l}]
<1>1. /\ c \in Call /\ CallInv(c) /\ c.step = "read" /\ c.op \in Submitting /\ c.todo = <<>>
      /\ c.barred \subseteq c.pending \cup c.failed
      /\ c.rivals \subseteq c.unlisted \/ "leases" \in c.failed
      /\ StillBarred(c)
  BY CallsAreLegal DEF ListLease, MissLease, CallInv, BarredInv, BaseInv
<1>2. Become(h, listed) \/ Become(h, missed)
  BY DEF ListLease, MissLease
<1>3. /\ listed \in Call /\ missed \in Call
      /\ listed.rivals = c.rivals /\ missed.rivals = c.rivals \ {l}
      /\ listed.unlisted = c.unlisted \ {l} /\ missed.unlisted = c.unlisted \ {l}
      /\ c.failed \subseteq listed.failed /\ missed.failed = c.failed
      /\ holds => "leases" \in listed.failed
  BY <1>1 DEF Call
<1>4. ASSUME NEW x \in {listed, missed}
      PROVE  /\ x.op = c.op /\ x.step = c.step /\ x.req = c.req /\ x.now = c.now
             /\ x.base = c.base /\ x.todo = c.todo
             /\ x.barred = c.barred /\ x.pending = c.pending
  BY <1>1 DEF Call
<1>5. l \in c.rivals => holds
  BY <1>1 DEF StillBarred, Competing
<1> HIDE DEF listed, missed, holds
<1>6. listed.rivals \subseteq listed.unlisted \/ "leases" \in listed.failed
  BY <1>1, <1>3, <1>5
<1>7. missed.rivals \subseteq missed.unlisted \/ "leases" \in missed.failed
  BY <1>1, <1>3
<1>8. ASSUME NEW x \in {listed, missed} PROVE x \in Call /\ CallInv(x)
  <2>1. BarredInv(x)
    BY <1>1, <1>3, <1>4, <1>6, <1>7 DEF BarredInv, StillBarred
  <2>2. BaseInv(x)
    BY <1>1, <1>4 DEF CallInv, BaseInv
  <2>3. Rests(x)
    BY <1>1, <1>4 DEF Rests
  <2> QED
    BY <1>1, <1>3, <1>4, <2>1, <2>2, <2>3 DEF CallInv
<1> QED
  BY <1>2, <1>8, BecomeKeeps

\* What is executed inline was authorised.
LEMMA DecideKeeps ==
  ASSUME IInv, NEW h \in Handler, Decide(h) \/ MissApproval(h)
  PROVE  IInv'
<1> DEFINE c == call[h]
           single(status) == SingleEvent(status) \o SaveDedup(c.op)
<1>1. /\ c \in Call /\ CallInv(c) /\ c.step = "read"
      /\ c.req \in Envelope /\ c.req.command \in CommandId /\ c.now \in Nat
      /\ c.now <= clock /\ clock \in Nat
      /\ c.base.req.command = c.req.command
  BY CallsAreLegal DEF Decide, MissApproval, Answered, CallInv, BaseInv, Call, Envelope,
                       IInv, TypeOK
<1>2. PICK todo : /\ Become(h, Decided(c, todo))
                  /\ \/ todo = SingleEvent("rejected")
                     \/ \E status \in {"rejected", "queued"} : todo = single(status)
                     \/ todo = InlineExecution(c.op) /\ ~Forbidden(c.req)
  BY DEF Decide, MissApproval, Decision
<1> DEFINE x == Decided(c, todo)
<1> HIDE DEF single
<1>3. todo \in Seq(Write) /\ todo # <<>>
  BY <1>2, SingleEventIsTyped, InlineIsTyped DEF Status, single
<1>4. /\ x \in Call /\ x.step = "write" /\ x.todo = todo /\ x.op = c.op /\ x.req = c.req
      /\ x.now = c.now /\ x.base = c.base
  BY <1>1, <1>3 DEF Decided, Call
<1> HIDE DEF x
<1>5. Rests(x)
  <2>1. CASE todo = SingleEvent("rejected") \/ \E status \in {"rejected", "queued"} : todo = single(status)
    BY <1>4, <2>1, SingleEventRests DEF single
  <2>2. CASE todo = InlineExecution(c.op) /\ ~Forbidden(c.req)
    <3>1. Authorised(c.req, c.now)
      <4> SUFFICES ASSUME c.req.action = "deploy_live", ~c.req.explicit
                   PROVE  \E r \in Scope : SameResourceScope(r, c.req.scope) /\ approvedUntil[r] > c.now
        BY DEF Authorised
      <4>1. PICK r \in Scope : SameResourceScope(r, c.req.scope) /\ approvals[r] > clock
        BY <2>2 DEF Forbidden, HasScopedApproval
      <4>2. approvals[r] <= approvedUntil[r] /\ approvals[r] \in Nat /\ approvedUntil[r] \in Nat
        BY DEF IInv, TypeOK, StoreInv
      <4>3. approvedUntil[r] > c.now
        BY <1>1, <4>1, <4>2
      <4> QED
        BY <4>1, <4>3
    <3> QED
      BY <1>4, <2>2, <3>1, InlineRests
  <2> QED
    BY <1>2, <2>1, <2>2
<1>6. CallInv(x)
  BY <1>1, <1>3, <1>4, <1>5, WritingIsLegal
<1> QED
  BY <1>2, <1>4, <1>6, BecomeKeeps DEF x

\* A transition writes its event before its record, on the record it has read.
LEMMA GetForTransitionKeeps ==
  ASSUME IInv, NEW h \in Handler, GetForTransition(h)
  PROVE  IInv'
<1> DEFINE c == call[h]
           status == StatusOf(c.op)
           todo == <<EventOf(status), RecordOf(status, c.reason)>>
<1>1. /\ c \in Call /\ CallInv(c) /\ c.step = "get" /\ c.op \in Transition
      /\ c.req.command \in CommandId /\ c.reason \in Reason
  BY CallsAreLegal DEF GetForTransition, Call, Envelope
<1>2. PICK cmd \in CommandsSeen(c.req.command) :
        \/ Become(h, [NoCall EXCEPT !.step = "refused"])
        \/ /\ cmd.status # "absent"
           /\ Become(h, [c EXCEPT !.step = "write", !.base = cmd, !.req = cmd.req, !.now = clock,
                                  !.todo = todo])
  BY DEF GetForTransition
<1>3. CASE Become(h, [NoCall EXCEPT !.step = "refused"])
  BY <1>3, Endings, BecomeKeeps DEF IInv, Quiet
<1> DEFINE x == [c EXCEPT !.step = "write", !.base = cmd, !.req = cmd.req, !.now = clock,
                          !.todo = todo]
<1>4. CASE cmd.status # "absent" /\ Become(h, x)
  <2>1. cmd \in Command /\ cmd.req \in Envelope /\ cmd.req.command = c.req.command
    BY <1>1, <1>4, SeenTypes DEF Command
  <2>2. status \in Status \ {"emitted"}
    BY <1>1 DEF StatusOf, Transition, Status
  <2> HIDE DEF status
  <2>3. todo \in Seq(Write) /\ todo # <<>>
    <3>1. EventOf(status) \in Write /\ RecordOf(status, c.reason) \in Write
      BY <1>1, <2>2, WritesTyped
    <3> QED
      BY <3>1
  <2>4. clock \in Nat /\ clock <= clock
    BY DEF IInv, TypeOK
  <2> HIDE DEF todo
  <2>5. /\ x \in Call /\ x.step = "write" /\ x.base = cmd /\ x.req = cmd.req /\ x.now = clock
        /\ x.todo = todo /\ x.op = c.op
    BY <1>1, <2>1, <2>3, <2>4 DEF Call
  <2> HIDE DEF x
  <2>6. Rests(x)
    <3>1. x.todo = <<EventOf(status), RecordOf(status, c.reason)>>
      BY <2>5 DEF todo
    <3>2. x.op # "submit"
      BY <1>1, <2>5 DEF Transition
    <3> QED
      BY <2>2, <3>1, <3>2, TransitionRests
  <2>7. CallInv(x)
    BY <2>1, <2>3, <2>4, <2>5, <2>6, WritingIsLegal
  <2> QED
    BY <1>4, <2>5, <2>7, BecomeKeeps
<1> QED
  BY <1>2, <1>3, <1>4

LEMMA ReadBackKeeps ==
  ASSUME IInv, NEW h \in Handler, ReadBack(h)
  PROVE  IInv'
<1> DEFINE c == call[h]
<1>1. c \in Call /\ CallInv(c) /\ c.step = "final" /\ c.todo = <<>> /\ c.now <= clock
      /\ c.req.command \in CommandId
  BY CallsAreLegal DEF ReadBack, CallInv, Call, Envelope
<1>2. PICK cmd \in CommandsSeen(c.req.command) :
        \/ Become(h, [NoCall EXCEPT !.step = "refused"])
        \/ Become(h, [c EXCEPT !.step = "done", !.result = cmd])
  BY DEF ReadBack
<1>3. CASE Become(h, [NoCall EXCEPT !.step = "refused"])
  BY <1>3, Endings, BecomeKeeps DEF IInv, Quiet
<1>4. CASE Become(h, [c EXCEPT !.step = "done", !.result = cmd])
  <2> DEFINE x == [c EXCEPT !.step = "done", !.result = cmd]
  <2>1. cmd \in Command
    BY <1>1, SeenTypes
  <2>2. x \in Call /\ x.step = "done" /\ x.todo = <<>> /\ x.now = c.now
    BY <1>1, <2>1 DEF Call
  <2> HIDE DEF x
  <2>3. CallInv(x)
    BY <1>1, <2>2, QuietIsLegal DEF Quiet
  <2> QED
    BY <1>4, <2>2, <2>3, BecomeKeeps DEF x
<1> QED
  BY <1>2, <1>3, <1>4
-----------------------------------------------------------------------------
(***************************************************************************)
(* The writes.                                                             *)
(***************************************************************************)
\* The first write of the list is made.
Made(c) ==
  LET id == c.req.command
      w == Head(c.todo)
  IN /\ w.kind = "event" => Logged(id, w.status)'
     /\ w.kind = "dedup" => c.req.dedup \in dedup'

\* The call that made it: it writes on, or it is over.
Written(c, result) ==
  LET next == [c EXCEPT !.todo = Tail(@), !.result = result] IN
  IF Len(c.todo) = 1 THEN AfterWrites(next) ELSE next

\* Once its first write is made, the rest of a list rests on it or on what the
\* list rested on before.
LEMMA TailRests ==
  ASSUME Grows, NEW c \in Call, CallInv(c), c.step = "write", Made(c),
         NEW x \in Call, x.op = c.op, x.req = c.req, x.now = c.now, x.base = c.base,
         x.todo = Tail(c.todo)
  PROVE  Rests(x)'
<1>1. /\ c.todo \in Seq(Write) /\ c.todo # <<>> /\ Rests(c)
      /\ c.req \in Envelope /\ c.req.command \in CommandId /\ c.now \in Nat
  BY DEF CallInv, Call, Envelope
<1>2. /\ Head(c.todo) = c.todo[1]
      /\ \A i \in DOMAIN x.todo : i \in Nat \ {0} /\ i + 1 \in DOMAIN c.todo /\ x.todo[i] = c.todo[i + 1]
      /\ \A i \in DOMAIN c.todo : i \in Nat \ {0} /\ c.todo[i] \in Write /\ (i # 1 => i - 1 \in DOMAIN x.todo)
  <2>1. DOMAIN c.todo = 1..Len(c.todo) /\ \A i \in DOMAIN c.todo : c.todo[i] \in Write
    BY <1>1
  <2>2. x.todo \in Seq(Write)
    BY DEF Call
  <2>3. DOMAIN x.todo = 1..Len(x.todo)
    BY <2>2
  <2>4. Len(c.todo) \in Nat /\ Len(x.todo) \in Nat
    BY <1>1, <2>2
  <2> QED
    BY <1>1, <2>1, <2>3, <2>4, TailOf
<1>3. ASSUME NEW i \in DOMAIN x.todo
      PROVE  (RecordRests(x, i) /\ CompletionRests(x, i) /\ EmissionRests(x, i))'
  <2>1. /\ i + 1 \in DOMAIN c.todo /\ x.todo[i] = c.todo[i + 1] /\ i \in Nat
        /\ RecordRests(c, i + 1) /\ CompletionRests(c, i + 1) /\ EmissionRests(c, i + 1)
    BY <1>1, <1>2 DEF Rests
  <2>2. ASSUME NEW j \in DOMAIN c.todo, j < i + 1, j # 1
        PROVE  j - 1 \in DOMAIN x.todo /\ j - 1 < i /\ x.todo[j - 1] = c.todo[j]
    <3>1. j \in Nat \ {0} /\ j - 1 \in DOMAIN x.todo
      BY <1>2, <2>2
    <3>2. x.todo[j - 1] = c.todo[(j - 1) + 1] /\ (j - 1) + 1 = j
      BY <1>2, <3>1
    <3> QED
      BY <2>1, <2>2, <3>1, <3>2
  <2>3. RecordRests(x, i)'
    <3> SUFFICES ASSUME x.todo[i].kind = "record", x.todo[i].status # "emitted"
                 PROVE  \/ EventBefore(x.todo, i, x.todo[i].status)
                        \/ Logged(x.req.command, x.todo[i].status)'
      BY DEF RecordRests
    <3> DEFINE status == c.todo[i + 1].status
    <3>1. status \in Status
      BY <1>2, <2>1 DEF Write
    <3>2. CASE EventBefore(c.todo, i + 1, status)
      <4>1. PICK j \in DOMAIN c.todo : j < i + 1 /\ c.todo[j].kind = "event" /\ c.todo[j].status = status
        BY <3>2 DEF EventBefore
      <4>2. CASE j = 1
        <5>1. Logged(c.req.command, status)'
          BY <1>2, <4>1, <4>2 DEF Made
        <5> QED
          BY <2>1, <5>1
      <4>3. CASE j # 1
        BY <2>1, <2>2, <4>1, <4>3 DEF EventBefore
      <4> QED
        BY <4>2, <4>3
    <3>3. CASE Logged(c.req.command, status)
      <4>1. Logged(c.req.command, status)'
        BY <1>1, <3>1, <3>3 DEF Grows
      <4> QED
        BY <2>1, <4>1
    <3> QED
      BY <2>1, <3>2, <3>3 DEF RecordRests
  <2>4. CompletionRests(x, i)'
    <3> SUFFICES ASSUME x.op = "submit", x.todo[i].kind = "event", x.todo[i].status = "completed"
                 PROVE  DedupBefore(x.todo, i) \/ x.req.dedup \in dedup'
      BY DEF CompletionRests
    <3>1. CASE DedupBefore(c.todo, i + 1)
      <4>1. PICK j \in DOMAIN c.todo : j < i + 1 /\ c.todo[j].kind = "dedup"
        BY <3>1 DEF DedupBefore
      <4>2. CASE j = 1
        BY <1>2, <4>1, <4>2 DEF Made
      <4>3. CASE j # 1
        BY <2>2, <4>1, <4>3 DEF DedupBefore
      <4> QED
        BY <4>2, <4>3
    <3>2. CASE c.req.dedup \in dedup
      BY <3>2 DEF Grows
    <3> QED
      BY <2>1, <3>1, <3>2 DEF CompletionRests
  <2>5. EmissionRests(x, i)'
    BY <1>1, <2>1, AuthorisedGrows DEF EmissionRests
  <2> QED
    BY <2>3, <2>4, <2>5
<1> QED
  BY <1>3 DEF Rests

LEMMA WriterKeeps ==
  ASSUME Grows, NEW c \in Call, CallInv(c), c.step = "write", Made(c),
         NEW result \in Command, NEW x, x = Written(c, result)
  PROVE  x \in Call /\ CallInv(x)'
<1> DEFINE next == [c EXCEPT !.todo = Tail(@), !.result = result]
<1>1. /\ c.todo \in Seq(Write) /\ c.todo # <<>>
      /\ c.req \in Envelope /\ c.req.command \in CommandId /\ c.now \in Nat /\ c.now <= clock
      /\ c.base.req.command = c.req.command
  BY DEF CallInv, BaseInv, Call, Envelope
<1>2. Tail(c.todo) \in Seq(Write) /\ (Tail(c.todo) = <<>> <=> Len(c.todo) = 1)
  BY <1>1, TailOf
<1>3. /\ next \in Call /\ next.op = c.op /\ next.step = "write" /\ next.req = c.req
      /\ next.now = c.now /\ next.base = c.base
      /\ next.todo = Tail(c.todo) /\ next.result = result
  BY <1>2 DEF Call
<1>4. x = IF Len(c.todo) = 1 THEN AfterWrites(next) ELSE next
  BY DEF Written
<1> HIDE DEF next
<1>5. clock \in Nat /\ clock' \in Nat /\ clock <= clock'
  BY DEF Grows
<1>6. CASE Len(c.todo) = 1
  <2>1. x = AfterWrites(next)
    BY <1>4, <1>6
  <2>2. x \in Call /\ x.step \in Quiet /\ x.todo = <<>> /\ x.now = 0
    BY <1>1, <1>3, <2>1, Rest DEF AfterWrites, Call, NoCall, Quiet
  <2>3. Rests(x)'
    BY <2>2 DEF Rests
  <2>4. 0 <= clock'
    BY <1>5
  <2> QED
    BY <2>2, <2>3, <2>4 DEF CallInv, BarredInv, BaseInv, Quiet
<1>7. CASE Len(c.todo) # 1
  <2>1. x = next /\ Tail(c.todo) # <<>>
    BY <1>2, <1>4, <1>7
  <2>2. Rests(x)'
    BY <1>3, <2>1, TailRests
  <2>3. x.now <= clock'
    BY <1>1, <1>3, <1>5, <2>1
  <2> QED
    BY <1>1, <1>3, <2>1, <2>2, <2>3 DEF CallInv, BarredInv, BaseInv
<1> QED
  BY <1>6, <1>7

\* What is left to show of a write: that logs grow, and that the store stays sound.
LEMMA WriteKeeps ==
  ASSUME IInv, NEW h \in Handler, NEW c, c = call[h], c.step = "write", Grows, Made(c),
         NEW result \in Command, call' = [call EXCEPT ![h] = Written(c, result)],
         UNCHANGED <<storeVars, approvals, started, changed, approvedUntil>>,
         commands' \in [CommandId -> Command],
         events' \in [CommandId -> Seq(Event)],
         dedup' \subseteq DedupKey,
         StoreInv'
  PROVE  IInv'
<1>1. c \in Call /\ CallInv(c)
  BY CallsAreLegal
<1>2. PICK x : x = Written(c, result) /\ call' = [call EXCEPT ![h] = x]
  OBVIOUS
<1>3. x \in Call /\ CallInv(x)'
  BY <1>1, <1>2, WriterKeeps
<1>4. TypeOK'
  BY <1>2, <1>3 DEF IInv, TypeOK, storeVars
<1>5. ASSUME NEW y \in Calls' PROVE CallInv(y)'
  <2>1. PICK g \in Handler : y = call'[g]
    BY DEF Calls
  <2>2. CASE g = h
    BY <1>2, <1>3, <2>1, <2>2 DEF IInv, TypeOK
  <2>3. CASE g # h
    <3>1. y = call[g] /\ y \in Call /\ CallInv(y)
      BY <1>2, <2>1, <2>3, CallsAreLegal DEF IInv, TypeOK
    <3>2. ASSUME NEW w \in y.barred, Refused(w, y.req, y.now, sessions, leases)
          PROVE  Refused(w, y.req, y.now, sessions, leases)'
      BY <3>2 DEF Refused, SessionRefused, LeaseRefused, Grows, storeVars
    <3>3. y.step \in {"get", "read"} /\ y.op \in Submitting => StillBarred(y)'
      BY <3>1, <3>2 DEF CallInv, BarredInv, StillBarred, Competing, Others, storeVars
    <3> QED
      BY <3>1, <3>3, GrowthKeeps
  <2> QED
    BY <2>2, <2>3
<1> QED
  BY <1>4, <1>5 DEF IInv

LEMMA WriteNextKeeps ==
  ASSUME IInv, NEW h \in Handler, WriteNext(h)
  PROVE  IInv'
<1>0. PICK c : c = call[h]
  OBVIOUS
<1> DEFINE w == Head(c.todo)
           id == c.req.command
           rec == UpdateCommandRecord(c.base, w.status, w.reason)
           e == [status |-> w.status, req |-> c.req, at |-> c.now, submitted |-> c.op = "submit"]
           result == IF w.kind = "record" THEN rec ELSE c.result
<1>1. /\ c \in Call /\ CallInv(c) /\ c.step = "write" /\ c.todo \in Seq(Write) /\ c.todo # <<>>
      /\ c.req \in Envelope /\ id \in CommandId /\ c.req.dedup \in DedupKey /\ c.now \in Nat
      /\ c.base \in Command /\ c.base.attempts \in Nat /\ c.result \in Command
      /\ c.base.req.command = id
  BY <1>0, CallsAreLegal DEF WriteNext, CallInv, BaseInv, Call, Command, Envelope
<1>2. /\ w \in Write /\ 1 \in DOMAIN c.todo /\ w = c.todo[1]
      /\ RecordRests(c, 1) /\ CompletionRests(c, 1) /\ EmissionRests(c, 1)
      /\ \A status : ~EventBefore(c.todo, 1, status)
      /\ ~DedupBefore(c.todo, 1)
  <2>1. w \in Write /\ 1 \in DOMAIN c.todo /\ w = c.todo[1]
    BY <1>1, TailOf
  <2>2. \A j \in DOMAIN c.todo : ~(j < 1)
    BY <1>1
  <2> QED
    BY <1>1, <2>1, <2>2 DEF CallInv, Rests, EventBefore, DedupBefore
<1>3. /\ clock \in Nat /\ clock' = clock /\ approvedUntil' = approvedUntil
      /\ \A r \in Scope : approvedUntil[r] \in Nat
      /\ \A k \in CommandId : events[k] \in Seq(Event) /\ commands[k] \in Command
      /\ events \in [CommandId -> Seq(Event)] /\ commands \in [CommandId -> Command]
      /\ dedup \subseteq DedupKey
  BY DEF IInv, TypeOK, WriteNext, storeVars
<1>4. /\ UNCHANGED <<storeVars, approvals, started, changed, approvedUntil>>
      /\ \A r \in Scope : approvals'[r] <= approvedUntil'[r]
  BY DEF WriteNext, IInv, StoreInv
<1>5. call' = [call EXCEPT ![h] = Written(c, result)]
  BY <1>0 DEF WriteNext, Written
<1>6. w.kind = "record" => rec \in Command /\ rec.status = w.status /\ rec.req = c.base.req
  <2> SUFFICES ASSUME w.kind = "record"
               PROVE  rec \in Command /\ rec.status = w.status /\ rec.req = c.base.req
    OBVIOUS
  <2> DEFINE n == IF w.status \in {"queued", "rejected", "completed", "failed"}
                  THEN c.base.attempts + 1 ELSE c.base.attempts
  <2>1. w.status \in Status /\ w.reason \in Reason
    BY <1>2 DEF Write
  <2>2. n \in Nat
    BY <1>1
  <2>3. rec = [c.base EXCEPT !.status = w.status, !.reason = w.reason, !.attempts = n]
    BY DEF UpdateCommandRecord
  <2> HIDE DEF n, w, rec
  <2> QED
    BY <1>1, <2>1, <2>2, <2>3 DEF Command
<1>7. result \in Command
  BY <1>1, <1>6
<1>8. ASSUME w.kind = "event", UNCHANGED <<commands, dedup>>,
             NEW log \in Logging(events[id], e), events' = [events EXCEPT ![id] = log]
      PROVE  IInv'
  <2>1. e \in Event /\ w.status \in Status
    BY <1>1, <1>2, <1>8 DEF Write, Event
  <2>2. e.status = w.status /\ e.req = c.req /\ e.at = c.now /\ e.submitted = (c.op = "submit")
    OBVIOUS
  <2> HIDE DEF e
  <2>3. /\ log \in Seq(Event)
        /\ DOMAIN events[id] \subseteq DOMAIN log
        /\ \A i \in DOMAIN events[id] : log[i].status = events[id][i].status
        /\ \A i \in DOMAIN log : log[i] = e \/ (i \in DOMAIN events[id] /\ log[i] = events[id][i])
        /\ \E i \in DOMAIN log : log[i] = e
    BY <1>1, <1>3, <1>8, <2>1, LogGrows
  <2>4. /\ events' \in [CommandId -> Seq(Event)]
        /\ events'[id] = log
        /\ \A k \in CommandId : k # id => events'[k] = events[k]
    BY <1>1, <1>3, <1>8, <2>3
  <2>5. ASSUME NEW k \in CommandId
        PROVE  /\ DOMAIN events[k] \subseteq DOMAIN events'[k]
               /\ \A i \in DOMAIN events[k] : events'[k][i].status = events[k][i].status
               /\ \A i \in DOMAIN events'[k] :
                    \/ i \in DOMAIN events[k] /\ events'[k][i] = events[k][i]
                    \/ k = id /\ events'[k][i] = e
    BY <2>3, <2>4
  <2>6. \A k \in CommandId : \A status : Logged(k, status) => Logged(k, status)'
    BY <2>5 DEF Logged
  <2>7. Grows
    BY <1>3, <1>8, <2>6 DEF Grows
  <2>8. Made(c)
    BY <1>1, <1>8, <2>2, <2>3, <2>4 DEF Logged, Made
  <2>9. StoreInv'
    <3>1. \A k \in CommandId : commands'[k].status # "absent" => commands'[k].req.command = k
      BY <1>8 DEF IInv, StoreInv
    <3>2. RecordNeverAheadOfLog'
      BY <1>8, <2>6 DEF IInv, StoreInv, RecordNeverAheadOfLog
    <3>3. CompletionIsDeduplicated'
      <4>1. e.status = "completed" /\ e.submitted => e.req.dedup \in dedup
        BY <1>2, <1>8, <2>2 DEF CompletionRests
      <4> QED
        BY <1>8, <2>5, <4>1 DEF IInv, StoreInv, CompletionIsDeduplicated
    <3>4. LiveDeployIsAuthorised'
      <4>1. e.status = "emitted" /\ e.req.action = "deploy_live" /\ ~e.req.explicit =>
              \E r \in Scope : SameResourceScope(r, e.req.scope) /\ approvedUntil[r] > e.at
        BY <1>2, <1>8, <2>2 DEF EmissionRests, Emits, Authorised
      <4>2. ASSUME NEW k \in CommandId, NEW i \in DOMAIN events'[k],
                   events'[k][i].status = "emitted", events'[k][i].req.action = "deploy_live",
                   ~events'[k][i].req.explicit
            PROVE  \E r \in Scope : /\ SameResourceScope(r, events'[k][i].req.scope)
                                    /\ approvedUntil[r] > events'[k][i].at
        <5>1. CASE i \in DOMAIN events[k] /\ events'[k][i] = events[k][i]
          BY <4>2, <5>1 DEF IInv, StoreInv, LiveDeployIsAuthorised
        <5>2. CASE events'[k][i] = e
          BY <4>1, <4>2, <5>2
        <5> QED
          BY <2>5, <5>1, <5>2
      <4> QED
        BY <1>3, <4>2 DEF LiveDeployIsAuthorised
    <3> QED
      BY <1>4, <3>1, <3>2, <3>3, <3>4 DEF StoreInv
  <2> QED
    BY <1>0, <1>1, <1>3, <1>4, <1>5, <1>7, <1>8, <2>4, <2>7, <2>8, <2>9, WriteKeeps
<1>9. CASE w.kind = "record" /\ commands' = [commands EXCEPT ![id] = rec]
           /\ UNCHANGED <<events, dedup>>
  <2> HIDE DEF rec
  <2>2. Grows
    BY <1>3, <1>9 DEF Grows, Logged
  <2>3. /\ commands' \in [CommandId -> Command]
        /\ commands'[id] = rec /\ \A k \in CommandId : k # id => commands'[k] = commands[k]
    BY <1>1, <1>3, <1>6, <1>9
  <2>4. w.status # "emitted" => Logged(id, w.status)
    BY <1>2, <1>9 DEF RecordRests
  <2>5. StoreInv'
    <3>1. ASSUME NEW k \in CommandId
          PROVE  commands'[k].status # "absent" => commands'[k].req.command = k
      <4>1. CASE k = id
        BY <1>1, <1>6, <1>9, <2>3, <4>1
      <4>2. CASE k # id
        BY <2>3, <4>2 DEF IInv, StoreInv
      <4> QED
        BY <4>1, <4>2
    <3>2. RecordNeverAheadOfLog'
      <4>1. ASSUME NEW k \in CommandId, commands'[k].status \notin {"absent", "emitted"}
            PROVE  Logged(k, commands'[k].status)
        <5>1. CASE k = id
          BY <1>6, <1>9, <2>3, <2>4, <4>1, <5>1
        <5>2. CASE k # id
          BY <2>3, <4>1, <5>2 DEF IInv, StoreInv, RecordNeverAheadOfLog
        <5> QED
          BY <5>1, <5>2
      <4> QED
        BY <1>9, <4>1 DEF RecordNeverAheadOfLog, Logged
    <3>3. CompletionIsDeduplicated' /\ LiveDeployIsAuthorised'
      BY <1>3, <1>9 DEF IInv, StoreInv, CompletionIsDeduplicated, LiveDeployIsAuthorised
    <3> QED
      BY <1>4, <3>1, <3>2, <3>3 DEF StoreInv
  <2>6. Made(c)
    BY <1>9 DEF Made
  <2> QED
    BY <1>0, <1>1, <1>3, <1>4, <1>5, <1>7, <1>9, <2>2, <2>3, <2>5, <2>6, WriteKeeps
<1>10. CASE w.kind = "dedup" /\ dedup' = dedup \cup {c.req.dedup} /\ UNCHANGED <<commands, events>>
  <2>2. Grows
    BY <1>3, <1>10 DEF Grows, Logged
  <2>3. StoreInv'
    BY <1>3, <1>4, <1>10 DEF IInv, StoreInv, RecordNeverAheadOfLog, Logged,
                                   CompletionIsDeduplicated, LiveDeployIsAuthorised
  <2>4. Made(c)
    BY <1>10 DEF Made
  <2> QED
    BY <1>0, <1>1, <1>3, <1>4, <1>5, <1>7, <1>10, <2>2, <2>3, <2>4, WriteKeeps
<1> QED
  BY <1>0, <1>8, <1>9, <1>10 DEF WriteNext
-----------------------------------------------------------------------------
(***************************************************************************)
(* What changes under the calls.                                           *)
(***************************************************************************)
LEMMA StoreNextTypes ==
  ASSUME TypeOK, StoreNext
  PROVE  /\ clock' \in 0..MaxTime /\ clock <= clock' /\ clock \in Nat /\ clock' \in Nat
         /\ sessions' \in [SessionId -> Session]
         /\ leases' \in [LeaseId -> Lease]
<1>1. /\ clock \in 0..MaxTime /\ MaxTime \in Nat /\ 0..clock \subseteq Nat
      /\ sessions \in [SessionId -> Session] /\ leases \in [LeaseId -> Lease]
  BY LeaseStoreAssumption DEF TypeOK
<1>2. CASE Tick
  BY <1>1, <1>2 DEF Tick
<1>3. ASSUME NEW s \in SessionId, ActivateSession(s) \/ EndSession(s)
      PROVE  clock' = clock /\ leases' = leases /\ sessions' \in [SessionId -> Session]
  <2>1. PICK session \in Session : sessions' = [sessions EXCEPT ![s] = session]
    BY <1>1, <1>3, StoreTypes DEF ActivateSession, EndSession
  <2> QED
    BY <1>1, <1>3, <2>1 DEF ActivateSession, EndSession
<1>4. ASSUME NEW l \in LeaseId, GrantLease(l) \/ EndLease(l)
      PROVE  clock' = clock /\ sessions' = sessions /\ leases' \in [LeaseId -> Lease]
  <2>1. PICK lease \in Lease : leases' = [leases EXCEPT ![l] = lease]
    BY <1>1, <1>4, StoreTypes DEF GrantLease, EndLease
  <2> QED
    BY <1>1, <1>4, <2>1 DEF GrantLease, EndLease
<1> QED
  BY <1>1, <1>2, <1>3, <1>4 DEF StoreNext

\* A barred check stays barred for as long as it would say no.
LEMMA StoreStepKeeps ==
  ASSUME IInv, changed' \in 0..MaxChanges, StoreStep
  PROVE  IInv'
<1>1. /\ clock' \in 0..MaxTime /\ clock <= clock' /\ clock \in Nat /\ clock' \in Nat
      /\ sessions' \in [SessionId -> Session] /\ leases' \in [LeaseId -> Lease]
  BY StoreNextTypes DEF IInv, StoreStep
<1>2. UNCHANGED <<commands, events, dedup, approvals, started, approvedUntil>>
  BY DEF StoreStep
<1>3. Grows
  BY <1>1, <1>2 DEF Grows, Logged, IInv, TypeOK
<1>4. ASSUME NEW g \in Handler
      PROVE  call'[g] \in Call /\ \A y : y = call'[g] => CallInv(y)'
  <2>1. PICK c : c = call[g]
    OBVIOUS
  <2>2. PICK barred, rivals :
          /\ barred = {w \in c.barred : Refused(w, c.req, c.now, sessions', leases')}
          /\ rivals = c.rivals \cap Competing(leases', c.req)
    OBVIOUS
  <2>3. c \in Call /\ CallInv(c) /\ call'[g] = [c EXCEPT !.barred = barred, !.rivals = rivals]
    BY <2>1, <2>2, CallsAreLegal DEF StoreStep
  <2>4. PICK x : x = [c EXCEPT !.barred = barred, !.rivals = rivals]
    OBVIOUS
  <2>5. /\ barred \subseteq c.barred /\ barred \subseteq Check
        /\ rivals \subseteq c.rivals /\ rivals \subseteq LeaseId
    BY <2>2, <2>3 DEF Call
  <2>6. /\ x \in Call /\ x.op = c.op /\ x.step = c.step /\ x.req = c.req /\ x.now = c.now
        /\ x.base = c.base /\ x.pending = c.pending /\ x.unlisted = c.unlisted
        /\ x.failed = c.failed /\ x.todo = c.todo /\ x.barred = barred /\ x.rivals = rivals
    BY <2>3, <2>4, <2>5 DEF Call
  <2>7. StillBarred(x)'
    BY <1>2, <2>2, <2>6 DEF StillBarred, Competing, Others, Refused, SessionRefused, LeaseRefused
  <2>8. CallInv(x)'
    BY <1>3, <2>3, <2>5, <2>6, <2>7, GrowthKeeps
  <2> QED
    BY <2>3, <2>4, <2>6, <2>8
<1>5. call' \in [Handler -> Call]
  BY <1>4 DEF StoreStep
<1>6. TypeOK'
  BY <1>1, <1>2, <1>5 DEF IInv, TypeOK
<1>7. StoreInv'
  BY <1>2 DEF IInv, StoreInv, RecordNeverAheadOfLog, CompletionIsDeduplicated,
              LiveDeployIsAuthorised, Logged
<1>8. ASSUME NEW y \in Calls' PROVE CallInv(y)'
  BY <1>4 DEF Calls
<1> QED
  BY <1>6, <1>7, <1>8 DEF IInv

\* Approvals come and go; what was approved once stays known.
LEMMA ApprovalKeeps ==
  ASSUME IInv, changed' \in 0..MaxChanges, NEW r \in Scope,
         DeleteApproval(r) \/ \E ttl \in ApprovalTtl : CreateApproval(r, ttl)
  PROVE  IInv'
<1>1. PICK until \in Nat, latest \in Nat :
        /\ approvals' = [approvals EXCEPT ![r] = until]
        /\ approvedUntil' = [approvedUntil EXCEPT ![r] = latest]
        /\ until <= latest /\ approvedUntil[r] <= latest
  <2>1. /\ clock \in Nat /\ approvals \in [Scope -> Nat] /\ approvedUntil \in [Scope -> Nat]
        /\ approvedUntil[r] \in Nat
    BY DEF IInv, TypeOK
  <2>2. CASE DeleteApproval(r)
    <3>1. approvedUntil' = [approvedUntil EXCEPT ![r] = approvedUntil[r]]
      BY <2>1, <2>2 DEF DeleteApproval
    <3>2. approvals' = [approvals EXCEPT ![r] = 0] /\ 0 <= approvedUntil[r] /\ approvedUntil[r] <= approvedUntil[r]
      BY <2>1, <2>2 DEF DeleteApproval
    <3> QED
      BY <2>1, <3>1, <3>2
  <2>3. ASSUME NEW ttl \in ApprovalTtl, CreateApproval(r, ttl)
        PROVE  \E until, latest \in Nat :
                 /\ approvals' = [approvals EXCEPT ![r] = until]
                 /\ approvedUntil' = [approvedUntil EXCEPT ![r] = latest]
                 /\ until <= latest /\ approvedUntil[r] <= latest
    <3> DEFINE until == clock + ttl
               latest == IF until > approvedUntil[r] THEN until ELSE approvedUntil[r]
    <3>1. until \in Nat /\ latest \in Nat /\ until <= latest /\ approvedUntil[r] <= latest
      BY <2>1, CommandKernelAssumption
    <3>2. /\ approvals' = [approvals EXCEPT ![r] = until]
          /\ approvedUntil' = [approvedUntil EXCEPT ![r] = latest]
      BY <2>3 DEF CreateApproval
    <3> HIDE DEF until, latest
    <3> QED
      BY <3>1, <3>2
  <2> QED
    BY <2>2, <2>3
<1>2. UNCHANGED <<storeVars, commands, events, dedup, call, started>>
  BY DEF DeleteApproval, CreateApproval
<1>3. /\ approvals \in [Scope -> Nat] /\ approvedUntil \in [Scope -> Nat]
      /\ \A q \in Scope : approvals[q] <= approvedUntil[q]
  BY DEF IInv, TypeOK, StoreInv
<1>4. /\ approvals' \in [Scope -> Nat] /\ approvedUntil' \in [Scope -> Nat]
      /\ \A q \in Scope : /\ approvals'[q] <= approvedUntil'[q]
                          /\ approvedUntil[q] \in Nat /\ approvedUntil'[q] \in Nat
                          /\ approvedUntil[q] <= approvedUntil'[q]
  <2>1. approvals' \in [Scope -> Nat] /\ approvedUntil' \in [Scope -> Nat]
    BY <1>1, <1>3
  <2>2. ASSUME NEW q \in Scope
        PROVE  approvals'[q] <= approvedUntil'[q] /\ approvedUntil[q] <= approvedUntil'[q]
    <3>1. CASE q = r
      BY <1>1, <1>3, <3>1
    <3>2. CASE q # r
      <4>1. approvals'[q] = approvals[q] /\ approvedUntil'[q] = approvedUntil[q]
        BY <1>1, <1>3, <3>2
      <4>2. approvals[q] <= approvedUntil[q] /\ approvedUntil[q] \in Nat
        BY <1>3
      <4> QED
        BY <4>1, <4>2
    <3> QED
      BY <3>1, <3>2
  <2> QED
    BY <1>3, <2>1, <2>2
<1>5. TypeOK'
  BY <1>2, <1>4 DEF IInv, TypeOK, storeVars
<1>6. Grows
  <2>1. clock \in Nat /\ clock' = clock /\ clock <= clock
    BY <1>2 DEF IInv, TypeOK, storeVars
  <2> QED
    BY <1>2, <1>4, <2>1 DEF Grows, Logged
<1>7. LiveDeployIsAuthorised'
  <2> SUFFICES ASSUME NEW id \in CommandId, NEW i \in DOMAIN events[id],
                      events[id][i].status = "emitted", events[id][i].req.action = "deploy_live",
                      ~events[id][i].req.explicit
               PROVE  \E q \in Scope : /\ SameResourceScope(q, events[id][i].req.scope)
                                       /\ approvedUntil'[q] > events[id][i].at
    BY <1>2 DEF LiveDeployIsAuthorised
  <2>1. PICK q \in Scope : /\ SameResourceScope(q, events[id][i].req.scope)
                           /\ approvedUntil[q] > events[id][i].at
    BY DEF IInv, StoreInv, LiveDeployIsAuthorised
  <2>2. events[id][i].at \in Nat
    <3>1. events[id] \in Seq(Event)
      BY DEF IInv, TypeOK
    <3>2. events[id][i] \in Event
      BY <3>1
    <3> QED
      BY <3>2 DEF Event
  <2>3. approvedUntil'[q] > events[id][i].at
    BY <1>4, <2>1, <2>2
  <2> QED
    BY <2>1, <2>3
<1>8. StoreInv'
  BY <1>2, <1>4, <1>7 DEF IInv, StoreInv, RecordNeverAheadOfLog, CompletionIsDeduplicated,
                          Logged
<1>9. ASSUME NEW x \in Calls' PROVE CallInv(x)'
  <2>1. x \in Call /\ CallInv(x)
    BY <1>2, CallsAreLegal DEF Calls, IInv, TypeOK
  <2>2. BarredInv(x)'
    BY <1>2, <2>1 DEF CallInv, BarredInv, StillBarred, Refused, SessionRefused, LeaseRefused,
                      Competing, Others, storeVars
  <2> QED
    BY <1>6, <2>1, <2>2, GrowthKeeps DEF BarredInv
<1> QED
  BY <1>5, <1>8, <1>9 DEF IInv

LEMMA EnvironmentKeeps ==
  ASSUME IInv, Environment
  PROVE  IInv'
<1>1. changed' \in 0..MaxChanges
  BY CommandKernelAssumption DEF IInv, TypeOK, Environment
<1> QED
  BY <1>1, StoreStepKeeps, ApprovalKeeps DEF Environment
-----------------------------------------------------------------------------
LEMMA CallStepKeeps ==
  ASSUME IInv, NEW h \in Handler, CallStep(h)
  PROVE  IInv'
BY CheckCommandKeeps, GetForExecuteKeeps, ReadKeeps, ListKeeps, DecideKeeps,
   GetForTransitionKeeps, WriteNextKeeps, ReadBackKeeps DEF CallStep

LEMMA StepKeeps ==
  ASSUME IInv, Next
  PROVE  IInv'
<1>1. CASE Environment
  BY <1>1, EnvironmentKeeps
<1>2. ASSUME NEW h \in Handler, NEW q \in Request, Begin(h, Submit(q)) PROVE IInv'
  BY <1>2, SubmitKeeps
<1>3. ASSUME NEW h \in Handler, NEW c \in CommandId,
             \/ Begin(h, Approve(c))
             \/ Begin(h, Retry(c))
             \/ \E reason \in {"retry_exhausted", "not_found"} : Begin(h, Fail(c, reason))
             \/ \E op \in {"reject", "cancel", "complete"} : Begin(h, Move(op, c))
      PROVE  IInv'
  BY <1>3, BeginKeeps DEF FailReason
<1>4. ASSUME NEW h \in Handler, CallStep(h) PROVE IInv'
  BY <1>4, CallStepKeeps
<1>5. ASSUME NEW h \in Handler, Abort(h) \/ Return(h) PROVE IInv'
  BY <1>5, EndKeeps
<1> QED
  BY <1>1, <1>2, <1>3, <1>4, <1>5 DEF Next

LEMMA StutterKeeps ==
  ASSUME IInv, UNCHANGED vars
  PROVE  IInv'
<1> USE DEF vars, kernelVars, storeVars
<1>1. TypeOK'
  BY DEF IInv, TypeOK
<1>2. StoreInv'
  BY DEF IInv, StoreInv, RecordNeverAheadOfLog, CompletionIsDeduplicated,
         LiveDeployIsAuthorised, Logged
<1>3. Grows
  BY DEF IInv, TypeOK, Grows, Logged
<1>4. ASSUME NEW x \in Calls' PROVE CallInv(x)'
  <2>1. x \in Call /\ CallInv(x)
    BY CallsAreLegal DEF Calls, IInv, TypeOK
  <2>2. BarredInv(x)'
    BY <2>1 DEF CallInv, BarredInv, StillBarred, Refused, SessionRefused, LeaseRefused,
                Competing, Others
  <2> QED
    BY <1>3, <2>1, <2>2, GrowthKeeps DEF BarredInv
<1> QED
  BY <1>1, <1>2, <1>4 DEF IInv

LEMMA Invariance == Spec => []IInv
<1>1. IInv /\ [Next]_vars => IInv'
  BY StutterKeeps, StepKeeps
<1> QED
  BY <1>1, Starts, PTL DEF Spec
-----------------------------------------------------------------------------
\* Every variable of the command services keeps to its type.
THEOREM KernelTypes == Spec => []TypeOK
BY Invariance, PTL DEF IInv

\* A call that is reading gets writes only when all its reads have answered.
LEMMA OnlyDecisionsWrite ==
  ASSUME IInv, [Next]_vars, NEW h \in Handler, call[h].step = "read", call'[h].todo # <<>>
  PROVE  Decide(h) \/ MissApproval(h)
<1>1. call[h] \in Call /\ call[h].todo = <<>> /\ call \in [Handler -> Call]
  BY CallsAreLegal DEF CallInv, IInv, TypeOK
<1>2. call'[h] # call[h]
  BY <1>1
<1>3. ~Environment
  <2>1. CASE StoreStep
    <3>1. PICK barred, rivals : call'[h] = [call[h] EXCEPT !.barred = barred, !.rivals = rivals]
      BY <2>1 DEF StoreStep
    <3>2. call'[h].todo = call[h].todo
      BY <1>1, <3>1 DEF Call
    <3> QED
      BY <1>1, <3>2
  <2>2. ASSUME NEW r \in Scope,
               DeleteApproval(r) \/ \E ttl \in ApprovalTtl : CreateApproval(r, ttl)
        PROVE  call' = call
    BY <2>2 DEF DeleteApproval, CreateApproval
  <2> QED
    BY <1>2, <2>1, <2>2 DEF Environment
<1>4. ASSUME NEW g \in Handler, NEW c, Begin(g, c) PROVE FALSE
  BY <1>1, <1>2, <1>4 DEF Begin, Idle
<1>5. ASSUME NEW g \in Handler, Abort(g) \/ Return(g) PROVE FALSE
  <2>1. NoCall.todo = <<>> /\ [NoCall EXCEPT !.step = "thrown"].todo = <<>>
    BY DEF NoCall
  <2> QED
    BY <1>1, <1>2, <1>5, <2>1 DEF Abort, Return, Become
<1>6. PICK g \in Handler : CallStep(g)
  BY <1>2, <1>3, <1>4, <1>5 DEF Next, vars, kernelVars
<1>7. g = h
  <2>1. ASSUME NEW c, Become(g, c) PROVE g = h
    BY <1>1, <1>2, <2>1 DEF Become
  <2>2. ASSUME WriteNext(g) PROVE g = h
    BY <1>1, <1>2, <2>2 DEF WriteNext
  <2> QED
    BY <1>6, <2>1, <2>2 DEF CallStep, CheckCommand, GetForExecute, Read, LeaveUnread, ListLease,
                            MissLease, Decide, MissApproval, GetForTransition, ReadBack
<1>8. ASSUME NEW what \in Check, Read(h, what) \/ LeaveUnread(h, what) PROVE FALSE
  <2>1. CASE Read(h, what)
    <3>1. PICK pending, failed : call'[h] = [call[h] EXCEPT !.pending = pending, !.failed = failed]
      BY <1>1, <2>1 DEF Read, Become
    <3> QED
      BY <1>1, <3>1 DEF Call
  <2>2. CASE LeaveUnread(h, what)
    <3>1. PICK pending, barred, failed :
            call'[h] = [call[h] EXCEPT !.pending = pending, !.barred = barred, !.failed = failed]
      BY <1>1, <2>2 DEF LeaveUnread, Become
    <3> QED
      BY <1>1, <3>1 DEF Call
  <2> QED
    BY <1>8, <2>1, <2>2
<1>9. ASSUME NEW l \in LeaseId, ListLease(h, l) \/ MissLease(h, l) PROVE FALSE
  <2>1. call'[h].todo = call[h].todo
    BY <1>1, <1>9 DEF ListLease, MissLease, Become, Call
  <2> QED
    BY <1>1, <2>1
<1> QED
  BY <1>6, <1>7, <1>8, <1>9 DEF CallStep, CheckCommand, GetForExecute, GetForTransition,
                                WriteNext, ReadBack

\* They include an inline execution only if no read has said no.
LEMMA OnlyPassedChecksEmit ==
  ASSUME NEW c, Answered(c),
         NEW todo \in {Decision(c), SingleEvent("rejected") \o SaveDedup(c.op)},
         WillEmit(Decided(c, todo)), Decided(c, todo).todo = todo
  PROVE  c.failed \cap {"session", "lease", "dedup", "leases"} = {}
<1>1. ASSUME NEW status \in {"rejected", "queued"},
             todo \in {SingleEvent(status), SingleEvent(status) \o SaveDedup(c.op)}
      PROVE  FALSE
  <2>1. \/ todo = <<EventOf(status), RecordOf(status, "other")>>
        \/ todo = <<EventOf(status), RecordOf(status, "other"), DedupEntry>>
    BY <1>1, Lists
  <2>2. \A i \in DOMAIN todo : todo[i] \in {EventOf(status), RecordOf(status, "other"), DedupEntry}
    BY <2>1
  <2>3. \E i \in DOMAIN todo : todo[i] = RecordOf("emitted", "none")
    BY DEF WillEmit
  <2>4. RecordOf("emitted", "none") \notin {EventOf(status), RecordOf(status, "other"), DedupEntry}
    BY <1>1 DEF RecordOf, EventOf, DedupEntry
  <2> QED
    BY <2>2, <2>3, <2>4
<1> QED
  BY <1>1 DEF Decision

\* Nothing runs inline past a check that said no all along or a lease that held the
\* resource all along (submit-command.service.ts:47-84), whatever the other calls
\* write meanwhile and however many leases there are to fetch.
THEOREM BarredIsNotExecuted == Spec => NoExecutionWhileBarred
<1> DEFINE Inline == \A h \in Handler :
             call[h].step = "read" /\ WillEmit(call'[h]) =>
               call[h].barred = {} /\ call[h].rivals = {}
<1>1. ASSUME IInv, [Next]_vars, NEW h \in Handler,
             call[h].step = "read", WillEmit(call'[h])
      PROVE  call[h].barred = {} /\ call[h].rivals = {}
  <2> DEFINE c == call[h]
  <2>1. /\ c \in Call /\ call \in [Handler -> Call]
        /\ c.barred \subseteq c.pending \cup c.failed
        /\ c.rivals \subseteq c.unlisted \/ "leases" \in c.failed
        /\ c.barred \subseteq Check
    BY <1>1, CallsAreLegal DEF CallInv, BarredInv, IInv, TypeOK, Call
  <2>2. call'[h].todo # <<>>
    BY <1>1 DEF WillEmit
  <2>3. Decide(h) \/ MissApproval(h)
    BY <1>1, <2>2, OnlyDecisionsWrite
  <2>4. PICK todo \in {Decision(c), SingleEvent("rejected") \o SaveDedup(c.op)} :
          Answered(c) /\ call'[h] = Decided(c, todo) /\ Decided(c, todo).todo = todo
    BY <2>1, <2>3 DEF Decide, MissApproval, Become, Decided, Call
  <2>5. c.failed \cap {"session", "lease", "dedup", "leases"} = {}
    BY <1>1, <2>4, OnlyPassedChecksEmit
  <2> QED
    BY <2>1, <2>4, <2>5 DEF Answered, Check
<1>2. IInv /\ [Next]_vars => [Inline]_vars
  BY <1>1
<1> QED
  BY <1>2, Invariance, PTL DEF Spec, NoExecutionWhileBarred

\* The log is never behind the record (command-lifecycle.service.ts:92-94,
\* submit-command.service.ts:109-110, 139-140), wherever a call is cut short.
THEOREM LogComesFirst == Spec => []RecordNeverAheadOfLog
BY Invariance, PTL DEF IInv, StoreInv

\* Once a submitted command is logged as completed its dedup key is stored
\* (submit-command.service.ts:105-109).
THEOREM CompletionsAreStored == Spec => []CompletionIsDeduplicated
BY Invariance, PTL DEF IInv, StoreInv

\* No live deploy is emitted without explicitLive or a scoped approval
\* (guardrail.policy.ts:19-29), whoever submits, retries or approves it.
THEOREM LiveDeploysAreAuthorised == Spec => []LiveDeployIsAuthorised
BY Invariance, PTL DEF IInv, StoreInv
=============================================================================
