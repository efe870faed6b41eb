------------------------------- MODULE McpBroker -------------------------------
(***************************************************************************)
(* One session of the MCP broker Durable Object: its subscriptions, its    *)
(* history of notifications, and the clients that drain or follow it.      *)
(* Sessions do not touch each other, so one shows all.                     *)
(*                                                                         *)
(* Nothing else runs in the object while it waits for its storage, so a    *)
(* request that only uses storage is one step, and a notification reaches  *)
(* the waiting followers in the step that stores it.  The exception is     *)
(* subscribe and unsubscribe, which read the session and then wait for the *)
(* body of the request before they write the session back.                 *)
(***************************************************************************)
EXTENDS Integers, SequencesExt

CONSTANTS
  Uri,          \* resources that can be subscribed to
  Client,       \* readers that send the Last-Event-ID they know, if any
  Handler,      \* concurrent subscribe and unsubscribe requests
  History,      \* MAX_EVENT_HISTORY
  MaxIssued     \* bound on the number of notifications

ASSUME McpBrokerAssumption ==
  /\ IsFiniteSet(Uri)
  /\ History \in Nat \ {0}
  /\ MaxIssued \in Nat

VARIABLES
  session,      \* the stored session record
  followers,    \* clients with an open follow=1 stream (in memory)
  pending,      \* subscribe requests waiting for their body
  received,     \* the notifications each client was sent, in order
  lastId,       \* the id of the last event each client was sent, 0 if none
  origin,       \* history: where each client's stream began
  issued,       \* history: number of notifications enqueued
  overwritten   \* history: a subscribe took notifications back

brokerVars == <<session, followers, pending, received, lastId, origin, issued, overwritten>>

\* Ids are the zero-padded sequence numbers; number is the notification itself.
Event == [id : Nat, number : Nat]

Session == [stored : BOOLEAN, initialized : BOOLEAN, subscriptions : SUBSET Uri,
            events : Seq(Event), deliveredEventId : Nat, nextSequence : Nat]

Body == [step : {"none"}] \cup
        [step : {"body"}, copy : Session, uri : Uri, add : BOOLEAN]

\* createSession
BrokerInit ==
  /\ session = [stored |-> TRUE, initialized |-> FALSE, subscriptions |-> {},
                events |-> <<>>, deliveredEventId |-> 0, nextSequence |-> 1]
  /\ followers = {}
  /\ pending = [h \in Handler |-> [step |-> "none"]]
  /\ received = [c \in Client |-> <<>>]
  /\ lastId = [c \in Client |-> 0]
  /\ origin = [c \in Client |-> 0]
  /\ issued = 0
  /\ overwritten = FALSE
-----------------------------------------------------------------------------
\* Mutant: one event more than the history is to hold.
TrimmedShort(events) ==
  IF Len(events) <= History THEN events
  ELSE SubSeq(events, Len(events) - History, Len(events))

Trimmed(events) ==
  IF Len(events) <= History THEN events
  ELSE SubSeq(events, Len(events) - History + 1, Len(events))

\* enqueueSessionEvent, n times.
Enqueued(s, n) ==
  [s EXCEPT !.nextSequence = @ + n,
            !.events = Trimmed(@ \o [i \in 1..n |-> [id |-> s.nextSequence + i - 1,
                                                    number |-> issued + i]])]

\* events.filter((event) => event.id > id), as a recursive function so that it can
\* be reasoned about.
Fresh(events, id) ==
  LET fresh[i \in 0..Len(events)] ==
        IF i = 0 THEN <<>>
        ELSE IF events[i].id > id THEN Append(fresh[i - 1], events[i])
        ELSE fresh[i - 1]
  IN fresh[Len(events)]

After(s, id) == Fresh(s.events, id)

\* pendingEvents starts after what the client names, else after what was
\* delivered to anybody.
StartMarked(c) == IF session.deliveredEventId # 0 THEN session.deliveredEventId
                  ELSE lastId[c]     \* mutant: the mark before the client's word

StartOf(c) == IF lastId[c] # 0 THEN lastId[c] ELSE session.deliveredEventId

\* Mutant: the first stream only.
WokenFirst(s) ==
  LET woken == {c \in followers : After(s, lastId[c]) # <<>>}
  IN IF woken = {} THEN {} ELSE {CHOOSE c \in woken : TRUE}

\* enqueueFollowerBatch: the streams that s holds fresh events for.
Woken(s) == {c \in followers : After(s, lastId[c]) # <<>>}

LatestId(batch, default) == IF batch = <<>> THEN default ELSE Last(batch).id

Numbers(batch) == [i \in DOMAIN batch |-> batch[i].number]

\* The clients in who are sent what follows their cursor in s.
Send(s, who, cursor) ==
  /\ received' = [c \in Client |->
       IF c \in who THEN received[c] \o Numbers(After(s, cursor[c])) ELSE received[c]]
  /\ lastId' = [c \in Client |->
       IF c \in who THEN LatestId(After(s, cursor[c]), cursor[c]) ELSE lastId[c]]
-----------------------------------------------------------------------------
Initialized ==
  /\ session.stored
  /\ session' = [session EXCEPT !.initialized = TRUE]
  /\ UNCHANGED <<followers, pending, received, lastId, origin, issued, overwritten>>

BeginSubscribe(h, uri, add) ==
  /\ pending[h].step = "none"
  /\ session.stored
  /\ pending' = [pending EXCEPT ![h] =
                   [step |-> "body", copy |-> session, uri |-> uri, add |-> add]]
  /\ UNCHANGED <<session, followers, received, lastId, origin, issued, overwritten>>

EndSubscribe(h) ==
  LET p == pending[h] IN
  /\ p.step = "body"
  /\ session' = [p.copy EXCEPT !.subscriptions = IF p.add THEN @ \cup {p.uri}
                                                          ELSE @ \ {p.uri}]
  /\ overwritten' = (overwritten \/ p.copy.nextSequence # session.nextSequence)
  /\ pending' = [pending EXCEPT ![h] = [step |-> "none"]]
  /\ UNCHANGED <<followers, received, lastId, origin, issued>>

\* uri_required: the body names no resource, or never arrives.
NoBody(h) ==
  /\ pending[h].step = "body"
  /\ pending' = [pending EXCEPT ![h] = [step |-> "none"]]
  /\ UNCHANGED <<session, followers, received, lastId, origin, issued, overwritten>>

\* notify, and the followers it wakes.  Each stores deliveredEventId before it
\* writes to its stream, so those in lost advance it without being sent anything.
Notify(updated, listChanged, lost) ==
  LET n == Cardinality(updated \cap session.subscriptions)
             + (IF listChanged THEN 1 ELSE 0)
      s == Enqueued(session, n)
      woken == Woken(s)
  IN /\ session.stored
     /\ session.initialized
     /\ n > 0
     /\ issued + n <= MaxIssued
     /\ lost \subseteq woken
     /\ session' = [s EXCEPT !.deliveredEventId =
                      IF woken = {} THEN @ ELSE Last(s.events).id]
     /\ Send(s, woken \ lost, lastId)
     /\ followers' = followers \ lost
     /\ issued' = issued + n
     /\ UNCHANGED <<pending, origin, overwritten>>

\* A drain, or the opening of a follow=1 stream: what is pending is marked as
\* delivered and then sent, which may fail.
Attach(c, follow, sent) ==
  LET start == StartOf(c)
      batch == After(session, start)
  IN /\ session.stored
     /\ c \notin followers
     /\ session' = [session EXCEPT !.deliveredEventId = LatestId(batch, @)]
     /\ IF sent
        THEN /\ Send(session, {c}, [d \in Client |-> start])
             /\ origin' = [origin EXCEPT ![c] = IF lastId[c] = 0 THEN start ELSE @]
             /\ followers' = IF follow THEN followers \cup {c} ELSE followers
        ELSE UNCHANGED <<received, lastId, origin, followers>>
     /\ UNCHANGED <<pending, issued, overwritten>>

\* A reader without Last-Event-ID, which takes part only by what it marks.
AttachOther ==
  /\ session.stored
  /\ session' = [session EXCEPT !.deliveredEventId =
                   LatestId(After(session, session.deliveredEventId), @)]
  /\ UNCHANGED <<followers, pending, received, lastId, origin, issued, overwritten>>

Disconnect(c) ==
  /\ c \in followers
  /\ followers' = followers \ {c}
  /\ UNCHANGED <<session, pending, received, lastId, origin, issued, overwritten>>

\* The object is evicted: what is only in memory is gone.
Evict ==
  /\ followers' = {}
  /\ pending' = [h \in Handler |-> [step |-> "none"]]
  /\ UNCHANGED <<session, received, lastId, origin, issued, overwritten>>

Delete ==
  /\ session.stored
  /\ session' = [session EXCEPT !.stored = FALSE]
  /\ followers' = {}
  /\ UNCHANGED <<pending, received, lastId, origin, issued, overwritten>>

BrokerNext ==
  \/ Initialized
  \/ \E h \in Handler :
       \/ \E uri \in Uri, add \in BOOLEAN : BeginSubscribe(h, uri, add)
       \/ EndSubscribe(h)
       \/ NoBody(h)
  \/ \E updated \in SUBSET Uri, listChanged \in BOOLEAN, lost \in SUBSET Client :
       Notify(updated, listChanged, lost)
  \/ \E c \in Client :
       \/ \E follow, sent \in BOOLEAN : Attach(c, follow, sent)
       \/ Disconnect(c)
  \/ AttachOther
  \/ Evict
  \/ Delete

BrokerSpec == BrokerInit /\ [][BrokerNext]_brokerVars
-----------------------------------------------------------------------------
BrokerTypeOK ==
  /\ session \in Session
  /\ Len(session.events) <= History
  /\ followers \subseteq Client
  /\ pending \in [Handler -> Body]
  /\ received \in [Client -> Seq(Nat)]
  /\ lastId \in [Client -> Nat]
  /\ origin \in [Client -> Nat]
  /\ issued \in 0..MaxIssued
  /\ overwritten \in BOOLEAN

Increasing(s) == \A i, j \in DOMAIN s : i < j => s[i] < s[j]

\* README.md:166, "Last-Event-ID replay/resume": whatever the drops, drains by
\* others and evictions, a client that names the last event it saw is sent every
\* event of the history since its stream began, in order and never twice.
NoGap(c) ==
  /\ Increasing(received[c])
  /\ \A e \in Range(session.events) :
       origin[c] < e.id /\ e.id <= lastId[c] => e.number \in Range(received[c])

ResumeIsComplete == ~overwritten => \A c \in Client : NoGap(c)

\* An open stream has been sent all there is: enqueueFollowerBatch
\* (mcp-broker.do.ts:302-318) never leaves a follower waiting behind the history.
FollowersAreCurrent ==
  ~overwritten => \A c \in followers : After(session, lastId[c]) = <<>>

\* The same promise without the exception.  A subscribe that waits for its body
\* while a notification arrives (mcp-broker.do.ts:83-102) takes the events and
\* the sequence number back, and the next event under a used id is never sent.
EveryFollowerIsSentTheNews ==
  \A c \in followers :
    issued > 0 /\ session.events # <<>> /\ session.stored =>
      Last(session.events).number \in Range(received[c])
        \/ Last(session.events).id <= origin[c]
=============================================================================
