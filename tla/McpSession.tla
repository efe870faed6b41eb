------------------------------- MODULE McpSession ------------------------------
(***************************************************************************)
(* One MCP session in the memory of an isolate, the store the gateway uses *)
(* when no broker is bound.  Its functions never wait, so each is one step *)
(* here.  A follow=1 stream is a loop of its own: it reads a batch, waits  *)
(* for one when there is none, and writes it to the client.                *)
(***************************************************************************)
EXTENDS Integers, SequencesExt

CONSTANTS
  Uri,          \* resources that can be subscribed to
  Client,       \* readers that send the Last-Event-ID they know, if any
  History       \* MAX_EVENT_HISTORY

ASSUME McpSessionAssumption == "list" \notin Uri /\ History \in Nat \ {0}

VARIABLES
  session,      \* the session; life says whether the map holds it
  stream,       \* Client -> its follower and what the stream is doing with it
  log,          \* history: the notifications enqueued, in order
  origin,       \* history: where each client's first stream began
  received      \* history: the events each client was sent

sessionVars == <<session, stream, log, origin, received>>

\* Ids are zero-padded sequence numbers; "list" is resources/list_changed.
Event == [id : Nat, uri : Uri \cup {"list"}]

Session == [life : {"none", "open", "ended"}, initialized : BOOLEAN,
            subscriptions : SUBSET Uri, events : Seq(Event), delivered : Nat]

\* write: read() has returned batch; last: and the follower is closed since.
Stream == [phase : {"closed", "read", "wait", "write", "last"}, cursor : Nat,
           queue : Seq(Event), batch : Seq(Event)]

Closed == [phase |-> "closed", cursor |-> 0, queue |-> <<>>, batch |-> <<>>]

SessionInit ==
  /\ session = [life |-> "none", initialized |-> FALSE, subscriptions |-> {},
                events |-> <<>>, delivered |-> 0]
  /\ stream = [c \in Client |-> Closed]
  /\ log = <<>>
  /\ origin = [c \in Client |-> 0]
  /\ received = [c \in Client |-> <<>>]
-----------------------------------------------------------------------------
IsOpen == session.life = "open"

Change(s) ==
  /\ session' = s
  /\ UNCHANGED <<stream, log, origin, received>>

\* Only the first session is followed here, the others do not touch it.
CreateSession == Change(IF session.life = "none" THEN [session EXCEPT !.life = "open"] ELSE session)

MarkSessionInitialized == Change(IF IsOpen THEN [session EXCEPT !.initialized = TRUE] ELSE session)

SubscribeToResource(uri) ==
  Change(IF IsOpen THEN [session EXCEPT !.subscriptions = @ \cup {uri}] ELSE session)

UnsubscribeFromResource(uri) ==
  Change(IF IsOpen THEN [session EXCEPT !.subscriptions = @ \ {uri}] ELSE session)

\* A stream that has read a batch still writes it.
CloseFollower(f) == IF f.phase \in {"write", "last"} THEN [f EXCEPT !.phase = "last"] ELSE Closed

TerminateSession ==
  /\ IsOpen
  /\ session' = [session EXCEPT !.life = "ended"]
  /\ stream' = [c \in Client |-> CloseFollower(stream[c])]
  /\ UNCHANGED <<log, origin, received>>

\* The isolate goes and takes the map with it.
IsolateEvicted ==
  /\ session' = [session EXCEPT !.life = IF IsOpen THEN "ended" ELSE @]
  /\ stream' = [c \in Client |-> Closed]
  /\ UNCHANGED <<log, origin, received>>
-----------------------------------------------------------------------------
\* Mutant: one event more than the history is to hold.
TrimmedLate(events) ==
  IF Len(events) <= History + 1 THEN events
  ELSE SubSeq(events, Len(events) - History, Len(events))

Trimmed(events) ==
  IF Len(events) <= History THEN events
  ELSE SubSeq(events, Len(events) - History + 1, Len(events))

\* The first event wakes a waiting stream, which takes it before the others come.
Woken(f, fresh) ==
  IF fresh = <<>> THEN f
  ELSE CASE f.phase = "wait" ->
              [phase |-> "write", cursor |-> Head(fresh).id,
               queue |-> Tail(fresh), batch |-> Append(f.queue, Head(fresh))]
         [] f.phase \in {"read", "write"} -> [f EXCEPT !.queue = @ \o fresh]
         [] OTHER -> f

\* The elements of s that are in kept, as a recursive function so that it can be
\* reasoned about.
Filtered(s, kept) ==
  LET part[i \in 0..Len(s)] ==
        IF i = 0 THEN <<>>
        ELSE IF s[i] \in kept THEN Append(part[i - 1], s[i])
        ELSE part[i - 1]
  IN part[Len(s)]

Later(id) == {e \in Event : e.id > id}

\* What a session is sent of a notification.
Wanted(resources, listChanged) ==
  IF ~(IsOpen /\ session.initialized) THEN <<>>
  ELSE (IF listChanged THEN <<"list">> ELSE <<>>)
         \o Filtered(resources, session.subscriptions)

EnqueueMutationNotifications(resources, listChanged) ==
  LET wanted == Wanted(resources, listChanged)
      fresh  == [i \in DOMAIN wanted |-> [id |-> Len(log) + i, uri |-> wanted[i]]]
  IN /\ session' = [session EXCEPT !.events = Trimmed(@ \o fresh)]
     /\ stream' = [c \in Client |->
          Woken(stream[c], Filtered(fresh, Later(stream[c].cursor)))]
     /\ log' = log \o wanted
     /\ UNCHANGED <<origin, received>>
-----------------------------------------------------------------------------
LastId(c) == IF received[c] = <<>> THEN 0 ELSE Last(received[c]).id

\* Mutant: the mark before the client's word.
StartOfMarked(c) == IF session.delivered # 0 THEN session.delivered ELSE LastId(c)

\* lastEventId ?? deliveredEventId ?? ""
StartOf(c) == IF LastId(c) # 0 THEN LastId(c) ELSE session.delivered

After(id) == Filtered(session.events, Later(id))

Drained(id) ==
  [session EXCEPT !.delivered = IF After(id) = <<>> THEN @ ELSE Last(After(id)).id]

BeginAt(c, id) == origin' = [origin EXCEPT ![c] = IF received[c] = <<>> THEN id ELSE @]

\* The answer may be lost on its way.
DrainSessionEvents(c, sent) ==
  LET start == StartOf(c) IN
  /\ IsOpen
  /\ stream[c].phase = "closed"
  /\ session' = Drained(start)
  /\ IF sent THEN /\ received' = [received EXCEPT ![c] = @ \o After(start)]
                  /\ BeginAt(c, start)
             ELSE UNCHANGED <<received, origin>>
  /\ UNCHANGED <<stream, log>>

\* A reader that names no event takes part by what it marks.
DrainOther == IsOpen /\ Change(Drained(session.delivered))

FollowSessionEvents(c) ==
  LET start == StartOf(c) IN
  /\ IsOpen
  /\ stream[c].phase = "closed"
  /\ stream' = [stream EXCEPT ![c] = [Closed EXCEPT !.phase = "read", !.cursor = start,
                                                    !.queue = After(start)]]
  /\ BeginAt(c, start)
  /\ UNCHANGED <<session, log, received>>

\* Mutant: read waits without a look at the queue.
FlushedLater(f) == [f EXCEPT !.phase = "wait"]

\* read()
Flushed(f) ==
  IF f.queue = <<>> THEN [f EXCEPT !.phase = "wait"]
  ELSE [phase |-> "write", cursor |-> Last(f.queue).id, queue |-> <<>>, batch |-> f.queue]

ReadBatch(c) ==
  /\ stream[c].phase = "read"
  /\ stream' = [stream EXCEPT ![c] = Flushed(@)]
  /\ UNCHANGED <<session, log, origin, received>>

WriteBatch(c) ==
  /\ stream[c].phase \in {"write", "last"}
  /\ received' = [received EXCEPT ![c] = @ \o stream[c].batch]
  /\ stream' = [stream EXCEPT ![c] = IF @.phase = "last" THEN Closed
                                     ELSE [@ EXCEPT !.phase = "read", !.batch = <<>>]]
  /\ UNCHANGED <<session, log, origin>>

\* The client goes away; a batch that was read is not written.
CloseStream(c) ==
  /\ stream[c].phase # "closed"
  /\ stream' = [stream EXCEPT ![c] = Closed]
  /\ UNCHANGED <<session, log, origin, received>>

ReaderStep ==
  \/ \E c \in Client :
       \/ \E sent \in BOOLEAN : DrainSessionEvents(c, sent)
       \/ FollowSessionEvents(c)
       \/ ReadBatch(c)
       \/ WriteBatch(c)
       \/ CloseStream(c)
  \/ DrainOther
-----------------------------------------------------------------------------
SessionTypeOK ==
  /\ session \in Session
  /\ Len(session.events) <= History
  /\ stream \in [Client -> Stream]
  /\ log \in Seq(Uri \cup {"list"})
  /\ origin \in [Client -> Nat]
  /\ received \in [Client -> Seq(Event)]

\* session-store.ts:138-151, 169-178: a stream waits only when it has been handed
\* all there is, so no notification is left in a queue that nobody will be woken
\* for, wherever the notification falls in the loop of the stream.
NoLostWakeup ==
  \A c \in Client : stream[c].phase = "wait" =>
    /\ stream[c].queue = <<>>
    /\ After(stream[c].cursor) = <<>>

\* README.md:166, "SSE supports backlog drain, `Last-Event-ID` replay/resume, and
\* long-lived `follow=1` fan-out streams": the session implements EventStream.
Events == INSTANCE EventStream WITH log <- log, origin <- origin, received <- received

ImplementsEventStream == Events!StreamSpec
=============================================================================
