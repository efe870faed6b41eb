----------------------------- MODULE Mission_proofs -----------------------------
(***************************************************************************)
(* What the log and the room of a mission miss of its store is always      *)
(* still to be told by a call in flight, or a flaw is on record.  At rest  *)
(* nothing is in flight, so both show the store.                           *)
(***************************************************************************)
EXTENDS Mission, SequenceTheorems, WellFoundedInduction, TLAPS

\* The call c is still to write the status s of w to the log, or to the room.
TellsWorker(to, c, w, s) ==
  /\ c.worker = w
  /\ c.status = s
  /\ \/ to = "log" /\ \/ c.step = "putMission"
                      \/ c.step \in {"count", "append"} /\ c.delta.type = "worker"
     \/ to = "room" /\ ~c.mcp /\ \/ c.step \in {"putMission", "count", "append", "putEdge"}
                                 \/ c.step = "push" /\ c.delta.type = "worker"

TellsEdge(to, c, e) ==
  /\ e = <<c.parent, c.worker>>
  /\ \/ to = "log" /\ c.step \in {"count", "append"} /\ c.delta.type = "edge"
     \/ to = "room" /\ ~c.mcp /\ c.step \in {"putMission", "count", "append", "putEdge",
                                             "push", "listEdges"}

TellsHandoff(to, c, x) ==
  /\ c.handoff = {x}
  /\ \/ to = "log" /\ c.step \in {"count", "append"}
     \/ to = "room" /\ ~c.mcp /\ c.step \in {"count", "append", "push"}

Calls == {call[h] : h \in Handler}

\* graph shows nothing the store does not have.
Below(graph) == graph.edges \subseteq edges /\ graph.handoffs \subseteq handoffs

\* What graph misses of the store a call is still to tell.
Follows(to, graph) ==
  /\ Below(graph)
  /\ \A w \in Worker : graph.workers[w] = workers[w]
                         \/ \E c \in Calls : TellsWorker(to, c, w, workers[w])
  /\ \A e \in edges : e \in graph.edges \/ \E c \in Calls : TellsEdge(to, c, e)
  /\ \A x \in handoffs : x \in graph.handoffs \/ \E c \in Calls : TellsHandoff(to, c, x)

LogFollows ==
  "log" \notin flaws => Replay(deltas) \in Graph /\ Follows("log", Replay(deltas))

RoomFollows == "room" \notin flaws /\ room # Nothing => Follows("room", room.graph)

\* The delta of the call c tells what c did, or is a graph that was read.
OwnDelta(c) ==
  \/ c.worker \in Worker /\ c.status \in WorkerStatus /\ c.delta = WorkerDelta(c)
  \/ /\ c.worker \in Worker /\ c.status \in WorkerStatus /\ c.parent \in Worker
     /\ c.delta = EdgeDelta(c) /\ <<c.parent, c.worker>> \in edges
  \/ /\ c.worker = NoWorker
     /\ \E x \in handoffs : c.handoff = {x} /\ c.delta = [type |-> "handoff", handoff |-> x]
  \/ /\ c.worker = NoWorker /\ c.handoff = {}
     /\ c.delta.type = "snapshot" /\ Below(c.delta.graph)

CallInv(c) ==
  /\ c.step \in {"count", "append", "push"} => OwnDelta(c)
  /\ \/ c.step = "get" /\ c.op = "upsert"
     \/ c.step \in {"list", "putWorker", "putMission", "putEdge", "listEdges"}
     => c.worker \in Worker /\ c.status \in WorkerStatus
  /\ c.step \in {"putEdge", "listEdges"} => c.parent \in Worker
  /\ IF c.op = "handoff" THEN c.worker = NoWorker /\ \E x \in Handoff : c.handoff = {x}
                         ELSE c.handoff = {}
  /\ c.step = "get" => c.op \in {"create", "upsert", "handoff", "rebuild"}
  /\ c.step = "putHandoff" => c.op = "handoff"
  /\ c.step \in {"create", "check", "collect", "read"} => c.op # "handoff"
  /\ c.step = "read" => c.worker = NoWorker /\ Below(c.graph)

\* Before the mission is created nobody gets past the look at its record.
NothingBeforeMission ==
  mission = "absent" =>
    /\ workers = EmptyGraph.workers
    /\ \A c \in Calls : c.step \in {"idle", "get", "create"}

IInv ==
  /\ TypeOK
  /\ \A c \in Calls : CallInv(c)
  /\ NothingBeforeMission
  /\ StatusFollowsWorkers
  /\ LogFollows
  /\ RoomFollows
-----------------------------------------------------------------------------
(***************************************************************************)
(* Induction, and the replay of a log that grows.                          *)
(***************************************************************************)
LEMMA LeastElement ==
  ASSUME NEW S \in SUBSET Nat, S # {}
  PROVE  \E n \in S : \A m \in S : n <= m
<1> DEFINE R == OpToRel(<, Nat)
<1>1. IsWellFoundedOn(R, Nat)
  BY NatLessThanWellFounded
<1>2. PICK n \in S : \A y \in S : <<y, n>> \notin R
  <2> HIDE DEF R
  <2> QED
    BY <1>1, WFMin
<1>3. ASSUME NEW m \in S PROVE n <= m
  <2>1. <<m, n>> \in Nat \X Nat /\ ~(m < n)
    BY <1>2 DEF OpToRel
  <2> QED
    BY <2>1
<1> QED
  BY <1>3

LEMMA Induction ==
  ASSUME NEW S, 0 \in S, \A n \in Nat : n \in S => n + 1 \in S
  PROVE  \A n \in Nat : n \in S
<1> DEFINE Rest == Nat \ S
<1>1. SUFFICES ASSUME Rest # {} PROVE FALSE
  OBVIOUS
<1>2. PICK n \in Rest : \A m \in Rest : n <= m
  BY <1>1, LeastElement
<1>3. n - 1 \in Nat /\ n - 1 \notin Rest
  BY <1>2
<1> QED
  BY <1>2, <1>3

\* The graph after the first n deltas of the log, for every n up to its length.
Grown(graph, delta) ==
  IF delta.type = "snapshot" THEN delta.graph ELSE ApplyToGraph(graph, delta)

Replays(g, log) ==
  g = [n \in 0..Len(log) |-> IF n = 0 THEN EmptyGraph ELSE Grown(g[n - 1], log[n])]

\* A longer log begins with the graphs of the shorter one.
LEMMA ReplaysExtend ==
  ASSUME NEW D, NEW log \in Seq(D), NEW delta \in D, NEW g, Replays(g, log)
  PROVE  \E f : /\ Replays(f, Append(log, delta))
                /\ f[Len(log) + 1] = Grown(g[Len(log)], delta)
<1> DEFINE k == Len(log)
           long == Append(log, delta)
           f == [n \in 0..(k + 1) |-> IF n = k + 1 THEN Grown(g[k], delta) ELSE g[n]]
<1>1. k \in Nat /\ Len(long) = k + 1
      /\ \A n \in 1..(k + 1) : long[n] = IF n = k + 1 THEN delta ELSE log[n]
  OBVIOUS
<1>2. \A n \in 0..k : g[n] = IF n = 0 THEN EmptyGraph ELSE Grown(g[n - 1], log[n])
  BY DEF Replays
<1> HIDE DEF k, long
<1>3. \A n \in 0..(k + 1) : f[n] = IF n = 0 THEN EmptyGraph ELSE Grown(f[n - 1], long[n])
  <2> TAKE n \in 0..(k + 1)
  <2>1. CASE n = k + 1
    BY <1>1, <2>1
  <2>2. CASE n = 0
    BY <1>1, <1>2, <2>2
  <2>3. CASE n \in 1..k
    <3>1. f[n] = g[n] /\ f[n - 1] = g[n - 1] /\ long[n] = log[n]
      BY <1>1, <2>3
    <3> QED
      BY <1>1, <1>2, <2>3, <3>1
  <2> QED
    BY <1>1, <2>1, <2>2, <2>3
<1>4. Replays(f, long)
  BY <1>1, <1>3 DEF Replays
<1> QED
  BY <1>1, <1>4 DEF k, long

LEMMA ReplaysUnique ==
  ASSUME NEW D, NEW log \in Seq(D), NEW f, NEW g, Replays(f, log), Replays(g, log)
  PROVE  f[Len(log)] = g[Len(log)]
<1> DEFINE k == Len(log)
           S == {n \in Nat : n \in 0..k => f[n] = g[n]}
<1>1. k \in Nat
  OBVIOUS
<1>2. /\ \A n \in 0..k : f[n] = IF n = 0 THEN EmptyGraph ELSE Grown(f[n - 1], log[n])
      /\ \A n \in 0..k : g[n] = IF n = 0 THEN EmptyGraph ELSE Grown(g[n - 1], log[n])
  BY DEF Replays
<1> HIDE DEF k
<1>3. 0 \in S
  BY <1>1, <1>2
<1>4. \A n \in Nat : n \in S => n + 1 \in S
  BY <1>1, <1>2
<1>5. k \in S
  <2> HIDE DEF S
  <2> QED
    BY <1>1, <1>3, <1>4, Induction
<1> QED
  BY <1>1, <1>5 DEF k

\* Every log has a replay.
LEMMA ReplaysExist ==
  ASSUME NEW D, NEW log \in Seq(D)
  PROVE  \E g : Replays(g, log)
<1> DEFINE S == {n \in Nat : \A s \in Seq(D) : Len(s) = n => \E g : Replays(g, s)}
<1>1. 0 \in S
  <2> SUFFICES ASSUME NEW s \in Seq(D), Len(s) = 0 PROVE \E g : Replays(g, s)
    OBVIOUS
  <2>1. Replays([n \in 0..Len(s) |-> EmptyGraph], s)
    BY DEF Replays
  <2> QED
    BY <2>1
<1>2. ASSUME NEW n \in Nat, n \in S PROVE n + 1 \in S
  <2> SUFFICES ASSUME NEW s \in Seq(D), Len(s) = n + 1 PROVE \E g : Replays(g, s)
    OBVIOUS
  <2> DEFINE front == SubSeq(s, 1, n)
             last == s[n + 1]
  <2>1. front \in Seq(D) /\ Len(front) = n /\ last \in D /\ s = Append(front, last)
    OBVIOUS
  <2>2. PICK g : Replays(g, front)
    BY <1>2, <2>1
  <2> HIDE DEF front, last
  <2> QED
    BY <2>1, <2>2, ReplaysExtend
<1>3. Len(log) \in S
  <2> HIDE DEF S
  <2> QED
    BY <1>1, <1>2, Induction
<1> QED
  BY <1>3

LEMMA ReplayIs ==
  ASSUME NEW D, NEW log \in Seq(D), NEW g, Replays(g, log)
  PROVE  Replay(log) = g[Len(log)]
<1> DEFINE F == CHOOSE f : f = [n \in 0..Len(log) |->
                   IF n = 0 THEN EmptyGraph
                   ELSE IF log[n].type = "snapshot" THEN log[n].graph
                        ELSE ApplyToGraph(f[n - 1], log[n])]
<1>1. \A f : Replays(f, log) <=> f = [n \in 0..Len(log) |->
                   IF n = 0 THEN EmptyGraph
                   ELSE IF log[n].type = "snapshot" THEN log[n].graph
                        ELSE ApplyToGraph(f[n - 1], log[n])]
  BY DEF Replays, Grown
<1>2. Replays(F, log)
  BY <1>1
<1>3. Replay(log) = F[Len(log)]
  BY DEF Replay
<1> HIDE DEF F
<1> QED
  BY <1>2, <1>3, ReplaysUnique

LEMMA ReplayEmpty == Replay(<<>>) = EmptyGraph
<1>1. Replays([n \in 0..0 |-> EmptyGraph], <<>>)
  BY DEF Replays
<1>2. <<>> \in Seq(Delta) /\ Len(<<>>) = 0
  OBVIOUS
<1> QED
  BY <1>1, <1>2, ReplayIs

LEMMA ReplayAppend ==
  ASSUME NEW D, NEW log \in Seq(D), NEW delta \in D
  PROVE  Replay(Append(log, delta)) = Grown(Replay(log), delta)
<1>1. PICK g : Replays(g, log)
  BY ReplaysExist
<1>2. PICK f : /\ Replays(f, Append(log, delta))
               /\ f[Len(log) + 1] = Grown(g[Len(log)], delta)
  BY <1>1, ReplaysExtend
<1>3. Append(log, delta) \in Seq(D) /\ Len(Append(log, delta)) = Len(log) + 1
  OBVIOUS
<1> QED
  BY <1>1, <1>2, <1>3, ReplayIs
-----------------------------------------------------------------------------
(***************************************************************************)
(* A call that moves, and what it is still to tell.                        *)
(***************************************************************************)
\* d is still to tell all that c is.
Keeps(to, c, d) ==
  /\ \A w \in Worker : TellsWorker(to, c, w, workers[w]) => TellsWorker(to, d, w, workers[w])
  /\ \A e \in edges : TellsEdge(to, c, e) => TellsEdge(to, d, e)
  /\ \A x \in handoffs : TellsHandoff(to, c, x) => TellsHandoff(to, d, x)

LEMMA Rest == NoCall \in Call /\ CallInv(NoCall)
BY MissionAssumption
   DEF NoCall, Call, Op, CallInv, OwnDelta, EmptyGraph, Graph, Nothing, Delta

LEMMA Starts == Init => IInv
<1> SUFFICES ASSUME Init PROVE IInv
  OBVIOUS
<1>1. EmptyGraph \in Graph /\ Stored = EmptyGraph
  BY DEF Init, EmptyGraph, Graph, Stored
<1>2. TypeOK
  BY <1>1, Rest, MissionAssumption DEF Init, TypeOK, Room, Flaw
<1>3. \A c \in Calls : c = NoCall
  BY DEF Init, Calls
<1>4. NothingBeforeMission
  BY <1>3 DEF NothingBeforeMission, NoCall, Init
<1>5. LogFollows
  <2>1. Replay(deltas) = Stored /\ Stored \in Graph
    BY <1>1, ReplayEmpty DEF Init
  <2>2. Follows("log", Stored)
    BY DEF Follows, Below, Stored
  <2> QED
    BY <2>1, <2>2 DEF LogFollows
<1> QED
  BY <1>2, <1>3, <1>4, <1>5, Rest DEF IInv, StatusFollowsWorkers, RoomFollows, Init

LEMMA CallsAfter ==
  ASSUME call \in [Handler -> Call], NEW h \in Handler, NEW d, Set(h, d)
  PROVE  /\ call'[h] = d /\ d \in Calls' /\ call[h] \in Calls
         /\ \A c \in Calls : c = call[h] \/ c \in Calls'
         /\ \A c \in Calls' : c = d \/ c \in Calls
         /\ \A g \in Handler : g # h => call'[g] = call[g]
<1>1. \A g \in Handler : call'[g] = IF g = h THEN d ELSE call[g]
  BY DEF Set
<1> QED
  BY <1>1 DEF Calls

\* What graph misses is still told after a step that changes the store and one call,
\* as long as that call tells what the step changes, and what it told before.
LEMMA StillFollows ==
  ASSUME call \in [Handler -> Call], NEW h \in Handler, NEW d, Set(h, d),
         NEW to, NEW graph, Follows(to, graph),
         edges \subseteq edges', handoffs \subseteq handoffs',
         \A w \in Worker : \/ TellsWorker(to, d, w, workers'[w])
                           \/ /\ workers'[w] = workers[w]
                              /\ ~TellsWorker(to, call[h], w, workers[w]),
         \A e \in edges' : \/ TellsEdge(to, d, e)
                           \/ e \in edges /\ ~TellsEdge(to, call[h], e),
         \A x \in handoffs' : \/ TellsHandoff(to, d, x)
                              \/ x \in handoffs /\ ~TellsHandoff(to, call[h], x)
  PROVE  Follows(to, graph)'
<1>1. d \in Calls' /\ \A c \in Calls : c = call[h] \/ c \in Calls'
  BY CallsAfter
<1>2. Below(graph)'
  BY DEF Follows, Below
<1>3. ASSUME NEW w \in Worker
      PROVE  graph.workers[w] = workers'[w] \/ \E c \in Calls' : TellsWorker(to, c, w, workers'[w])
  BY <1>1 DEF Follows
<1>4. ASSUME NEW e \in edges'
      PROVE  e \in graph.edges \/ \E c \in Calls' : TellsEdge(to, c, e)
  BY <1>1 DEF Follows
<1>5. ASSUME NEW x \in handoffs'
      PROVE  x \in graph.handoffs \/ \E c \in Calls' : TellsHandoff(to, c, x)
  BY <1>1 DEF Follows
<1> QED
  BY <1>2, <1>3, <1>4, <1>5 DEF Follows

\* A step of one call that leaves the store as it is.
LEMMA FollowsKept ==
  ASSUME call \in [Handler -> Call], NEW h \in Handler, NEW d, Set(h, d),
         NEW to, NEW graph, Follows(to, graph), Keeps(to, call[h], d),
         UNCHANGED <<workers, edges, handoffs>>
  PROVE  Follows(to, graph)'
<1>1. /\ \A w \in Worker : TellsWorker(to, call[h], w, workers[w]) => TellsWorker(to, d, w, workers[w])
      /\ \A e \in edges : TellsEdge(to, call[h], e) => TellsEdge(to, d, e)
      /\ \A x \in handoffs : TellsHandoff(to, call[h], x) => TellsHandoff(to, d, x)
  BY DEF Keeps
<1> QED
  BY <1>1, StillFollows

LEMMA LogKept ==
  ASSUME TypeOK, LogFollows, NEW h \in Handler, NEW d, Set(h, d),
         UNCHANGED <<workers, edges, handoffs, deltas>>,
         "log" \in flaws => "log" \in flaws',
         "log" \in flaws' \/ Keeps("log", call[h], d)
  PROVE  LogFollows'
<1> SUFFICES ASSUME "log" \notin flaws' PROVE Replay(deltas)' \in Graph /\ Follows("log", Replay(deltas))'
  BY DEF LogFollows
<1>1. PICK graph : graph = Replay(deltas)
  OBVIOUS
<1>2. Replay(deltas)' = graph
  BY <1>1
<1>3. graph \in Graph /\ Follows("log", graph)
  BY <1>1 DEF LogFollows
<1>4. Follows("log", graph)'
  BY <1>3, FollowsKept DEF TypeOK
<1> QED
  BY <1>2, <1>3, <1>4

LEMMA RoomKept ==
  ASSUME TypeOK, RoomFollows, NEW h \in Handler, NEW d, Set(h, d),
         UNCHANGED <<workers, edges, handoffs, room>>,
         "room" \in flaws => "room" \in flaws',
         "room" \in flaws' \/ Keeps("room", call[h], d)
  PROVE  RoomFollows'
<1> SUFFICES ASSUME "room" \notin flaws', room' # Nothing PROVE Follows("room", room.graph)'
  BY DEF RoomFollows
<1>1. PICK graph : graph = room.graph
  OBVIOUS
<1>2. Follows("room", graph)
  BY <1>1 DEF RoomFollows
<1>3. Follows("room", graph)'
  BY <1>2, FollowsKept DEF TypeOK
<1> QED
  BY <1>1, <1>3

LEMMA StatusKept ==
  ASSUME TypeOK, StatusFollowsWorkers, UNCHANGED <<mission, workers>>,
         "status" \in flaws => "status" \in flaws', NEW h \in Handler, NEW d, Set(h, d),
         call[h].step = "putMission" => "status" \in flaws'
  PROVE  StatusFollowsWorkers'
<1>1. ASSUME "status" \notin flaws', \A g \in Handler : call'[g].step # "putMission"
      PROVE  \A g \in Handler : ~At(g, "putMission")
  BY <1>1 DEF TypeOK, Set, At
<1> QED
  BY <1>1 DEF StatusFollowsWorkers, At, Known

\* Nothing shown goes away, so what was below the store stays so.
LEMMA CallInvKept ==
  ASSUME NEW c, CallInv(c), edges \subseteq edges', handoffs \subseteq handoffs'
  PROVE  CallInv(c)'
<1>1. OwnDelta(c) => OwnDelta(c)'
  <2>1. ASSUME NEW graph, Below(graph) PROVE Below(graph)'
    BY <2>1 DEF Below
  <2>2. CASE c.worker \in Worker /\ c.status \in WorkerStatus /\ c.delta = WorkerDelta(c)
    BY <2>2 DEF OwnDelta
  <2> QED
    BY <2>1, <2>2 DEF OwnDelta
<1>2. Below(c.graph) => Below(c.graph)'
  BY DEF Below
<1> QED
  BY <1>1, <1>2 DEF CallInv

LEMMA CallInvsKept ==
  ASSUME IInv, NEW h \in Handler, NEW d, Set(h, d), CallInv(d)',
         edges \subseteq edges', handoffs \subseteq handoffs'
  PROVE  (\A c \in Calls : CallInv(c))'
<1>1. \A c \in Calls' : c = d \/ c \in Calls
  BY CallsAfter DEF IInv, TypeOK
<1>2. \A c \in Calls : CallInv(c)'
  BY CallInvKept DEF IInv
<1> QED
  BY <1>1, <1>2

\* A call that moves while store, log and room stay as they are.
LEMMA CallMoves ==
  ASSUME IInv, NEW h \in Handler, NEW d \in Call, CallInv(d), Set(h, d),
         UNCHANGED <<mission, workers, edges, handoffs, deltas, room>>,
         started' \in 0..MaxCalls, missed' \in 0..MaxMissed,
         flaws \subseteq flaws', flaws' \subseteq Flaw,
         mission = "absent" => d.step \in {"idle", "get", "create"},
         call[h].step = "putMission" => "status" \in flaws',
         "log" \in flaws' \/ Keeps("log", call[h], d),
         "room" \in flaws' \/ Keeps("room", call[h], d)
  PROVE  IInv'
<1>1. TypeOK'
  BY DEF IInv, TypeOK, Stored, Set
<1>2. (\A c \in Calls : CallInv(c))'
  <2>1. CallInv(d)'
    BY CallInvKept
  <2> QED
    BY <2>1, CallInvsKept
<1>3. NothingBeforeMission'
  BY CallsAfter DEF IInv, TypeOK, NothingBeforeMission
<1>4. StatusFollowsWorkers'
  BY StatusKept DEF IInv
<1>5. LogFollows' /\ RoomFollows'
  BY LogKept, RoomKept DEF IInv
<1> QED
  BY <1>1, <1>2, <1>3, <1>4, <1>5 DEF IInv

\* A call that is not yet, or no longer, to tell anything.
LEMMA Silent ==
  ASSUME NEW c, NEW d,
         c.step \notin {"putMission", "count", "append", "putEdge", "push", "listEdges"}
  PROVE  Keeps("log", c, d) /\ Keeps("room", c, d)
BY DEF Keeps, TellsWorker, TellsEdge, TellsHandoff
-----------------------------------------------------------------------------
(***************************************************************************)
(* The steps that only read, or only move a call.                          *)
(***************************************************************************)
LEMMA BeginKeeps ==
  ASSUME IInv, NEW h \in Handler, NEW d \in Call, CallInv(d), d.step = "get", Begin(h, d)
  PROVE  IInv'
<1>1. call[h].step = "idle" /\ started' \in 0..MaxCalls
  BY MissionAssumption DEF Begin, At, IInv, TypeOK
<1> QED
  BY <1>1, Silent, CallMoves DEF Begin, IInv, TypeOK

LEMMA ClientKeeps ==
  ASSUME IInv, NEW h \in Handler, ClientCall(h)
  PROVE  IInv'
<1>1. ASSUME NEW mcp \in BOOLEAN, Begin(h, Create(mcp)) PROVE IInv'
  <2>1. PICK d : d = Create(mcp)
    OBVIOUS
  <2>2. d \in Call /\ CallInv(d) /\ d.step = "get"
    BY <2>1, Rest DEF Create, NoCall, Call, Op, CallInv
  <2> QED
    BY <1>1, <2>1, <2>2, BeginKeeps
<1>2. ASSUME NEW mcp \in BOOLEAN, NEW x \in Handoff, Begin(h, RecordHandoff(mcp, x)) PROVE IInv'
  <2>1. PICK d : d = RecordHandoff(mcp, x)
    OBVIOUS
  <2>2. d \in Call /\ CallInv(d) /\ d.step = "get"
    BY <2>1, Rest DEF RecordHandoff, NoCall, Call, Op, CallInv
  <2> QED
    BY <1>2, <2>1, <2>2, BeginKeeps
<1>3. ASSUME NEW u \in Update, Begin(h, UpsertWorker(u)) PROVE IInv'
  <2>1. PICK d : d = UpsertWorker(u)
    OBVIOUS
  <2>2. u \in WorkerUpdate
    BY MissionAssumption
  <2>3. d \in Call /\ CallInv(d) /\ d.step = "get"
    BY <2>1, <2>2, Rest DEF UpsertWorker, WorkerUpdate, NoCall, Call, Op, CallInv
  <2> QED
    BY <1>3, <2>1, <2>3, BeginKeeps
<1>4. CASE Begin(h, RebuildProjection)
  <2>1. PICK d : d = RebuildProjection
    OBVIOUS
  <2>2. d \in Call /\ CallInv(d) /\ d.step = "get"
    BY <2>1, Rest DEF RebuildProjection, NoCall, Call, Op, CallInv
  <2> QED
    BY <1>4, <2>1, <2>2, BeginKeeps
<1> QED
  BY <1>1, <1>2, <1>3, <1>4 DEF ClientCall

\* A read that answers less than there is counts as missed.
LEMMA LearnKeeps ==
  ASSUME IInv, NEW h \in Handler, NEW d \in Call, CallInv(d), NEW seen, NEW whole,
         Learn(h, d, seen, whole), seen # whole => missed < MaxMissed,
         mission = "absent" => d.step \in {"idle", "get", "create"},
         call[h].step # "putMission",
         Keeps("log", call[h], d), Keeps("room", call[h], d)
  PROVE  IInv'
<1>1. missed' \in 0..MaxMissed
  BY MissionAssumption DEF Learn, IInv, TypeOK
<1> QED
  BY <1>1, CallMoves DEF Learn, IInv, TypeOK

LEMMA BecomeKeeps ==
  ASSUME IInv, NEW h \in Handler, NEW d \in Call, CallInv(d), Become(h, d),
         mission = "absent" => d.step \in {"idle", "get", "create"},
         call[h].step # "putMission",
         Keeps("log", call[h], d), Keeps("room", call[h], d)
  PROVE  IInv'
BY CallMoves DEF Become, IInv, TypeOK

\* The call that collects begins with what it is certain of.
LEMMA CollectInv ==
  ASSUME TypeOK, NEW c \in Call, CallInv(c), c.op # "handoff"
  PROVE  Collect(c) \in Call /\ CallInv(Collect(c)) /\ Collect(c).step = "read"
<1> DEFINE d == Collect(c)
           graph == [EmptyGraph EXCEPT !.mission = mission]
<1>1. graph \in Graph /\ Below(graph)
  BY DEF TypeOK, Stored, Graph, EmptyGraph, Below
<1>2. /\ d \in Call /\ d.step = "read" /\ d.worker = NoWorker /\ d.op = c.op
      /\ d.handoff = c.handoff /\ d.graph = graph
  <2>1. d = [c EXCEPT !.step = "read", !.worker = NoWorker, !.status = "none",
                      !.parent = NoWorker, !.graph = graph,
                      !.pending = {"workers", "edges", "handoffs"}]
    BY DEF Collect
  <2> HIDE DEF d, graph
  <2> QED
    BY <1>1, <2>1 DEF Call
<1>3. CallInv(d)
  <2> HIDE DEF d, graph
  <2> QED
    BY <1>1, <1>2 DEF CallInv
<1> QED
  BY <1>2, <1>3

LEMMA GetMissionKeeps ==
  ASSUME IInv, NEW h \in Handler, GetMission(h)
  PROVE  IInv'
<1>1. PICK c : c = call[h]
  OBVIOUS
<1>2. c \in Call /\ CallInv(c) /\ c.step = "get" /\ TypeOK
  BY <1>1 DEF GetMission, At, IInv, TypeOK, Calls
<1> DEFINE next(seen) ==
         IF (c.op = "create") # (seen = "absent") THEN NoCall
         ELSE CASE c.op = "create"  -> [c EXCEPT !.step = "create"]
                [] c.op = "upsert"  -> [c EXCEPT !.step = "list", !.graph.mission = seen]
                [] c.op = "handoff" -> [c EXCEPT !.step = "putHandoff"]
                [] c.op = "rebuild" -> Collect(c)
<1>3. PICK seen \in MissionSeen : Learn(h, next(seen), seen, mission)
  BY <1>1 DEF GetMission
<1>4. seen \in MissionStatus \cup {"absent"} /\ (seen # mission => missed < MaxMissed)
      /\ (mission = "absent" => seen = "absent")
  BY <1>2, <1>3 DEF MissionSeen, TypeOK, Stored, Graph
<1>5. PICK d : d = next(seen)
  <2> HIDE DEF next
  <2> QED
    OBVIOUS
<1>6. d \in Call /\ CallInv(d) /\ (mission = "absent" => d.step \in {"idle", "get", "create"})
  <2>1. CASE (c.op = "create") # (seen = "absent")
    BY <1>5, <2>1, Rest DEF NoCall
  <2>2. CASE (c.op = "create") = (seen = "absent") /\ c.op = "create"
    BY <1>2, <1>5, <2>2 DEF Call, CallInv
  <2>3. CASE (c.op = "create") = (seen = "absent") /\ c.op = "upsert"
    <3>1. d = [c EXCEPT !.step = "list", !.graph.mission = seen]
      BY <1>5, <2>3
    <3>2. d \in Call
      BY <1>2, <1>4, <3>1 DEF Call, Graph
    <3> QED
      BY <1>2, <1>4, <2>3, <3>1, <3>2 DEF Call, CallInv
  <2>4. CASE (c.op = "create") = (seen = "absent") /\ c.op = "handoff"
    BY <1>2, <1>4, <1>5, <2>4 DEF Call, CallInv
  <2>5. CASE (c.op = "create") = (seen = "absent") /\ c.op = "rebuild"
    BY <1>2, <1>4, <1>5, <2>5, CollectInv
  <2> QED
    BY <1>2, <2>1, <2>2, <2>3, <2>4, <2>5 DEF CallInv
<1> QED
  BY <1>1, <1>2, <1>3, <1>4, <1>5, <1>6, Silent, LearnKeeps

\* A list answers with the records as they are, or as if some were not there.
LEMMA SeenTypes ==
  ASSUME TypeOK
  PROVE  /\ \A seen \in WorkersSeen :
              seen \in [Worker -> WorkerStatus \cup {"absent"}] /\ (seen # workers => missed < MaxMissed)
         /\ \A files : \A seen \in SetSeen(files) :
              seen \subseteq files /\ (seen # files => missed < MaxMissed)
<1>1. \A files : \A seen \in SetSeen(files) :
        seen \subseteq files /\ (seen # files => missed < MaxMissed)
  BY DEF SetSeen
<1>2. ASSUME NEW seen \in WorkersSeen
      PROVE  /\ seen \in [Worker -> WorkerStatus \cup {"absent"}]
             /\ seen # workers => missed < MaxMissed
  <2>1. PICK read \in SetSeen(Worker) :
          seen = [w \in Worker |-> IF w \in read THEN workers[w] ELSE "absent"]
    BY DEF WorkersSeen
  <2>2. workers \in [Worker -> WorkerStatus \cup {"absent"}]
    BY DEF TypeOK, Stored, Graph
  <2>3. read = Worker => seen = workers
    BY <2>1, <2>2
  <2>4. seen # workers => missed < MaxMissed
    <3>1. read # Worker => missed < MaxMissed
      BY <1>1, <2>1
    <3> QED
      BY <2>3, <3>1
  <2>5. seen \in [Worker -> WorkerStatus \cup {"absent"}]
    BY <2>1, <2>2
  <2> QED
    BY <2>4, <2>5
<1> QED
  BY <1>1, <1>2

LEMMA ListWorkersKeeps ==
  ASSUME IInv, NEW h \in Handler, ListWorkers(h)
  PROVE  IInv'
<1>1. PICK c : c = call[h]
  OBVIOUS
<1>2. c \in Call /\ CallInv(c) /\ c.step = "list" /\ TypeOK
  BY <1>1 DEF ListWorkers, At, IInv, TypeOK, Calls
<1>3. PICK seen \in WorkersSeen :
        Learn(h, [c EXCEPT !.step = "putWorker", !.listed = seen], seen, workers)
  BY <1>1 DEF ListWorkers
<1>4. PICK d : d = [c EXCEPT !.step = "putWorker", !.listed = seen]
  OBVIOUS
<1>5. d \in Call /\ CallInv(d)
  <2>1. seen \in [Worker -> WorkerStatus \cup {"absent"}]
    BY <1>2, <1>3, SeenTypes
  <2> QED
    BY <1>2, <1>4, <2>1 DEF Call, CallInv
<1>6. mission # "absent"
  BY <1>1, <1>2 DEF IInv, NothingBeforeMission, Calls
<1>7. seen # workers => missed < MaxMissed
  BY <1>2, <1>3, SeenTypes
<1> QED
  BY <1>1, <1>2, <1>3, <1>4, <1>5, <1>6, <1>7, Silent, LearnKeeps

\* Who writes knows that the mission is there.
LEMMA Created ==
  ASSUME IInv, NEW h \in Handler, call[h].step \notin {"idle", "get", "create"}
  PROVE  mission # "absent"
BY DEF IInv, NothingBeforeMission, Calls

LEMMA CountDeltasKeeps ==
  ASSUME IInv, NEW h \in Handler, CountDeltas(h)
  PROVE  IInv'
<1>1. PICK c : c = call[h]
  OBVIOUS
<1>2. c \in Call /\ CallInv(c) /\ c.step = "count" /\ Len(deltas) \in Nat
  BY <1>1 DEF CountDeltas, At, IInv, TypeOK, Calls
<1>3. PICK index \in {Len(deltas)} \cup (IF missed < MaxMissed THEN {0} ELSE {}) :
        Learn(h, [c EXCEPT !.step = "append", !.index = index], index, Len(deltas))
  BY <1>1 DEF CountDeltas
<1>4. PICK d : d = [c EXCEPT !.step = "append", !.index = index]
  OBVIOUS
<1>5. d \in Call
  <2>1. index \in Nat
    BY <1>2
  <2> QED
    BY <1>2, <1>4, <2>1 DEF Call
<1>6. /\ d.worker = c.worker /\ d.status = c.status /\ d.parent = c.parent /\ d.op = c.op
      /\ d.mcp = c.mcp /\ d.handoff = c.handoff /\ d.delta = c.delta /\ d.step = "append"
  BY <1>2, <1>4 DEF Call
<1>7. CallInv(d)
  BY <1>2, <1>6 DEF CallInv, OwnDelta, WorkerDelta, EdgeDelta
<1>8. Keeps("log", c, d) /\ Keeps("room", c, d)
  BY <1>2, <1>6 DEF Keeps, TellsWorker, TellsEdge, TellsHandoff
<1>9. mission # "absent"
  BY <1>1, <1>2, Created
<1> QED
  BY <1>1, <1>2, <1>3, <1>4, <1>5, <1>7, <1>8, <1>9, LearnKeeps

LEMMA ListEdgesKeeps ==
  ASSUME IInv, NEW h \in Handler, ListEdges(h)
  PROVE  IInv'
<1>1. PICK c : c = call[h]
  OBVIOUS
<1>2. c \in Call /\ CallInv(c) /\ c.step = "listEdges" /\ TypeOK
  BY <1>1 DEF ListEdges, At, IInv, TypeOK, Calls
<1>3. c.worker \in Worker /\ c.status \in WorkerStatus /\ c.parent \in Worker /\ c.handoff = {}
  BY <1>2, MissionAssumption DEF CallInv
<1>4. mission # "absent"
  BY <1>1, <1>2, Created
<1>5. CASE <<c.parent, c.worker>> \in edges
  <2>1. PICK d : d = [c EXCEPT !.step = "push", !.delta = EdgeDelta(c)]
    OBVIOUS
  <2>2. EdgeDelta(c) \in Delta
    BY <1>3 DEF EdgeDelta, Delta
  <2>3. /\ d \in Call /\ d.worker = c.worker /\ d.status = c.status /\ d.parent = c.parent
        /\ d.op = c.op /\ d.mcp = c.mcp /\ d.handoff = c.handoff /\ d.delta = EdgeDelta(c)
        /\ d.step = "push"
    BY <1>2, <2>1, <2>2 DEF Call
  <2>4. CallInv(d)
    BY <1>2, <1>3, <1>5, <2>3 DEF CallInv, OwnDelta, EdgeDelta
  <2>5. Keeps("log", c, d) /\ Keeps("room", c, d)
    BY <1>2, <1>3, <2>3 DEF Keeps, TellsWorker, TellsEdge, TellsHandoff
  <2> QED
    BY <1>1, <1>2, <1>4, <1>5, <2>1, <2>3, <2>4, <2>5, BecomeKeeps DEF ListEdges
<1>6. CASE <<c.parent, c.worker>> \notin edges
  <2>1. PICK d : d = [c EXCEPT !.step = "check"]
    OBVIOUS
  <2>2. d \in Call /\ CallInv(d)
    BY <1>2, <1>3, <2>1, MissionAssumption DEF Call, CallInv
  <2>3. Keeps("log", c, d) /\ Keeps("room", c, d)
    BY <1>2, <1>3, <1>6 DEF Keeps, TellsWorker, TellsEdge, TellsHandoff
  <2> QED
    BY <1>1, <1>2, <1>4, <1>6, <2>1, <2>2, <2>3, BecomeKeeps DEF ListEdges
<1> QED
  BY <1>5, <1>6

LEMMA MissEdgeKeeps ==
  ASSUME IInv, NEW h \in Handler, MissEdge(h)
  PROVE  IInv'
<1>1. PICK c : c = call[h]
  OBVIOUS
<1>2. c \in Call /\ CallInv(c) /\ c.step = "listEdges" /\ mission # "absent"
  BY <1>1, Created DEF MissEdge, At, IInv, TypeOK, Calls
<1>3. PICK d : d = [c EXCEPT !.step = "check"]
  OBVIOUS
<1>4. d \in Call /\ CallInv(d)
  BY <1>2, <1>3, MissionAssumption DEF Call, CallInv
<1>5. missed' \in 0..MaxMissed /\ started' \in 0..MaxCalls
  BY MissionAssumption DEF MissEdge, IInv, TypeOK
<1>6. Keeps("log", c, d)
  BY <1>2, MissionAssumption DEF Keeps, TellsWorker, TellsEdge, TellsHandoff, CallInv
<1>7. flaws \subseteq flaws' /\ flaws' \subseteq Flaw /\ "room" \in flaws'
  BY DEF MissEdge, IInv, TypeOK, Flaw
<1> QED
  BY <1>1, <1>2, <1>3, <1>4, <1>5, <1>6, <1>7, CallMoves DEF MissEdge

LEMMA CheckEndedKeeps ==
  ASSUME IInv, NEW h \in Handler, CheckEnded(h)
  PROVE  IInv'
<1>1. PICK c : c = call[h]
  OBVIOUS
<1>2. c \in Call /\ CallInv(c) /\ c.step = "check" /\ mission # "absent"
  BY <1>1, Created DEF CheckEnded, At, IInv, TypeOK, Calls
<1>3. PICK d : d = IF mission \in {"completed", "failed"} THEN [c EXCEPT !.step = "collect"]
                                                         ELSE NoCall
  OBVIOUS
<1>4. d \in Call /\ CallInv(d)
  <2>1. c.op # "handoff" => [c EXCEPT !.step = "collect"] \in Call /\ CallInv([c EXCEPT !.step = "collect"])
    BY <1>2 DEF Call, CallInv
  <2> QED
    BY <1>2, <1>3, <2>1, Rest DEF CallInv
<1> QED
  BY <1>1, <1>2, <1>3, <1>4, Silent, BecomeKeeps DEF CheckEnded

LEMMA CollectAgainKeeps ==
  ASSUME IInv, NEW h \in Handler, CollectAgain(h)
  PROVE  IInv'
<1>1. PICK c : c = call[h]
  OBVIOUS
<1>2. c \in Call /\ CallInv(c) /\ c.step = "collect" /\ mission # "absent" /\ TypeOK
  BY <1>1, Created DEF CollectAgain, At, IInv, TypeOK, Calls
<1>3. PICK d : d = Collect(c)
  OBVIOUS
<1>4. d \in Call /\ CallInv(d)
  BY <1>2, <1>3, CollectInv DEF CallInv
<1> QED
  BY <1>1, <1>2, <1>3, <1>4, Silent, BecomeKeeps DEF CollectAgain

LEMMA ReadListKeeps ==
  ASSUME IInv, NEW h \in Handler, NEW what, ReadList(h, what)
  PROVE  IInv'
<1>1. PICK c : c = call[h]
  OBVIOUS
<1>2. c \in Call /\ CallInv(c) /\ c.step = "read" /\ mission # "absent" /\ TypeOK
  BY <1>1, Created DEF ReadList, At, IInv, TypeOK, Calls
<1>3. c.pending \subseteq {"workers", "edges", "handoffs"} /\ what \in c.pending
      /\ c.graph \in Graph /\ Below(c.graph)
  BY <1>1, <1>2 DEF ReadList, Call, CallInv
<1>4. PICK seen \in IF what = "workers" THEN WorkersSeen ELSE SetSeen(Stored[what]) :
        Learn(h, [c EXCEPT !.pending = @ \ {what}, !.graph = [@ EXCEPT ![what] = seen]],
              seen, Stored[what])
  BY <1>1 DEF ReadList
<1>5. PICK graph : graph = [c.graph EXCEPT ![what] = seen]
  OBVIOUS
<1>6. graph \in Graph /\ Below(graph) /\ (seen # Stored[what] => missed < MaxMissed)
  <2>1. CASE what = "workers"
    <3>1. seen \in WorkersSeen /\ Stored[what] = workers
      BY <1>4, <2>1 DEF Stored
    <3>2. seen \in [Worker -> WorkerStatus \cup {"absent"}] /\ (seen # workers => missed < MaxMissed)
      BY <1>2, <3>1, SeenTypes
    <3> QED
      BY <1>3, <1>5, <2>1, <3>1, <3>2 DEF Graph, Below
  <2>2. CASE what = "edges"
    <3>1. seen \in SetSeen(edges) /\ Stored[what] = edges
      BY <1>4, <2>2 DEF Stored
    <3>2. seen \subseteq edges /\ (seen # edges => missed < MaxMissed)
      BY <1>2, <3>1, SeenTypes
    <3>3. edges \subseteq Worker \X Worker
      BY <1>2 DEF TypeOK, Stored, Graph
    <3> QED
      BY <1>3, <1>5, <2>2, <3>1, <3>2, <3>3 DEF Graph, Below
  <2>3. CASE what = "handoffs"
    <3>1. seen \in SetSeen(handoffs) /\ Stored[what] = handoffs
      BY <1>4, <2>3 DEF Stored
    <3>2. seen \subseteq handoffs /\ (seen # handoffs => missed < MaxMissed)
      BY <1>2, <3>1, SeenTypes
    <3>3. handoffs \subseteq Handoff
      BY <1>2 DEF TypeOK, Stored, Graph
    <3> QED
      BY <1>3, <1>5, <2>3, <3>1, <3>2, <3>3 DEF Graph, Below
  <2> QED
    BY <1>3, <2>1, <2>2, <2>3
<1>7. PICK d : d = [c EXCEPT !.pending = @ \ {what}, !.graph = graph]
  OBVIOUS
<1>8. d = [c EXCEPT !.pending = @ \ {what}, !.graph = [@ EXCEPT ![what] = seen]]
  BY <1>5, <1>7
<1>9. d \in Call /\ CallInv(d)
  BY <1>2, <1>3, <1>6, <1>7 DEF Call, CallInv
<1> QED
  BY <1>1, <1>2, <1>4, <1>6, <1>8, <1>9, Silent, LearnKeeps

LEMMA ProjectKeeps ==
  ASSUME IInv, NEW h \in Handler, Project(h)
  PROVE  IInv'
<1>1. PICK c : c = call[h]
  OBVIOUS
<1>2. c \in Call /\ CallInv(c) /\ c.step = "read" /\ mission # "absent"
  BY <1>1, Created DEF Project, At, IInv, TypeOK, Calls
<1>3. PICK delta : delta = [type |-> "snapshot", graph |-> c.graph]
  OBVIOUS
<1>4. PICK d : d = [c EXCEPT !.step = IF c.op = "rebuild" THEN "push" ELSE "count",
                             !.delta = delta, !.graph = EmptyGraph]
  OBVIOUS
<1>5. delta \in Delta /\ delta.type = "snapshot" /\ Below(delta.graph)
      /\ EmptyGraph \in Graph
  BY <1>2, <1>3 DEF Call, CallInv, Delta, EmptyGraph, Graph
<1>6. /\ d \in Call /\ d.worker = c.worker /\ d.op = c.op /\ d.handoff = c.handoff
      /\ d.delta = delta /\ d.step \in {"push", "count"}
  BY <1>2, <1>4, <1>5 DEF Call
<1>7. CallInv(d)
  BY <1>2, <1>5, <1>6 DEF CallInv, OwnDelta
<1> QED
  BY <1>1, <1>2, <1>3, <1>4, <1>6, <1>7, Silent, BecomeKeeps DEF Project

LEMMA AbortKeeps ==
  ASSUME IInv, NEW h \in Handler, Abort(h)
  PROVE  IInv'
<1>1. started' \in 0..MaxCalls /\ missed' \in 0..MaxMissed
  BY DEF Abort, IInv, TypeOK
<1>2. flaws \subseteq flaws' /\ flaws' \subseteq Flaw
  BY DEF Abort, IInv, TypeOK
<1>3. CASE call[h].step \in {"get", "list", "putWorker", "create"}
  BY <1>1, <1>2, <1>3, Rest, Silent, CallMoves DEF Abort, NoCall
<1>4. CASE call[h].step \notin {"get", "list", "putWorker", "create"}
  BY <1>1, <1>2, <1>4, Rest, CallMoves DEF Abort, NoCall, Flaw
<1> QED
  BY <1>3, <1>4
-----------------------------------------------------------------------------
(***************************************************************************)
(* The steps that write the store.                                         *)
(***************************************************************************)
LEMMA PutNewMissionKeeps ==
  ASSUME IInv, NEW h \in Handler, PutNewMission(h)
  PROVE  IInv'
<1>1. PICK c : c = call[h]
  OBVIOUS
<1>2. c \in Call /\ CallInv(c) /\ c.step = "create"
  BY <1>1 DEF PutNewMission, At, IInv, TypeOK, Calls
<1>3. PICK d : d = IF c.mcp THEN NoCall ELSE [c EXCEPT !.step = "collect"]
  OBVIOUS
<1>4. Set(h, d)
  BY <1>1, <1>3 DEF PutNewMission
<1>5. d \in Call /\ CallInv(d)
  <2>1. [c EXCEPT !.step = "collect"] \in Call /\ CallInv([c EXCEPT !.step = "collect"])
    BY <1>2 DEF Call, CallInv
  <2> QED
    BY <1>3, <2>1, Rest
<1>6. /\ mission' = "active" /\ UNCHANGED <<workers, edges, handoffs, deltas, room, started, missed>>
      /\ flaws' = IF mission = "absent" THEN flaws ELSE flaws \cup {"status"}
  BY DEF PutNewMission
<1>7. TypeOK'
  <2>1. Stored' \in Graph
    BY <1>6 DEF IInv, TypeOK, Stored, Graph, MissionStatus
  <2> QED
    BY <1>4, <1>5, <1>6, <2>1 DEF IInv, TypeOK, Set, Flaw
<1>8. (\A b \in Calls : CallInv(b))'
  <2>1. CallInv(d)'
    BY <1>5, <1>6, CallInvKept
  <2> QED
    BY <1>4, <1>6, <2>1, CallInvsKept
<1>9. NothingBeforeMission'
  BY <1>6 DEF NothingBeforeMission
<1>10. StatusFollowsWorkers'
  <2>1. CASE mission = "absent"
    <3>1. \A w \in Worker : workers'[w] = "absent"
      BY <1>6, <2>1 DEF IInv, NothingBeforeMission, EmptyGraph
    <3> QED
      BY <1>6, <3>1 DEF StatusFollowsWorkers, Known
  <2>2. CASE mission # "absent"
    BY <1>6, <2>2 DEF StatusFollowsWorkers
  <2> QED
    BY <2>1, <2>2
<1>11. LogFollows' /\ RoomFollows'
  BY <1>1, <1>2, <1>4, <1>6, Silent, LogKept, RoomKept DEF IInv
<1> QED
  BY <1>7, <1>8, <1>9, <1>10, <1>11 DEF IInv

\* A write that keeps what follows the store following it.
LEMMA WriteKept ==
  ASSUME LogFollows, RoomFollows, UNCHANGED <<deltas, room>>, flaws \subseteq flaws',
         \A to \in {"log", "room"} : to \notin flaws' =>
           \A graph : Follows(to, graph) => Follows(to, graph)'
  PROVE  LogFollows' /\ RoomFollows'
<1>1. LogFollows'
  <2> SUFFICES ASSUME "log" \notin flaws'
               PROVE  Replay(deltas)' \in Graph /\ Follows("log", Replay(deltas))'
    BY DEF LogFollows
  <2>1. PICK graph : graph = Replay(deltas)
    OBVIOUS
  <2>2. graph \in Graph /\ Follows("log", graph)
    BY <2>1 DEF LogFollows
  <2>3. Follows("log", graph)'
    BY <2>2
  <2> QED
    BY <2>1, <2>2, <2>3
<1>2. RoomFollows'
  <2> SUFFICES ASSUME "room" \notin flaws', room' # Nothing PROVE Follows("room", room.graph)'
    BY DEF RoomFollows
  <2>1. PICK graph : graph = room.graph
    OBVIOUS
  <2>2. Follows("room", graph)
    BY <2>1 DEF RoomFollows
  <2>3. Follows("room", graph)'
    BY <2>2
  <2> QED
    BY <2>1, <2>3
<1> QED
  BY <1>1, <1>2

LEMMA PutWorkerKeeps ==
  ASSUME IInv, NEW h \in Handler, PutWorker(h)
  PROVE  IInv'
<1>1. PICK c : c = call[h]
  OBVIOUS
<1>2. /\ c \in Call /\ CallInv(c) /\ c.step = "putWorker" /\ mission # "absent"
      /\ c.worker \in Worker /\ c.status \in WorkerStatus
  BY <1>1, Created DEF PutWorker, At, IInv, TypeOK, Calls, CallInv
<1>3. PICK d : d = [c EXCEPT !.step = "putMission"]
  OBVIOUS
<1>4. Set(h, d) /\ UNCHANGED <<mission, edges, handoffs, deltas, room, started, missed>>
      /\ workers' = [workers EXCEPT ![c.worker] = c.status]
      /\ flaws' = IF c.mcp THEN flaws \cup {"room"} ELSE flaws
  BY <1>1, <1>3 DEF PutWorker, FlawsOfTool
<1>5. /\ d \in Call /\ CallInv(d) /\ d.step = "putMission" /\ d.worker = c.worker
      /\ d.status = c.status /\ d.mcp = c.mcp
  BY <1>2, <1>3 DEF Call, CallInv
<1>6. workers \in [Worker -> WorkerStatus \cup {"absent"}]
  BY DEF IInv, TypeOK, Stored, Graph
<1>7. TypeOK'
  <2>1. workers' \in [Worker -> WorkerStatus \cup {"absent"}]
    BY <1>2, <1>4, <1>6
  <2>2. Stored' \in Graph
    BY <1>4, <2>1 DEF IInv, TypeOK, Stored, Graph
  <2> QED
    BY <1>4, <1>5, <2>2 DEF IInv, TypeOK, Set, Flaw
<1>8. (\A b \in Calls : CallInv(b))'
  <2>1. CallInv(d)'
    BY <1>4, <1>5, CallInvKept
  <2> QED
    BY <1>4, <2>1, CallInvsKept
<1>9. NothingBeforeMission' /\ StatusFollowsWorkers'
  <2>1. call'[h].step = "putMission"
    BY <1>4, <1>5, CallsAfter DEF IInv, TypeOK
  <2> QED
    BY <1>2, <1>4, <2>1 DEF NothingBeforeMission, StatusFollowsWorkers, At
<1>10. ASSUME NEW to \in {"log", "room"}, to = "room" => ~c.mcp, NEW graph, Follows(to, graph)
       PROVE  Follows(to, graph)'
  <2>1. \A w \in Worker : \/ TellsWorker(to, d, w, workers'[w])
                          \/ workers'[w] = workers[w] /\ ~TellsWorker(to, c, w, workers[w])
    BY <1>2, <1>4, <1>5, <1>6, <1>10 DEF TellsWorker
  <2>2. (\A e : ~TellsEdge(to, c, e)) /\ (\A x : ~TellsHandoff(to, c, x))
    BY <1>2 DEF TellsEdge, TellsHandoff
  <2> QED
    BY <1>1, <1>4, <1>10, <2>1, <2>2, StillFollows DEF IInv, TypeOK
<1>11. LogFollows' /\ RoomFollows'
  BY <1>4, <1>10, WriteKept DEF IInv
<1> QED
  BY <1>7, <1>8, <1>9, <1>11 DEF IInv

\* deriveMissionStatus gives what the workers imply.
LEMMA DerivedStatus ==
  ASSUME NEW ws, NEW current, NEW s, s = DeriveStatus(ws, current)
  PROVE  /\ s \in MissionStatus
         /\ (\E w \in Known(ws) : ws[w] = "failed") => s = "failed"
         /\ s = "completed" => Known(ws) # {} /\ \A w \in Known(ws) : IsTerminal(ws[w])
         /\ s = "active" => ~(Known(ws) # {} /\ \A w \in Known(ws) : IsTerminal(ws[w]))
         /\ s = "blocked" <=> /\ \A w \in Known(ws) : ws[w] # "failed"
                              /\ \E w \in Known(ws) : ws[w] \in {"blocked", "waiting_approval"}
<1>1. CASE \E w \in Known(ws) : ws[w] = "failed"
  BY <1>1 DEF DeriveStatus, MissionStatus
<1>2. CASE ~\E w \in Known(ws) : ws[w] = "failed"
  BY <1>2 DEF DeriveStatus, MissionStatus
<1> QED
  BY <1>1, <1>2

LEMMA PutMissionKeeps ==
  ASSUME IInv, NEW h \in Handler, PutMission(h)
  PROVE  IInv'
<1>1. PICK c : c = call[h]
  OBVIOUS
<1>2. /\ c \in Call /\ CallInv(c) /\ c.step = "putMission" /\ mission # "absent"
      /\ c.worker \in Worker /\ c.status \in WorkerStatus /\ c.handoff = {}
  <2>1. /\ c \in Call /\ CallInv(c) /\ c.step = "putMission" /\ mission # "absent"
        /\ c.worker \in Worker /\ c.status \in WorkerStatus
    BY <1>1, Created DEF PutMission, At, IInv, TypeOK, Calls, CallInv
  <2> QED
    BY <2>1, MissionAssumption DEF CallInv
<1>3. PICK merged : merged = [c.listed EXCEPT ![c.worker] = c.status]
  OBVIOUS
<1>4. PICK delta : delta = WorkerDelta(c)
  OBVIOUS
<1>5. PICK d : d = [c EXCEPT !.step = "count", !.delta = delta, !.listed = EmptyGraph.workers,
                             !.graph = EmptyGraph]
  OBVIOUS
<1>6. /\ Set(h, d) /\ mission' = DeriveStatus(merged, c.graph.mission)
      /\ UNCHANGED <<workers, edges, handoffs, deltas, room, started, missed>>
      /\ flaws' = IF merged = workers THEN flaws \ {"status"} ELSE flaws \cup {"status"}
  BY <1>1, <1>3, <1>4, <1>5 DEF PutMission
<1>7. /\ d \in Call /\ d.step = "count" /\ d.worker = c.worker /\ d.status = c.status
      /\ d.parent = c.parent /\ d.mcp = c.mcp /\ d.handoff = c.handoff /\ d.op = c.op
      /\ d.delta = delta /\ delta.type = "worker"
  <2>1. EmptyGraph \in Graph /\ EmptyGraph.workers \in [Worker -> WorkerStatus \cup {"absent"}]
    BY DEF EmptyGraph, Graph
  <2>2. delta \in Delta /\ delta.type = "worker"
    BY <1>2, <1>4 DEF WorkerDelta, Delta
  <2> HIDE DEF EmptyGraph
  <2> QED
    BY <1>2, <1>5, <2>1, <2>2 DEF Call
<1>8. CallInv(d)
  BY <1>2, <1>4, <1>7, MissionAssumption DEF CallInv, OwnDelta, WorkerDelta
<1>9. TypeOK'
  <2>1. Stored' \in Graph
    BY <1>6, DerivedStatus DEF IInv, TypeOK, Stored, Graph
  <2> QED
    BY <1>6, <1>7, <2>1 DEF IInv, TypeOK, Set, Flaw
<1>10. (\A b \in Calls : CallInv(b))'
  <2>1. CallInv(d)'
    BY <1>6, <1>8, CallInvKept
  <2> QED
    BY <1>6, <2>1, CallInvsKept
<1>11. NothingBeforeMission'
  BY <1>6, DerivedStatus DEF NothingBeforeMission, MissionStatus
<1>12. StatusFollowsWorkers'
  <2>1. CASE merged = workers
    <3>1. \A w \in Worker : workers[w] \in {"failed", "blocked", "waiting_approval"} => w \in Known(workers)
      BY DEF Known
    <3>2. Known(workers) \subseteq Worker
      BY DEF Known
    <3>3. Known(workers)' = Known(workers) /\ workers' = workers
      BY <1>6 DEF Known
    <3> QED
      BY <1>6, <2>1, <3>1, <3>2, <3>3, DerivedStatus DEF StatusFollowsWorkers
  <2>2. CASE merged # workers
    BY <1>6, <2>2 DEF StatusFollowsWorkers
  <2> QED
    BY <2>1, <2>2
<1>13. Keeps("log", c, d) /\ Keeps("room", c, d)
  BY <1>2, <1>7 DEF Keeps, TellsWorker, TellsEdge, TellsHandoff
<1>14. LogFollows' /\ RoomFollows'
  BY <1>1, <1>6, <1>13, LogKept, RoomKept DEF IInv
<1> QED
  BY <1>9, <1>10, <1>11, <1>12, <1>14 DEF IInv

LEMMA PutEdgeKeeps ==
  ASSUME IInv, NEW h \in Handler, PutEdge(h)
  PROVE  IInv'
<1>1. PICK c : c = call[h]
  OBVIOUS
<1>2. /\ c \in Call /\ CallInv(c) /\ c.step = "putEdge" /\ mission # "absent"
      /\ c.worker \in Worker /\ c.status \in WorkerStatus /\ c.parent \in Worker
  BY <1>1, Created DEF PutEdge, At, IInv, TypeOK, Calls, CallInv
<1>3. PICK delta : delta = EdgeDelta(c)
  OBVIOUS
<1>4. PICK d : d = [c EXCEPT !.step = "count", !.delta = delta]
  OBVIOUS
<1>5. /\ Set(h, d) /\ edges' = edges \cup {<<c.parent, c.worker>>}
      /\ UNCHANGED <<mission, workers, handoffs, deltas, room, started, missed>>
      /\ flaws' = IF c.mcp THEN flaws \cup {"room"} ELSE flaws
  BY <1>1, <1>3, <1>4 DEF PutEdge, FlawsOfTool
<1>6. /\ d \in Call /\ d.step = "count" /\ d.worker = c.worker /\ d.status = c.status
      /\ d.parent = c.parent /\ d.mcp = c.mcp /\ d.handoff = c.handoff /\ d.op = c.op
      /\ d.delta = delta /\ delta.type = "edge"
  <2>1. delta \in Delta /\ delta.type = "edge"
    BY <1>2, <1>3 DEF EdgeDelta, Delta
  <2> QED
    BY <1>2, <1>4, <2>1 DEF Call
<1>7. CallInv(d)'
  <2>1. OwnDelta(d)'
    BY <1>2, <1>3, <1>5, <1>6 DEF OwnDelta, EdgeDelta
  <2> QED
    BY <1>2, <1>6, <2>1 DEF CallInv
<1>8. TypeOK'
  <2>1. Stored' \in Graph
    BY <1>2, <1>5 DEF IInv, TypeOK, Stored, Graph
  <2> QED
    BY <1>5, <1>6, <2>1 DEF IInv, TypeOK, Set, Flaw
<1>9. (\A b \in Calls : CallInv(b))'
  BY <1>5, <1>7, CallInvsKept
<1>10. NothingBeforeMission' /\ StatusFollowsWorkers'
  BY <1>1, <1>2, <1>5, StatusKept DEF IInv, NothingBeforeMission
<1>11. ASSUME NEW to \in {"log", "room"}, to \notin flaws', NEW graph, Follows(to, graph)
       PROVE  Follows(to, graph)'
  <2>1. to = "room" => ~c.mcp
    BY <1>5, <1>11
  <2>2. \A w \in Worker : TellsWorker(to, d, w, workers'[w]) \/ ~TellsWorker(to, c, w, workers[w])
    BY <1>2, <1>5, <1>6, <2>1 DEF TellsWorker
  <2>3. \A e \in edges' : TellsEdge(to, d, e) \/ (e \in edges /\ ~TellsEdge(to, c, e))
    BY <1>2, <1>5, <1>6, <1>11, <2>1 DEF TellsEdge
  <2>4. \A x : ~TellsHandoff(to, c, x)
    BY <1>2 DEF TellsHandoff
  <2> QED
    BY <1>1, <1>5, <1>11, <2>2, <2>3, <2>4, StillFollows DEF IInv, TypeOK
<1>12. LogFollows' /\ RoomFollows'
  BY <1>5, <1>11, WriteKept DEF IInv
<1> QED
  BY <1>8, <1>9, <1>10, <1>12 DEF IInv

LEMMA PutHandoffKeeps ==
  ASSUME IInv, NEW h \in Handler, PutHandoff(h)
  PROVE  IInv'
<1>1. PICK c : c = call[h]
  OBVIOUS
<1>2. /\ c \in Call /\ CallInv(c) /\ c.step = "putHandoff" /\ mission # "absent"
      /\ c.op = "handoff" /\ c.worker = NoWorker
  BY <1>1, Created DEF PutHandoff, At, IInv, TypeOK, Calls, CallInv
<1>3. PICK x \in Handoff : c.handoff = {x}
  BY <1>2 DEF CallInv
<1>4. (CHOOSE y \in c.handoff : TRUE) = x
  BY <1>3
<1>5. PICK delta : delta = [type |-> "handoff", handoff |-> x]
  OBVIOUS
<1>6. PICK d : d = [c EXCEPT !.step = "count", !.delta = delta]
  OBVIOUS
<1>7. /\ Set(h, d) /\ handoffs' = handoffs \cup {x}
      /\ UNCHANGED <<mission, workers, edges, deltas, room, started, missed>>
      /\ flaws' = IF c.mcp THEN flaws \cup {"room"} ELSE flaws
  BY <1>1, <1>3, <1>4, <1>5, <1>6 DEF PutHandoff, FlawsOfTool
<1>8. /\ d \in Call /\ d.step = "count" /\ d.worker = c.worker /\ d.status = c.status
      /\ d.parent = c.parent /\ d.mcp = c.mcp /\ d.handoff = c.handoff /\ d.op = c.op
      /\ d.delta = delta /\ delta.type = "handoff"
  <2>1. delta \in Delta /\ delta.type = "handoff"
    BY <1>3, <1>5 DEF Delta
  <2> QED
    BY <1>2, <1>6, <2>1 DEF Call
<1>9. CallInv(d)'
  <2>1. OwnDelta(d)'
    BY <1>2, <1>3, <1>5, <1>7, <1>8 DEF OwnDelta
  <2> QED
    BY <1>2, <1>3, <1>8, <2>1 DEF CallInv
<1>10. TypeOK'
  <2>1. Stored' \in Graph
    BY <1>3, <1>7 DEF IInv, TypeOK, Stored, Graph
  <2> QED
    BY <1>7, <1>8, <2>1 DEF IInv, TypeOK, Set, Flaw
<1>11. (\A b \in Calls : CallInv(b))'
  BY <1>7, <1>9, CallInvsKept
<1>12. NothingBeforeMission' /\ StatusFollowsWorkers'
  BY <1>1, <1>2, <1>7, StatusKept DEF IInv, NothingBeforeMission
<1>13. ASSUME NEW to \in {"log", "room"}, to \notin flaws', NEW graph, Follows(to, graph)
       PROVE  Follows(to, graph)'
  <2>1. to = "room" => ~c.mcp
    BY <1>7, <1>13
  <2>2. (\A w, s : ~TellsWorker(to, c, w, s)) /\ (\A e : ~TellsEdge(to, c, e))
    BY <1>2 DEF TellsWorker, TellsEdge
  <2>3. \A y \in handoffs' : TellsHandoff(to, d, y) \/ (y \in handoffs /\ ~TellsHandoff(to, c, y))
    BY <1>2, <1>3, <1>7, <1>8, <1>13, <2>1 DEF TellsHandoff
  <2> QED
    BY <1>1, <1>7, <1>13, <2>2, <2>3, StillFollows DEF IInv, TypeOK
<1>14. LogFollows' /\ RoomFollows'
  BY <1>7, <1>13, WriteKept DEF IInv
<1> QED
  BY <1>10, <1>11, <1>12, <1>14 DEF IInv
-----------------------------------------------------------------------------
(***************************************************************************)
(* The steps that write the log and the room.                              *)
(***************************************************************************)
\* What the delta of a call says, by its type.
LEMMA DeltaTypes ==
  ASSUME NEW c \in Call, OwnDelta(c)
  PROVE  /\ c.delta \in Delta /\ c.delta.type \in {"worker", "edge", "handoff", "snapshot"}
         /\ c.delta.type \in {"worker", "edge"} => c.worker \in Worker /\ c.status \in WorkerStatus
         /\ c.delta.type = "worker" => c.delta.worker = c.worker /\ c.delta.status = c.status
         /\ c.delta.type = "edge" => /\ c.parent \in Worker
                                     /\ c.delta.edge = <<c.parent, c.worker>>
                                     /\ <<c.parent, c.worker>> \in edges
         /\ c.delta.type = "handoff" => /\ c.worker = NoWorker
                                        /\ c.handoff = {c.delta.handoff}
                                        /\ c.delta.handoff \in handoffs
         /\ c.delta.type = "snapshot" => /\ c.worker = NoWorker /\ c.handoff = {}
                                         /\ Below(c.delta.graph)
<1> DEFINE Goal ==
      /\ c.delta # Nothing /\ c.delta.type \in {"worker", "edge", "handoff", "snapshot"}
      /\ c.delta.type \in {"worker", "edge"} => c.worker \in Worker /\ c.status \in WorkerStatus
      /\ c.delta.type = "worker" => c.delta.worker = c.worker /\ c.delta.status = c.status
      /\ c.delta.type = "edge" => /\ c.parent \in Worker
                                  /\ c.delta.edge = <<c.parent, c.worker>>
                                  /\ <<c.parent, c.worker>> \in edges
      /\ c.delta.type = "handoff" => /\ c.worker = NoWorker
                                     /\ c.handoff = {c.delta.handoff}
                                     /\ c.delta.handoff \in handoffs
      /\ c.delta.type = "snapshot" => /\ c.worker = NoWorker /\ c.handoff = {}
                                      /\ Below(c.delta.graph)
<1>1. ASSUME c.worker \in Worker, c.status \in WorkerStatus, c.delta = WorkerDelta(c)
      PROVE  Goal
  <2>1. c.delta.type = "worker" /\ c.delta.worker = c.worker /\ c.delta.status = c.status
    BY <1>1 DEF WorkerDelta
  <2> QED
    BY <1>1, <2>1 DEF Nothing
<1>2. ASSUME c.worker \in Worker, c.status \in WorkerStatus, c.parent \in Worker,
             c.delta = EdgeDelta(c), <<c.parent, c.worker>> \in edges
      PROVE  Goal
  <2>1. c.delta.type = "edge" /\ c.delta.edge = <<c.parent, c.worker>>
    BY <1>2 DEF EdgeDelta
  <2> QED
    BY <1>2, <2>1 DEF Nothing
<1>3. ASSUME c.worker = NoWorker, NEW x \in handoffs, c.handoff = {x},
             c.delta = [type |-> "handoff", handoff |-> x]
      PROVE  Goal
  <2>1. c.delta.type = "handoff" /\ c.delta.handoff = x
    BY <1>3
  <2> QED
    BY <1>3, <2>1 DEF Nothing
<1>4. ASSUME c.worker = NoWorker, c.handoff = {}, c.delta.type = "snapshot", Below(c.delta.graph)
      PROVE  Goal
  BY <1>4 DEF Nothing
<1>5. Goal
  <2> HIDE DEF Goal
  <2> QED
    BY <1>1, <1>2, <1>3, <1>4 DEF OwnDelta
<1> QED
  BY <1>5 DEF Call

LEMMA GrownTypes ==
  ASSUME NEW graph \in Graph, NEW delta \in Delta
  PROVE  Grown(graph, delta) \in Graph
<1>1. CASE delta.type = "snapshot"
  BY <1>1 DEF Delta, Grown
<1>2. CASE delta.type = "worker"
  <2>1. delta.worker \in Worker /\ delta.status \in WorkerStatus
    BY <1>2 DEF Delta
  <2>2. Grown(graph, delta) = [graph EXCEPT !.workers[delta.worker] = delta.status]
    BY <1>2 DEF Grown, ApplyToGraph
  <2> QED
    BY <2>1, <2>2 DEF Graph
<1>3. CASE delta.type = "edge"
  <2>1. delta.edge \in Worker \X Worker
    BY <1>3 DEF Delta
  <2>2. Grown(graph, delta) = [graph EXCEPT !.edges = @ \cup {delta.edge}]
    BY <1>3 DEF Grown, ApplyToGraph
  <2> QED
    BY <2>1, <2>2 DEF Graph
<1>4. CASE delta.type = "handoff"
  <2>1. delta.handoff \in Handoff
    BY <1>4 DEF Delta
  <2>2. Grown(graph, delta) = [graph EXCEPT !.handoffs = @ \cup {delta.handoff}]
    BY <1>4 DEF Grown, ApplyToGraph
  <2> QED
    BY <2>1, <2>2 DEF Graph
<1>5. delta.type \in {"worker", "edge", "handoff", "snapshot"}
  BY DEF Delta
<1> QED
  BY <1>1, <1>2, <1>3, <1>4, <1>5

\* A copy of the store that is not written follows the store.
LEMMA CopyFollows ==
  ASSUME NEW to, NEW graph, graph = Stored, UNCHANGED <<workers, edges, handoffs>>
  PROVE  Follows(to, graph)'
<1>1. graph.workers = workers' /\ graph.edges = edges' /\ graph.handoffs = handoffs'
  BY DEF Stored
<1> QED
  BY <1>1 DEF Follows, Below

\* A graph that gets a delta which does not set it back follows the store as before:
\* what the delta tells, nobody has to tell any more.
LEMMA Advanced ==
  ASSUME TypeOK, NEW to \in {"log", "room"}, NEW h \in Handler, NEW c \in Call, c = call[h],
         OwnDelta(c), NEW d, Set(h, d), UNCHANGED <<workers, edges, handoffs>>,
         NEW graph \in Graph, Follows(to, graph), ~SetsBack(graph, c.delta),
         c.delta.type # "worker" =>
           \A w \in Worker : TellsWorker(to, c, w, workers[w]) => TellsWorker(to, d, w, workers[w]),
         c.delta.type # "edge" =>
           \A e \in edges : TellsEdge(to, c, e) => TellsEdge(to, d, e),
         c.delta.type # "handoff" =>
           \A x \in handoffs : TellsHandoff(to, c, x) => TellsHandoff(to, d, x),
         NEW next, next = Grown(graph, c.delta)
  PROVE  Follows(to, next)'
<1>1. d \in Calls' /\ \A b \in Calls : b = c \/ b \in Calls'
  BY CallsAfter DEF TypeOK
<1>2. c.delta \in Delta /\ c.delta.type \in {"worker", "edge", "handoff", "snapshot"}
  BY DeltaTypes
<1>3. /\ Below(graph)
      /\ \A w \in Worker : graph.workers[w] = workers[w]
                             \/ \E b \in Calls : TellsWorker(to, b, w, workers[w])
      /\ \A e \in edges : e \in graph.edges \/ \E b \in Calls : TellsEdge(to, b, e)
      /\ \A x \in handoffs : x \in graph.handoffs \/ \E b \in Calls : TellsHandoff(to, b, x)
  BY DEF Follows
<1>4. CASE c.delta.type = "worker"
  <2>1. c.worker \in Worker /\ c.delta.worker = c.worker /\ c.delta.status = c.status
    BY <1>4, DeltaTypes
  <2>2. next = [graph EXCEPT !.workers[c.worker] = c.status]
    BY <1>4, <2>1 DEF Grown, ApplyToGraph
  <2>3. /\ next.edges = graph.edges /\ next.handoffs = graph.handoffs
        /\ \A w \in Worker : next.workers[w] = IF w = c.worker THEN c.status ELSE graph.workers[w]
    BY <2>1, <2>2 DEF Graph
  <2>4. ASSUME NEW w \in Worker
        PROVE  next.workers[w] = workers[w] \/ \E b \in Calls' : TellsWorker(to, b, w, workers[w])
    <3>1. CASE w # c.worker
      BY <1>1, <1>3, <2>3, <3>1 DEF TellsWorker
    <3>2. CASE w = c.worker /\ c.status # workers[w]
      <4>1. graph.workers[w] # workers[w]
        BY <1>4, <2>1, <3>2 DEF SetsBack
      <4> QED
        BY <1>1, <1>3, <3>2, <4>1 DEF TellsWorker
    <3>3. CASE w = c.worker /\ c.status = workers[w]
      BY <2>3, <3>3
    <3> QED
      BY <3>1, <3>2, <3>3
  <2> QED
    BY <1>1, <1>3, <1>4, <2>3, <2>4 DEF Follows, Below
<1>5. CASE c.delta.type = "edge"
  <2>1. c.delta.edge = <<c.parent, c.worker>> /\ c.delta.edge \in edges
    BY <1>5, DeltaTypes
  <2>2. next = [graph EXCEPT !.edges = @ \cup {c.delta.edge}]
    BY <1>5 DEF Grown, ApplyToGraph
  <2>3. /\ next.edges = graph.edges \cup {c.delta.edge} /\ next.handoffs = graph.handoffs
        /\ next.workers = graph.workers
    BY <2>2 DEF Graph
  <2>4. ASSUME NEW e \in edges
        PROVE  e \in next.edges \/ \E b \in Calls' : TellsEdge(to, b, e)
    BY <1>1, <1>3, <2>1, <2>3 DEF TellsEdge
  <2> QED
    BY <1>1, <1>3, <1>5, <2>1, <2>3, <2>4 DEF Follows, Below
<1>6. CASE c.delta.type = "handoff"
  <2>1. c.handoff = {c.delta.handoff} /\ c.delta.handoff \in handoffs
    BY <1>6, DeltaTypes
  <2>2. next = [graph EXCEPT !.handoffs = @ \cup {c.delta.handoff}]
    BY <1>6 DEF Grown, ApplyToGraph
  <2>3. /\ next.handoffs = graph.handoffs \cup {c.delta.handoff} /\ next.edges = graph.edges
        /\ next.workers = graph.workers
    BY <2>2 DEF Graph
  <2>4. ASSUME NEW x \in handoffs
        PROVE  x \in next.handoffs \/ \E b \in Calls' : TellsHandoff(to, b, x)
    BY <1>1, <1>3, <2>1, <2>3 DEF TellsHandoff
  <2> QED
    BY <1>1, <1>3, <1>6, <2>1, <2>3, <2>4 DEF Follows, Below
<1>7. CASE c.delta.type = "snapshot"
  <2>1. next = c.delta.graph /\ Below(next)
    BY <1>7, DeltaTypes DEF Grown
  <2>2. /\ \A w \in Worker : next.workers[w] # workers[w] => graph.workers[w] # workers[w]
        /\ \A e \in edges : e \notin next.edges => e \notin graph.edges
        /\ \A x \in handoffs : x \notin next.handoffs => x \notin graph.handoffs
    BY <1>7, <2>1 DEF SetsBack
  <2> QED
    BY <1>1, <1>3, <1>7, <2>1, <2>2 DEF Follows, Below
<1> QED
  BY <1>2, <1>4, <1>5, <1>6, <1>7

\* FlawsAfter says nothing of the other flaws.
LEMMA FlawsAfterTypes ==
  ASSUME TypeOK, NEW flaw \in Flaw, NEW graph, NEW delta, NEW lost,
         flaws' = FlawsAfter(flaw, graph, delta, lost)
  PROVE  flaws' \subseteq Flaw /\ \A f : f # flaw => (f \in flaws <=> f \in flaws')
BY DEF FlawsAfter, TypeOK

LEMMA AppendDeltaKeeps ==
  ASSUME IInv, NEW h \in Handler, AppendDelta(h)
  PROVE  IInv'
<1>1. PICK c : c = call[h]
  OBVIOUS
<1>2. c \in Call /\ CallInv(c) /\ OwnDelta(c) /\ c.step = "append" /\ mission # "absent" /\ TypeOK
  BY <1>1, Created DEF AppendDelta, At, IInv, TypeOK, Calls, CallInv
<1>3. PICK d : d = Appended(c)
  OBVIOUS
<1>4. /\ Set(h, d) /\ deltas' = Written(deltas, c.index, c.delta)
      /\ flaws' = FlawsAfter("log", Replay(deltas), c.delta, c.index < Len(deltas))
      /\ UNCHANGED <<mission, workers, edges, handoffs, room, started, missed>>
  BY <1>1, <1>3 DEF AppendDelta
<1>5. c.delta \in Delta /\ c.delta.type \in {"worker", "edge", "handoff", "snapshot"}
  BY <1>2, DeltaTypes
<1>6. deltas \in Seq(Delta) /\ c.index \in Nat /\ deltas' \in Seq(Delta)
  <2>1. deltas \in Seq(Delta) /\ c.index \in Nat /\ Len(deltas) \in Nat
    BY <1>2 DEF TypeOK, Call
  <2>2. CASE c.index < Len(deltas)
    <3>1. c.index + 1 \in 1..Len(deltas)
      BY <2>1, <2>2
    <3> QED
      BY <1>4, <1>5, <2>1, <2>2, <3>1, ExceptSeq DEF Written
  <2>3. CASE ~(c.index < Len(deltas))
    BY <1>4, <1>5, <2>1, <2>3 DEF Written
  <2> QED
    BY <2>1, <2>2, <2>3
<1>7. /\ d \in Call /\ CallInv(d)
      /\ Keeps("room", c, d)
      /\ c.delta.type # "worker" => \A w \in Worker : ~TellsWorker("log", c, w, workers[w])
      /\ c.delta.type # "edge" => \A e \in edges : ~TellsEdge("log", c, e)
      /\ c.delta.type # "handoff" => \A x \in handoffs : ~TellsHandoff("log", c, x)
  <2>1. /\ c.delta.type \in {"worker", "edge"} => c.worker \in Worker /\ c.status \in WorkerStatus
        /\ c.delta.type = "edge" => c.parent \in Worker /\ <<c.parent, c.worker>> \in edges
        /\ c.delta.type \in {"handoff", "snapshot"} => c.worker = NoWorker
        /\ c.delta.type # "handoff" => c.handoff = {}
        /\ c.parent \in Worker \cup {NoWorker}
    BY <1>2, DeltaTypes, MissionAssumption DEF CallInv, Call
  <2>2. /\ c.delta.type # "worker" => \A w \in Worker : ~TellsWorker("log", c, w, workers[w])
        /\ c.delta.type # "edge" => \A e \in edges : ~TellsEdge("log", c, e)
        /\ c.delta.type # "handoff" => \A x \in handoffs : ~TellsHandoff("log", c, x)
    BY <1>2, <2>1 DEF TellsWorker, TellsEdge, TellsHandoff
  <2>3. CASE c.delta.type = "worker" /\ c.parent # NoWorker
    <3>1. d = [c EXCEPT !.step = "putEdge", !.delta = Nothing, !.index = 0]
      BY <1>3, <2>3 DEF Appended
    <3>2. /\ d \in Call /\ d.step = "putEdge" /\ d.worker = c.worker /\ d.status = c.status
          /\ d.parent = c.parent /\ d.mcp = c.mcp /\ d.handoff = c.handoff /\ d.op = c.op
      BY <1>2, <3>1 DEF Call
    <3>3. CallInv(d)
      BY <1>2, <2>1, <2>3, <3>2 DEF CallInv
    <3>4. Keeps("room", c, d)
      BY <2>1, <2>3, <3>2 DEF Keeps, TellsWorker, TellsEdge, TellsHandoff
    <3> QED
      BY <2>2, <3>2, <3>3, <3>4
  <2>4. CASE ~(c.delta.type = "worker" /\ c.parent # NoWorker) /\ c.mcp
    <3>1. d = NoCall
      BY <1>3, <2>4 DEF Appended
    <3>2. Keeps("room", c, d)
      BY <2>4 DEF Keeps, TellsWorker, TellsEdge, TellsHandoff
    <3> QED
      BY <2>2, <3>1, <3>2, Rest
  <2>5. CASE c.delta.type = "edge" /\ ~c.mcp
    <3>1. PICK delta : delta = WorkerDelta(c)
      OBVIOUS
    <3>2. d = [c EXCEPT !.step = "push", !.delta = delta, !.index = 0]
      BY <1>3, <2>5, <3>1 DEF Appended
    <3>3. delta \in Delta /\ delta.type = "worker"
      BY <2>1, <2>5, <3>1 DEF Delta, WorkerDelta
    <3>4. /\ d \in Call /\ d.step = "push" /\ d.worker = c.worker /\ d.status = c.status
          /\ d.parent = c.parent /\ d.mcp = c.mcp /\ d.handoff = c.handoff /\ d.op = c.op
          /\ d.delta = delta
      BY <1>2, <3>2, <3>3 DEF Call
    <3>5. OwnDelta(d)
      BY <2>1, <2>5, <3>1, <3>4 DEF OwnDelta, WorkerDelta
    <3>6. CallInv(d)
      BY <1>2, <3>4, <3>5 DEF CallInv
    <3>7. Keeps("room", c, d)
      BY <2>1, <2>5, <3>3, <3>4 DEF Keeps, TellsWorker, TellsEdge, TellsHandoff
    <3> QED
      BY <2>2, <3>4, <3>6, <3>7
  <2>6. CASE ~(c.delta.type = "worker" /\ c.parent # NoWorker) /\ ~c.mcp /\ c.delta.type # "edge"
    <3>1. d = [c EXCEPT !.step = "push", !.index = 0]
      BY <1>3, <2>6 DEF Appended
    <3>2. /\ d \in Call /\ d.step = "push" /\ d.worker = c.worker /\ d.status = c.status
          /\ d.parent = c.parent /\ d.mcp = c.mcp /\ d.handoff = c.handoff /\ d.op = c.op
          /\ d.delta = c.delta
      BY <1>2, <3>1 DEF Call
    <3>3. OwnDelta(d)
      BY <1>2, <3>2 DEF OwnDelta, WorkerDelta, EdgeDelta
    <3>4. CallInv(d)
      BY <1>2, <3>2, <3>3 DEF CallInv
    <3>5. Keeps("room", c, d)
      BY <1>5, <2>1, <2>6, <3>2, MissionAssumption DEF Keeps, TellsWorker, TellsEdge, TellsHandoff
    <3> QED
      BY <2>2, <3>2, <3>4, <3>5
  <2> QED
    BY <2>3, <2>4, <2>5, <2>6
<1>8. flaws' \subseteq Flaw /\ \A f : f # "log" => (f \in flaws <=> f \in flaws')
  BY <1>2, <1>4, FlawsAfterTypes DEF Flaw
<1>9. TypeOK'
  BY <1>2, <1>4, <1>6, <1>7, <1>8 DEF TypeOK, Stored, Set
<1>10. (\A b \in Calls : CallInv(b))'
  <2>1. CallInv(d)'
    BY <1>4, <1>7, CallInvKept
  <2> QED
    BY <1>4, <2>1, CallInvsKept
<1>11. NothingBeforeMission' /\ StatusFollowsWorkers'
  BY <1>1, <1>2, <1>4, <1>8, StatusKept DEF IInv, NothingBeforeMission
<1>12. RoomFollows'
  BY <1>1, <1>2, <1>4, <1>7, <1>8, RoomKept DEF IInv
<1>13. LogFollows'
  <2> SUFFICES ASSUME "log" \notin flaws'
               PROVE  Replay(deltas)' \in Graph /\ Follows("log", Replay(deltas))'
    BY DEF LogFollows
  <2>1. ~(c.index < Len(deltas)) /\ ~SetsBack(Replay(deltas), c.delta)
    BY <1>4 DEF FlawsAfter
  <2>2. deltas' = Append(deltas, c.delta)
    BY <1>4, <2>1 DEF Written
  <2>3. PICK next : next = Grown(Replay(deltas), c.delta)
    OBVIOUS
  <2>4. Replay(deltas)' = next
    BY <1>5, <1>6, <2>2, <2>3, ReplayAppend
  <2>5. CASE IsStored(c.delta)
    <3>1. next = Stored
      BY <2>3, <2>5 DEF IsStored, Grown
    <3>2. Follows("log", next)' /\ next \in Graph
      BY <1>2, <1>4, <3>1, CopyFollows DEF TypeOK
    <3> QED
      BY <2>4, <3>2
  <2>6. CASE ~IsStored(c.delta)
    <3>1. "log" \notin flaws
      BY <1>4, <2>1, <2>6 DEF FlawsAfter
    <3>2. PICK graph : graph = Replay(deltas)
      OBVIOUS
    <3>3. graph \in Graph /\ Follows("log", graph)
      BY <3>1, <3>2 DEF IInv, LogFollows
    <3>4. Follows("log", next)'
      BY <1>1, <1>2, <1>4, <1>7, <2>1, <2>3, <3>2, <3>3, Advanced
    <3>5. next \in Graph
      BY <1>5, <2>3, <3>2, <3>3, GrownTypes
    <3> QED
      BY <2>4, <3>4, <3>5
  <2> QED
    BY <2>5, <2>6
<1> QED
  BY <1>9, <1>10, <1>11, <1>12, <1>13 DEF IInv

LEMMA PushKeeps ==
  ASSUME IInv, NEW h \in Handler, Push(h)
  PROVE  IInv'
<1>1. PICK c : c = call[h]
  OBVIOUS
<1>2. c \in Call /\ CallInv(c) /\ OwnDelta(c) /\ c.step = "push" /\ mission # "absent" /\ TypeOK
  BY <1>1, Created DEF Push, At, IInv, TypeOK, Calls, CallInv
<1>3. PICK d : d = Pushed(c)
  OBVIOUS
<1>4. PICK graph : graph = IF room = Nothing THEN Stored ELSE room.graph
  OBVIOUS
<1>5. /\ Set(h, d) /\ room' = Applied(room, c.delta)
      /\ flaws' = IF room = Nothing /\ c.delta.type # "snapshot" THEN flaws
                  ELSE FlawsAfter("room", graph, c.delta, FALSE)
      /\ UNCHANGED <<mission, workers, edges, handoffs, deltas, started, missed>>
  BY <1>1, <1>3, <1>4 DEF Push
<1>6. c.delta \in Delta /\ c.delta.type \in {"worker", "edge", "handoff", "snapshot"}
  BY <1>2, DeltaTypes
<1>7. graph \in Graph /\ (room # Nothing => room.type = "snapshot" /\ room = [type |-> "snapshot", graph |-> graph])
  BY <1>2, <1>4 DEF TypeOK, Room
<1>8. PICK next : next = Grown(graph, c.delta)
  OBVIOUS
<1>9. /\ next \in Graph
      /\ room' = IF room = Nothing /\ c.delta.type # "snapshot" THEN Nothing
                 ELSE [type |-> "snapshot", graph |-> next]
  <2>1. next \in Graph
    BY <1>6, <1>7, <1>8, GrownTypes
  <2>2. CASE c.delta.type = "snapshot"
    <3>1. next = c.delta.graph /\ room' = c.delta
      BY <1>5, <1>8, <2>2 DEF Applied, Grown
    <3>2. c.delta = [type |-> "snapshot", graph |-> c.delta.graph]
      BY <1>6, <2>2 DEF Delta
    <3> QED
      BY <2>1, <2>2, <3>1, <3>2
  <2>3. CASE c.delta.type # "snapshot" /\ room # Nothing
    <3>1. next = ApplyToGraph(graph, c.delta)
      BY <1>8, <2>3 DEF Grown
    <3>2. room' = [room EXCEPT !.graph = ApplyToGraph(@, c.delta)]
      BY <1>5, <2>3 DEF Applied
    <3>3. room.graph = graph
      BY <1>7, <2>3
    <3>4. room' = [room EXCEPT !.graph = next]
      BY <3>1, <3>2, <3>3
    <3> QED
      BY <1>7, <2>1, <2>3, <3>4
  <2>4. CASE c.delta.type # "snapshot" /\ room = Nothing
    BY <1>5, <2>1, <2>4 DEF Applied
  <2> QED
    BY <2>2, <2>3, <2>4
<1>10. /\ d \in Call /\ CallInv(d)
       /\ Keeps("log", c, d)
       /\ c.delta.type # "worker" =>
            \A w \in Worker : TellsWorker("room", c, w, workers[w]) => TellsWorker("room", d, w, workers[w])
       /\ c.delta.type # "edge" =>
            \A e \in edges : TellsEdge("room", c, e) => TellsEdge("room", d, e)
       /\ c.delta.type # "handoff" =>
            \A x \in handoffs : TellsHandoff("room", c, x) => TellsHandoff("room", d, x)
  <2>1. /\ c.delta.type \in {"worker", "edge"} => c.worker \in Worker /\ c.status \in WorkerStatus
        /\ c.delta.type \in {"handoff", "snapshot"} => c.worker = NoWorker
        /\ c.delta.type # "handoff" => c.handoff = {}
        /\ c.parent \in Worker \cup {NoWorker}
        /\ c.delta.type \in {"worker", "edge"} => c.op # "handoff"
    BY <1>2, DeltaTypes, MissionAssumption DEF CallInv, Call
  <2>2. Keeps("log", c, d)
    BY <1>2 DEF Keeps, TellsWorker, TellsEdge, TellsHandoff
  <2>3. edges \subseteq Worker \X Worker
    BY <1>2 DEF TypeOK, Stored, Graph
  <2>4. c.delta.type # "worker" => \A w \in Worker : ~TellsWorker("room", c, w, workers[w])
    BY <1>2 DEF TellsWorker
  <2>5. c.delta.type # "handoff" => \A x : ~TellsHandoff("room", c, x)
    BY <2>1 DEF TellsHandoff
  <2>6. c.worker = NoWorker \/ c.parent = NoWorker => \A e \in edges : ~TellsEdge("room", c, e)
    BY <2>3, MissionAssumption DEF TellsEdge
  <2>7. CASE c.delta.type = "worker" /\ c.parent # NoWorker
    <3>1. d = [c EXCEPT !.step = "listEdges", !.delta = Nothing]
      BY <1>3, <2>7 DEF Pushed
    <3>2. /\ d \in Call /\ d.step = "listEdges" /\ d.worker = c.worker /\ d.status = c.status
          /\ d.parent = c.parent /\ d.mcp = c.mcp /\ d.handoff = c.handoff /\ d.op = c.op
      BY <1>2, <3>1 DEF Call
    <3>3. CallInv(d)
      BY <1>2, <2>1, <2>7, <3>2 DEF CallInv
    <3>4. \A e \in edges : TellsEdge("room", c, e) => TellsEdge("room", d, e)
      BY <3>2 DEF TellsEdge
    <3> QED
      BY <2>2, <2>5, <2>7, <3>2, <3>3, <3>4
  <2>8. CASE c.delta.type = "edge" \/ (c.delta.type = "worker" /\ c.parent = NoWorker)
    <3>1. d = [c EXCEPT !.step = "check", !.delta = Nothing]
      BY <1>3, <2>8 DEF Pushed
    <3>2. d \in Call /\ CallInv(d)
      BY <1>2, <2>1, <2>8, <3>1 DEF CallInv, Call
    <3> QED
      BY <2>2, <2>4, <2>5, <2>6, <2>8, <3>2
  <2>9. CASE c.delta.type \in {"handoff", "snapshot"}
    <3>1. d = NoCall
      BY <1>3, <2>9 DEF Pushed
    <3> QED
      BY <2>1, <2>2, <2>4, <2>5, <2>6, <2>9, <3>1, Rest
  <2> QED
    BY <1>6, <2>7, <2>8, <2>9
<1>11. flaws' \subseteq Flaw /\ \A f : f # "room" => (f \in flaws <=> f \in flaws')
  <2>1. CASE room = Nothing /\ c.delta.type # "snapshot"
    BY <1>2, <1>5, <2>1 DEF TypeOK
  <2>2. CASE ~(room = Nothing /\ c.delta.type # "snapshot")
    BY <1>2, <1>5, <2>2, FlawsAfterTypes DEF Flaw
  <2> QED
    BY <2>1, <2>2
<1>12. TypeOK'
  <2>1. room' \in Room
    BY <1>9 DEF Room
  <2> QED
    BY <1>2, <1>5, <1>10, <1>11, <2>1 DEF TypeOK, Stored, Set
<1>13. (\A b \in Calls : CallInv(b))'
  <2>1. CallInv(d)'
    BY <1>5, <1>10, CallInvKept
  <2> QED
    BY <1>5, <2>1, CallInvsKept
<1>14. NothingBeforeMission' /\ StatusFollowsWorkers'
  BY <1>1, <1>2, <1>5, <1>11, StatusKept DEF IInv, NothingBeforeMission
<1>15. LogFollows'
  BY <1>1, <1>2, <1>5, <1>10, <1>11, LogKept DEF IInv
<1>16. RoomFollows'
  <2> SUFFICES ASSUME "room" \notin flaws', room' # Nothing PROVE Follows("room", room.graph)'
    BY DEF RoomFollows
  <2>0. ~(room = Nothing /\ c.delta.type # "snapshot")
    BY <1>5, <1>9
  <2>1. room'.graph = next /\ flaws' = FlawsAfter("room", graph, c.delta, FALSE)
    <3>1. room'.graph = next
      BY <1>9
    <3>2. flaws' = FlawsAfter("room", graph, c.delta, FALSE)
      BY <1>5, <2>0
    <3> QED
      BY <3>1, <3>2
  <2>2. ~SetsBack(graph, c.delta)
    BY <2>1 DEF FlawsAfter
  <2>3. CASE IsStored(c.delta)
    <3>1. next = Stored
      BY <1>8, <2>3 DEF IsStored, Grown
    <3>2. Follows("room", next)'
      BY <1>5, <3>1, CopyFollows
    <3> QED
      BY <2>1, <3>2
  <2>4. CASE ~IsStored(c.delta)
    <3>1. Follows("room", graph)
      <4>1. CASE room = Nothing
        BY <1>4, <4>1 DEF Follows, Below, Stored
      <4>2. CASE room # Nothing
        <5>1. "room" \notin flaws
          BY <2>1, <2>2, <2>4 DEF FlawsAfter
        <5> QED
          BY <1>4, <4>2, <5>1 DEF IInv, RoomFollows
      <4> QED
        BY <4>1, <4>2
    <3>2. Follows("room", next)'
      BY <1>1, <1>2, <1>5, <1>7, <1>8, <1>10, <2>2, <3>1, Advanced
    <3> QED
      BY <2>1, <3>2
  <2> QED
    BY <2>3, <2>4
<1> QED
  BY <1>12, <1>13, <1>14, <1>15, <1>16 DEF IInv
-----------------------------------------------------------------------------
LEMMA StepKeeps ==
  ASSUME IInv, [Next]_vars
  PROVE  IInv'
<1>1. CASE UNCHANGED vars
  <2>1. Stored' = Stored /\ Calls' = Calls
    BY <1>1 DEF vars, Stored, Calls
  <2> QED
    BY <1>1, <2>1 DEF vars, IInv, TypeOK, NothingBeforeMission, StatusFollowsWorkers, At, Known,
                      LogFollows, RoomFollows, Follows, Below, CallInv, OwnDelta
<1>2. ASSUME NEW h \in Handler, ServerStep(h) PROVE IInv'
  BY <1>2, GetMissionKeeps, PutNewMissionKeeps, ListWorkersKeeps, PutWorkerKeeps, PutMissionKeeps,
     PutEdgeKeeps, PutHandoffKeeps, CountDeltasKeeps, AppendDeltaKeeps, PushKeeps,
     ListEdgesKeeps, MissEdgeKeeps, CheckEndedKeeps, CollectAgainKeeps, ReadListKeeps,
     ProjectKeeps DEF ServerStep
<1> QED
  BY <1>1, <1>2, ClientKeeps, AbortKeeps DEF Next

LEMMA Invariance == Spec => []IInv
<1>1. IInv /\ [Next]_vars => IInv'
  BY StepKeeps
<1> QED
  BY <1>1, Starts, PTL DEF Spec

\* Every record, file and call of a mission has its type.
THEOREM MissionTypes == Spec => []TypeOK
<1>1. IInv => TypeOK
  BY DEF IInv
<1> QED
  BY <1>1, Invariance, PTL

\* The status of a mission is what its workers imply: mission-activity.service.ts:149-163.
THEOREM MissionStatusFollows == Spec => []StatusFollowsWorkers
<1>1. IInv => StatusFollowsWorkers
  BY DEF IInv
<1> QED
  BY <1>1, Invariance, PTL

\* At rest nobody is still to tell anything.
LEMMA AtRest ==
  ASSUME IInv, Quiet, NEW to, NEW graph \in Graph, Follows(to, graph)
  PROVE  Shows(graph, Stored)
<1>1. \A c \in Calls : c.step = "idle"
  BY DEF Quiet, At, Calls
<1>2. /\ \A w \in Worker : graph.workers[w] = workers[w]
      /\ graph.edges = edges /\ graph.handoffs = handoffs
  BY <1>1 DEF Follows, Below, TellsWorker, TellsEdge, TellsHandoff
<1>3. graph.workers = workers
  <2>1. graph.workers \in [Worker -> WorkerStatus \cup {"absent"}]
        /\ workers \in [Worker -> WorkerStatus \cup {"absent"}]
    BY DEF IInv, TypeOK, Stored, Graph
  <2> QED
    BY <1>2, <2>1
<1> QED
  BY <1>2, <1>3 DEF Shows, Stored

\* The delta files, replayed from the start, give the store: README.md:103,
\* mission-query.service.ts:76-78.
THEOREM PlaybackIsComplete == Spec => []PlaybackReproducesGraph
<1>1. IInv => PlaybackReproducesGraph
  BY AtRest DEF IInv, LogFollows, PlaybackReproducesGraph
<1> QED
  BY <1>1, Invariance, PTL

\* The room serves what the store has: README.md:187, mission-room.do.ts.
THEOREM RoomServesTheStore == Spec => []RoomIsCurrent
<1>1. IInv => RoomIsCurrent
  <2> SUFFICES ASSUME IInv, Quiet, "room" \notin flaws, room # Nothing
               PROVE  Shows(room.graph, Stored)
    BY DEF RoomIsCurrent
  <2>1. room.graph \in Graph
    BY DEF IInv, TypeOK, Room
  <2> QED
    BY <2>1, AtRest DEF IInv, RoomFollows
<1> QED
  BY <1>1, Invariance, PTL
=============================================================================
