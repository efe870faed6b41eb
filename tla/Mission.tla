-------------------------------- MODULE Mission --------------------------------
(***************************************************************************)
(* One mission: its record, workers, edges and handoffs, the log of deltas *)
(* that playback reads, and the room that serves the live view.  Missions  *)
(* do not touch each other, so one shows all.                              *)
(*                                                                         *)
(* A call runs in a handler.  Handlers interleave at every store call and  *)
(* at every request to the room, and may stop at any of them.  The room is *)
(* a Durable Object: nothing else runs in it while it uses its storage.    *)
(***************************************************************************)
EXTENDS Naturals, SequencesExt

CONSTANTS
  Handler,       \* concurrent calls
  Worker,
  NoWorker,      \* parentWorkerId is undefined
  Handoff,
  Update,        \* the worker updates that are sent
  MaxCalls,      \* bound on the number of calls
  MaxMissed      \* bound on the reads that fail; what they were to read counts as absent

WorkerStatus == {"created", "running", "blocked", "waiting_approval", "retrying",
                 "completed", "failed", "cancelled"}

\* mcp: sent through the tool and not through the route.
WorkerUpdate == [mcp : BOOLEAN, worker : Worker, status : WorkerStatus,
                 parent : Worker \cup {NoWorker}]

ASSUME MissionAssumption ==
  /\ NoWorker \notin Worker
  /\ Update \subseteq WorkerUpdate
  /\ MaxCalls \in Nat
  /\ MaxMissed \in Nat

VARIABLES
  mission,       \* status of the mission record, or absent
  workers,       \* Worker -> status of its record, or absent
  edges,         \* spawned edges: <<parent, worker>>
  handoffs,      \* handoffs recorded
  deltas,        \* the delta files, in the order of their names
  room,          \* the snapshot the room stores, or Nothing
  call,          \* what each handler is doing
  started,       \* number of calls made, bounded by MaxCalls
  missed,        \* number of failed reads, bounded by MaxMissed
  flaws          \* history: what overlaps and crashes have left out of date

vars == <<mission, workers, edges, handoffs, deltas, room, call, started, missed, flaws>>

MissionStatus == {"active", "blocked", "completed", "failed"}

Graph == [mission : MissionStatus \cup {"absent"}, workers : [Worker -> WorkerStatus \cup {"absent"}],
          edges : SUBSET (Worker \X Worker), handoffs : SUBSET Handoff]

\* The graph of the store at this moment.
Stored == [mission |-> mission, workers |-> workers, edges |-> edges, handoffs |-> handoffs]

Delta == [type : {"snapshot"}, graph : Graph]
           \cup [type : {"worker"}, worker : Worker, status : WorkerStatus]
           \cup [type : {"edge"}, edge : Worker \X Worker]
           \cup [type : {"handoff"}, handoff : Handoff]

Nothing == [type |-> "nothing"]

Room == {Nothing} \cup [type : {"snapshot"}, graph : Graph]

\* Files that cannot be read are left out of a list.
SetSeen(files) == IF missed < MaxMissed THEN SUBSET files ELSE {files}

WorkersSeen ==
  {[w \in Worker |-> IF w \in read THEN workers[w] ELSE "absent"] : read \in SetSeen(Worker)}

MissionSeen == {mission} \cup (IF missed < MaxMissed THEN {"absent"} ELSE {})

\* What may be out of date at rest: the status of the mission, what the delta
\* files tell, what the room stores.
Flaw == {"status", "log", "room"}

Op == {"none", "create", "upsert", "handoff", "rebuild"}

\* delta and graph are what the call is about to append and to push, index the
\* number of the next delta file.
Call == [op : Op, mcp : BOOLEAN,
         step : {"idle", "get", "create", "list", "putWorker", "putMission", "putEdge",
                 "putHandoff", "count", "append", "push", "listEdges", "check",
                 "collect", "read"},
         worker : Worker \cup {NoWorker}, status : WorkerStatus \cup {"none"},
         parent : Worker \cup {NoWorker}, handoff : SUBSET Handoff,
         listed : [Worker -> WorkerStatus \cup {"absent"}], graph : Graph,
         pending : SUBSET {"workers", "edges", "handoffs"},
         delta : {Nothing} \cup Delta, index : Nat]

EmptyGraph == [mission |-> "absent", workers |-> [w \in Worker |-> "absent"],
               edges |-> {}, handoffs |-> {}]

NoCall == [op |-> "none", mcp |-> FALSE, step |-> "idle", worker |-> NoWorker,
           status |-> "none", parent |-> NoWorker, handoff |-> {},
           listed |-> EmptyGraph.workers, graph |-> EmptyGraph, pending |-> {},
           delta |-> Nothing, index |-> 0]

Init ==
  /\ mission = "absent"
  /\ workers = EmptyGraph.workers
  /\ edges = {}
  /\ handoffs = {}
  /\ deltas = <<>>
  /\ room = Nothing
  /\ call = [h \in Handler |-> NoCall]
  /\ started = 0
  /\ missed = 0
  /\ flaws = {}
-----------------------------------------------------------------------------
(***************************************************************************)
(* deriveMissionStatus, and applyMissionDelta.                             *)
(***************************************************************************)
IsTerminal(status) == status \in {"completed", "failed", "cancelled"}

Known(ws) == {w \in Worker : ws[w] # "absent"}

\* Mutant: blocked workers hide a failed one.
DeriveStatusBlockedFirst(ws, current) ==
  IF \E w \in Known(ws) : ws[w] \in {"blocked", "waiting_approval"} THEN "blocked"
  ELSE IF \E w \in Known(ws) : ws[w] = "failed" THEN "failed"
  ELSE IF Known(ws) # {} /\ \A w \in Known(ws) : IsTerminal(ws[w]) THEN "completed"
  ELSE "active"

\* Mutant: a mission that is held up has the status of its worker.
DeriveStatusOfWorker(ws, current) ==
  IF \E w \in Known(ws) : ws[w] = "failed" THEN "failed"
  ELSE IF \E w \in Known(ws) : ws[w] = "waiting_approval" THEN "waiting_approval"
  ELSE "active"

DeriveStatus(ws, current) ==
  IF \E w \in Known(ws) : ws[w] = "failed" THEN "failed"
  ELSE IF \E w \in Known(ws) : ws[w] \in {"blocked", "waiting_approval"} THEN "blocked"
  ELSE IF Known(ws) # {} /\ \A w \in Known(ws) : IsTerminal(ws[w])
       THEN IF current = "failed" THEN "failed" ELSE "completed"
  ELSE "active"

ApplyToGraph(graph, delta) ==
  CASE delta.type = "worker"  -> [graph EXCEPT !.workers[delta.worker] = delta.status]
    [] delta.type = "edge"    -> [graph EXCEPT !.edges = @ \cup {delta.edge}]
    [] delta.type = "handoff" -> [graph EXCEPT !.handoffs = @ \cup {delta.handoff}]

\* applyMissionDeltaToSnapshot: without a snapshot a delta changes nothing.
Applied(stored, delta) ==
  IF delta.type = "snapshot" THEN delta
  ELSE IF stored = Nothing THEN Nothing
  ELSE [stored EXCEPT !.graph = ApplyToGraph(@, delta)]

\* A recursive function and not a fold: Mission_proofs reasons about it.
Replay(log) ==
  LET graph[n \in 0..Len(log)] ==
        IF n = 0 THEN EmptyGraph
        ELSE IF log[n].type = "snapshot" THEN log[n].graph
        ELSE ApplyToGraph(graph[n - 1], log[n])
  IN graph[Len(log)]

\* What graph has right and the delta, older than the store, would set back.
SetsBack(graph, delta) ==
  \/ /\ delta.type = "worker"
     /\ delta.status # workers[delta.worker]
     /\ graph.workers[delta.worker] = workers[delta.worker]
  \/ /\ delta.type = "snapshot"
     /\ \/ \E w \in Worker : /\ delta.graph.workers[w] # workers[w]
                             /\ graph.workers[w] = workers[w]
        \/ \E e \in edges \cap graph.edges : e \notin delta.graph.edges
        \/ \E x \in handoffs \cap graph.handoffs : x \notin delta.graph.handoffs

IsStored(delta) == delta.type = "snapshot" /\ delta.graph = Stored

\* The flaws after delta has been written where graph was.
FlawsAfter(flaw, graph, delta, lost) ==
  IF lost \/ SetsBack(graph, delta) THEN flaws \cup {flaw}
  ELSE IF IsStored(delta) THEN flaws \ {flaw} ELSE flaws
-----------------------------------------------------------------------------
(***************************************************************************)
(* The steps of a call.                                                    *)
(***************************************************************************)
Set(h, c) == call' = [call EXCEPT ![h] = c]

Become(h, c) ==
  /\ Set(h, c)
  /\ UNCHANGED <<mission, workers, edges, handoffs, deltas, room, started, missed, flaws>>

\* The call becomes c after a read that answered seen where the store holds whole.
Learn(h, c, seen, whole) ==
  /\ Set(h, c)
  /\ missed' = IF seen = whole THEN missed ELSE missed + 1
  /\ UNCHANGED <<mission, workers, edges, handoffs, deltas, room, started, flaws>>

At(h, step) == call[h].step = step

Begin(h, c) ==
  /\ At(h, "idle")
  /\ started < MaxCalls
  /\ started' = started + 1
  /\ Set(h, c)
  /\ UNCHANGED <<mission, workers, edges, handoffs, deltas, room, missed, flaws>>

\* The routes, and the tools, which do not push to the room (mcp).
Create(mcp) == [NoCall EXCEPT !.op = "create", !.mcp = mcp, !.step = "get"]

UpsertWorker(u) ==
  [NoCall EXCEPT !.op = "upsert", !.mcp = u.mcp, !.step = "get", !.worker = u.worker,
                 !.status = u.status, !.parent = u.parent]

RecordHandoff(mcp, x) ==
  [NoCall EXCEPT !.op = "handoff", !.mcp = mcp, !.step = "get", !.handoff = {x}]

RebuildProjection == [NoCall EXCEPT !.op = "rebuild", !.step = "get"]

\* The call c once it holds the mission and is to read the rest of the graph.
Collect(c) ==
  [c EXCEPT !.step = "read", !.worker = NoWorker, !.status = "none", !.parent = NoWorker,
            !.graph = [EmptyGraph EXCEPT !.mission = mission],
            !.pending = {"workers", "edges", "handoffs"}]

\* A mission that cannot be read is not found, and can be created again.
GetMission(h) ==
  LET c == call[h] IN
  /\ At(h, "get")
  /\ \E seen \in MissionSeen :
       Learn(h,
         IF (c.op = "create") # (seen = "absent") THEN NoCall
         ELSE CASE c.op = "create"  -> [c EXCEPT !.step = "create"]
                [] c.op = "upsert"  -> [c EXCEPT !.step = "list", !.graph.mission = seen]
                [] c.op = "handoff" -> [c EXCEPT !.step = "putHandoff"]
                [] c.op = "rebuild" -> Collect(c),
         seen, mission)

PutNewMission(h) ==
  /\ At(h, "create")
  /\ mission' = "active"
  /\ Set(h, IF call[h].mcp THEN NoCall ELSE [call[h] EXCEPT !.step = "collect"])
  /\ flaws' = IF mission = "absent" THEN flaws ELSE flaws \cup {"status"}
  /\ UNCHANGED <<workers, edges, handoffs, deltas, room, started, missed>>

ListWorkers(h) ==
  /\ At(h, "list")
  /\ \E seen \in WorkersSeen :
       Learn(h, [call[h] EXCEPT !.step = "putWorker", !.listed = seen], seen, workers)

\* A tool leaves the room behind.
FlawsOfTool(c) == IF c.mcp THEN flaws \cup {"room"} ELSE flaws

PutWorker(h) ==
  LET c == call[h] IN
  /\ At(h, "putWorker")
  /\ workers' = [workers EXCEPT ![c.worker] = c.status]
  /\ Set(h, [c EXCEPT !.step = "putMission"])
  /\ flaws' = FlawsOfTool(c)
  /\ UNCHANGED <<mission, edges, handoffs, deltas, room, started, missed>>

WorkerDelta(c) == [type |-> "worker", worker |-> c.worker, status |-> c.status]

\* Mutant: the edge is logged the wrong way round.
EdgeDeltaReversed(c) == [type |-> "edge", edge |-> <<c.worker, c.parent>>]

EdgeDelta(c) == [type |-> "edge", edge |-> <<c.parent, c.worker>>]

\* bumpMission, with the mission and the workers read before.
PutMission(h) ==
  LET c == call[h]
      merged == [c.listed EXCEPT ![c.worker] = c.status]
  IN /\ At(h, "putMission")
     /\ mission' = DeriveStatus(merged, c.graph.mission)
     /\ Set(h, [c EXCEPT !.step = "count", !.delta = WorkerDelta(c),
                         !.listed = EmptyGraph.workers, !.graph = EmptyGraph])
     /\ flaws' = IF merged = workers THEN flaws \ {"status"} ELSE flaws \cup {"status"}
     /\ UNCHANGED <<workers, edges, handoffs, deltas, room, started, missed>>

PutEdge(h) ==
  LET c == call[h] IN
  /\ At(h, "putEdge")
  /\ edges' = edges \cup {<<c.parent, c.worker>>}
  /\ Set(h, [c EXCEPT !.step = "count", !.delta = EdgeDelta(c)])
  /\ flaws' = FlawsOfTool(c)
  /\ UNCHANGED <<mission, workers, handoffs, deltas, room, started, missed>>

PutHandoff(h) ==
  LET c == call[h] IN
  /\ At(h, "putHandoff")
  /\ handoffs' = handoffs \cup c.handoff
  /\ Set(h, [c EXCEPT !.step = "count",
                      !.delta = [type |-> "handoff", handoff |-> CHOOSE x \in c.handoff : TRUE]])
  /\ flaws' = FlawsOfTool(c)
  /\ UNCHANGED <<mission, workers, edges, deltas, room, started, missed>>

\* appendMissionDelta: the directory is listed, then the file is written.  A
\* directory that cannot be listed counts as empty.
CountDeltas(h) ==
  /\ At(h, "count")
  /\ \E index \in {Len(deltas)} \cup (IF missed < MaxMissed THEN {0} ELSE {}) :
       Learn(h, [call[h] EXCEPT !.step = "append", !.index = index], index, Len(deltas))

\* The call c after its delta has been appended.
Appended(c) ==
  IF c.delta.type = "worker" /\ c.parent # NoWorker
  THEN [c EXCEPT !.step = "putEdge", !.delta = Nothing, !.index = 0]
  ELSE IF c.mcp THEN NoCall
  ELSE IF c.delta.type = "edge"
  THEN [c EXCEPT !.step = "push", !.delta = WorkerDelta(c), !.index = 0]
  ELSE [c EXCEPT !.step = "push", !.index = 0]

Written(log, index, delta) == IF index < Len(log) THEN [log EXCEPT ![index + 1] = delta]
                                                  ELSE Append(log, delta)

AppendDelta(h) ==
  LET c == call[h] IN
  /\ At(h, "append")
  /\ deltas' = Written(deltas, c.index, c.delta)
  /\ Set(h, Appended(c))
  /\ flaws' = FlawsAfter("log", Replay(deltas), c.delta, c.index < Len(deltas))
  /\ UNCHANGED <<mission, workers, edges, handoffs, room, started, missed>>

\* Mutant: the edge is not pushed.
PushedNoEdge(c) ==
  IF c.delta.type \in {"worker", "edge"}
  THEN [c EXCEPT !.step = "check", !.delta = Nothing] ELSE NoCall

\* The call c after its delta or snapshot has been pushed.
Pushed(c) ==
  IF c.delta.type = "worker" /\ c.parent # NoWorker THEN [c EXCEPT !.step = "listEdges", !.delta = Nothing]
  ELSE IF c.delta.type \in {"worker", "edge"}
  THEN [c EXCEPT !.step = "check", !.delta = Nothing]
  ELSE NoCall

\* The room stores the snapshot or applies the delta, and broadcasts it.
Push(h) ==
  LET c == call[h]
      graph == IF room = Nothing THEN Stored ELSE room.graph
  IN /\ At(h, "push")
     /\ room' = Applied(room, c.delta)
     /\ Set(h, Pushed(c))
     /\ flaws' = IF room = Nothing /\ c.delta.type # "snapshot" THEN flaws
                 ELSE FlawsAfter("room", graph, c.delta, FALSE)
     /\ UNCHANGED <<mission, workers, edges, handoffs, deltas, started, missed>>

\* The route finds the edge again before it pushes it.
ListEdges(h) ==
  LET c == call[h] IN
  /\ At(h, "listEdges")
  /\ Become(h, IF <<c.parent, c.worker>> \in edges
               THEN [c EXCEPT !.step = "push", !.delta = EdgeDelta(c)]
               ELSE [c EXCEPT !.step = "check"])

\* It cannot be read, and is not pushed.
MissEdge(h) ==
  /\ At(h, "listEdges")
  /\ missed < MaxMissed
  /\ missed' = missed + 1
  /\ Set(h, [call[h] EXCEPT !.step = "check"])
  /\ flaws' = flaws \cup {"room"}
  /\ UNCHANGED <<mission, workers, edges, handoffs, deltas, room, started>>

CheckEnded(h) ==
  /\ At(h, "check")
  /\ Become(h, IF mission \in {"completed", "failed"}
               THEN [call[h] EXCEPT !.step = "collect"] ELSE NoCall)

CollectAgain(h) == At(h, "collect") /\ Become(h, Collect(call[h]))

ReadList(h, what) ==
  LET c == call[h] IN
  /\ At(h, "read")
  /\ what \in c.pending
  /\ \E seen \in IF what = "workers" THEN WorkersSeen ELSE SetSeen(Stored[what]) :
       Learn(h, [c EXCEPT !.pending = @ \ {what}, !.graph = [@ EXCEPT ![what] = seen]],
             seen, Stored[what])

\* projectMissionGraph; a rebuild pushes the graph without appending it.
Project(h) ==
  LET c == call[h] IN
  /\ At(h, "read")
  /\ c.pending = {}
  /\ Become(h, [c EXCEPT !.step = IF c.op = "rebuild" THEN "push" ELSE "count",
                         !.delta = [type |-> "snapshot", graph |-> c.graph],
                         !.graph = EmptyGraph])

\* A store call or the request to the room throws, a mission that cannot be read is
\* not found, or the Worker is evicted.
Abort(h) ==
  /\ ~At(h, "idle")
  /\ Set(h, NoCall)
  /\ flaws' = IF call[h].step \in {"get", "list", "putWorker", "create"} THEN flaws ELSE Flaw
  /\ UNCHANGED <<mission, workers, edges, handoffs, deltas, room, started, missed>>

ClientCall(h) ==
  \/ \E mcp \in BOOLEAN :
       \/ Begin(h, Create(mcp))
       \/ \E x \in Handoff : Begin(h, RecordHandoff(mcp, x))
  \/ \E u \in Update : Begin(h, UpsertWorker(u))
  \/ Begin(h, RebuildProjection)

ServerStep(h) ==
  \/ GetMission(h)
  \/ PutNewMission(h)
  \/ ListWorkers(h)
  \/ PutWorker(h)
  \/ PutMission(h)
  \/ PutEdge(h)
  \/ PutHandoff(h)
  \/ CountDeltas(h)
  \/ AppendDelta(h)
  \/ Push(h)
  \/ ListEdges(h)
  \/ MissEdge(h)
  \/ CheckEnded(h)
  \/ CollectAgain(h)
  \/ \E what \in call[h].pending : ReadList(h, what)
  \/ Project(h)

Next == \E h \in Handler : ClientCall(h) \/ ServerStep(h) \/ Abort(h)

Spec == Init /\ [][Next]_vars
-----------------------------------------------------------------------------
TypeOK ==
  /\ Stored \in Graph
  /\ deltas \in Seq(Delta)
  /\ room \in Room
  /\ call \in [Handler -> Call]
  /\ started \in 0..MaxCalls
  /\ missed \in 0..MaxMissed
  /\ flaws \subseteq Flaw

Quiet == \A h \in Handler : At(h, "idle")

\* Do the two graphs show the same workers, edges and handoffs?
Shows(graph, other) == \A what \in {"workers", "edges", "handoffs"} : graph[what] = other[what]

\* mission-activity.service.ts:149-163: when no update of a worker is under way
\* the status of the mission is the one its workers imply, unless two updates
\* overlapped, one was cut short or could not read a worker.  A later one repairs it.
StatusFollowsWorkers ==
  /\ mission # "absent"
  /\ "status" \notin flaws
  /\ \A h \in Handler : ~At(h, "putMission")
  => /\ (\E w \in Worker : workers[w] = "failed") => mission = "failed"
     /\ mission = "completed" => Known(workers) # {} /\ \A w \in Known(workers) : IsTerminal(workers[w])
     /\ mission = "active" => ~(Known(workers) # {} /\ \A w \in Known(workers) : IsTerminal(workers[w]))
     /\ mission = "blocked" <=> /\ \A w \in Worker : workers[w] # "failed"
                                /\ \E w \in Worker : workers[w] \in {"blocked", "waiting_approval"}

\* README.md:103, "Playback and worker search keep the full trace": replayed from
\* the start the delta files give the workers, edges and handoffs of the store,
\* unless a file was written twice, an older state was appended after a newer
\* one, or a call was cut short or could not read.  The snapshot of a mission that ends repairs it.
PlaybackReproducesGraph ==
  Quiet /\ "log" \notin flaws => Shows(Replay(deltas), Stored)

\* README.md:187, "Connects to mission live WebSocket updates": at rest the room
\* serves the workers, edges and handoffs of the store, unless an older state was
\* pushed after a newer one, a tool made the change, or a call was cut short or
\* could not read.  A projection rebuild repairs it.
RoomIsCurrent ==
  Quiet /\ "room" \notin flaws /\ room # Nothing => Shows(room.graph, Stored)
=============================================================================
