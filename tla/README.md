# Verification of the control plane

TLA+ models, TLC runs and TLAPS proofs kept beside the Cloudflare control plane
(`apps/worker`, `packages/*`). Line numbers refer to the sources under `src/`.

## 1. The system

HTTP routes, two MCP surfaces and a queue consumer run in Cloudflare Workers.
They call *application services* (`packages/application`) that read and write
whole records through one interface, `ControlPlaneStore`. The store is a GitHub
repository (one JSON file per record) or maps in memory. Neither has
transactions: a service reads, decides and writes in separate store calls, and
any number of requests do so at once. Reads of the GitHub store take anything
but a 200 for an absent file (`github-contents.client.ts:27, 53`). Work that
cannot run at once goes through a Cloudflare queue. Three Durable Objects keep
state of their own: the MCP broker, the mission rooms and the control state.

| part | state | operations | interacts with |
|---|---|---|---|
| domain policies | none | issue, renew, revoke; acquire, release; usable?; same resource? | used by the services |
| sessions and leases | session and lease records | issue, renew, revoke session; acquire, release, revoke lease | read by the command kernel |
| command kernel | command records, event log, dedup index | submit, approve, retry, fail, reject, cancel, complete | reads sessions, leases, approvals |
| scoped approvals | approval records, copy in the control state | create, delete | read by the guardrail |
| control queue | messages and their delivery count | enqueue, deliver, acknowledge, retry | calls the kernel; syncs operator requests; dispatches them; rebuilds rooms |
| operator requests | request records | submit, dispatch, claim, heartbeat, update status, sync | the queue dispatches them, commands update them |
| missions | mission, workers, edges, handoffs, delta files | create, upsert worker, hand off, snapshot; playback | every route pushes to the room |
| mission rooms | one snapshot per mission | apply delta, store snapshot, broadcast | fed by routes and by rebuild messages |
| alerts | alert state per command | read, dismiss | derived from command records; copied to the control state |
| control state | states of alerts, approvals | write what a route wrote to the store | read by the console |
| MCP broker | per session: subscriptions, history, marks; open streams | initialise, subscribe, notify, drain, follow, delete | fed by mutation notifications |
| MCP sessions of an isolate | the same, in memory, when no broker is bound | the same | fed by the gateway |
| MCP gateway and authentication | none; the role and the messages of each request | initialize, subscribe, call a tool, alone or in a batch | services, then sessions |

What is hard here: checks and writes in different store calls; reads of one
decision taken at different moments; copies written back after others have
written; two stores written one after the other; reads that fail silently; a
Worker that stops between two writes; messages delivered again after their work
was done; an operator acting while the consumer does; streams that drop between
the mark and the delivery, and that wait while a notification arrives.

What makes the parts correct:

* leases: a grant is decided on all the leases it could see, and in the lifetime
  of its session;
* kernel: nothing executes past a check that said no, or another lease that held
  the resource, all along; a live deploy
  needs an explicit request or an approval, the log is never behind the record,
  what was completed is deduplicated;
* queue: nothing stays queued unattended, everything settles, no check is
  dropped without an outcome;
* requests: claims exclude each other, owners keep what they claimed, finished
  requests stay finished, received ones are dispatched;
* missions: the status follows from the workers, the delta files replay to the
  stored graph, the room serves it;
* console: what it is shown is what the store has; a dismissal is final;
* streams: a reader that resumes gets every event once and in order, an open
  stream is always current, nobody is left waiting for what has come;
* gateway: only operators change things, and subscribers are told.

## 2. The modules

| module | models | state and actions |
|---|---|---|
| `ControlPolicy` | `session.policy.ts`, `resource-scope.ts` | operators only; a time stamp is a natural, a scope maps to its conflict key |
| `LeaseStore` | what readers of sessions and leases may see (abstract) | one write of one record per step |
| `SessionLease` | the session and lease services | a handler per request; a step per store call: `Issue`, `Renew`, `Revoke`/`PutSession`, `BeginAcquire`/`ReadSession`/`ScanLease`/`DecideAcquire`/`PutAcquired`, `ReadToEnd`/`PutEnded`, `Abort` |
| `CommandKernel` (extends `LeaseStore`) | submit and lifecycle services, guardrail, command record, approvals | `call[h]` is the position of a request; its decided writes are `todo`, made one per step by `WriteNext`; `ListLease` reads one lease of the list; `LeaveUnread`, `MissLease`, `MissApproval` and `CommandsSeen` are the reads that fail; `Abort` stops anywhere |
| `ControlQueue` (extends `CommandKernel`) | command and queue routes, `process-control-queue.ts`, `queue-dispatch.service.ts` | `queue` is a bag of messages with their delivery count, `job[h]` says whether a handler serves a client or consumes a message |
| `OperatorRequest` | request services and routes, `command-side-effects.ts`, `dispatch-operator-request` messages | `Get` and `Put` are the read and the write of every operation; `List`/`NextListed`/`EndSync` are a sync; `Deliver`, `Redeliver`, `Caught` the queue |
| `Mission` | mission services, `appendMissionDelta`, playback, the room and its syncs | a step per store call and per push; `deltas` are the files in the order of their names |
| `ControlState` | `list-alerts.service.ts`, approvals, `control-state.do.ts` and the routes | `states` and `approvals` are the store, `overlay` and `cached` the object; `RequireAlert`/`Put`/`Again`/`Cache` |
| `EventStream` | what readers of an MCP session may rely on (abstract) | `Publish`, `Read` |
| `McpSession` | `session-store.ts` | one session with its follow loops |
| `McpGateway` (extends `ControlState`, `McpSession`) | `mcp-router.ts`, `catalog.ts`, authentication | `http[h]` is a request with the messages it has still to work on; composes the tools and routes on alerts and approvals with the sessions they notify |
| `McpBroker` | `mcp-broker.do.ts` | one session, its open streams, pending subscribes and what each reader was sent |
| `*_proofs` | theorems about `SessionLease`, `CommandKernel`, `ControlQueue`, `OperatorRequest`, `Mission`, `ControlState`, `McpGateway` (with `McpSession`), `McpBroker` | one module each |
| `MC*` | constants, requests and symmetry sets for TLC | |

**Composition and refinement.** `CommandKernel` uses `LeaseStore` as its
environment and `SessionLease` is shown to implement `LeaseStore`. So the kernel
is checked against every history of session and lease records the services can
produce, without their steps. `LeaseStore` starts with no records;
`CommandKernel` starts with any set of records that were written at time 0,
which saves TLC the steps that make them. `ControlQueue` puts the kernel behind
the routes and the consumer. `McpGateway` puts `ControlState` and `McpSession`
behind the requests of both MCP surfaces; `McpSession` is shown to implement
`EventStream` there. `OperatorRequest` sees commands as outcomes only, and
`ControlQueue` sees the sync of requests as a step that may fail.

Choices of abstraction:

* One store call is one atomic step. A lease listing is one step per lease, in
  `SessionLease` and in the kernel, since the GitHub store lists a directory and
  fetches each file on its own; so two leases that hand the resource to each other
  meanwhile may both be missed. The four reads of a submit run in any order. The
  approvals are read where the guardrail looks at them; the code fetches them just
  before, so an approval deleted in between could count there. It would be one that
  was valid after the call began, which is what `LiveDeployIsAuthorised` asks for.
* Reads that fail silently: of single leases in `SessionLease` (`ListFaults`); of
  what `Unread` names in the kernel (the command record, session, lease, lease
  list, dedup entry, approvals); of requests in `OperatorRequest` (`ReadFails`);
  of every file and directory in `Mission` (at most `MaxMissed` times) and of the
  alert states in `ControlState` (`ReadFaults`). A command or an approval that is
  not found there is a call that fails.
* `now` is taken where the code takes it: at the start of `execute`, at the
  decision of `acquire`, at the comparison in the guardrail.
* An action stands for its class: `github_write` for all that run inline,
  `browser_check` for the two handed to the queue. Three tools stand for those
  of the catalogue: two that change alerts, one of them for good, and one
  that changes a list.
* The event log is a sequence per command. The GitHub store names an event by
  command, status and millisecond, so a later event of the same name overwrites the
  file (`Logging`). One tick of the clock is many milliseconds, so within it the
  model has both: two files, or one.
* Scoped approvals have time-to-live values of their own (`ApprovalTtl`).
* `MaxAttempts` is both `MAX_QUEUE_ATTEMPTS` (4) and `max_retries + 1` of
  `wrangler.toml` (4). The runs use 2: a first delivery, and a last one.
* In the broker, requests that only wait for storage are one step, since a
  Durable Object takes no other event meanwhile. Subscribe and unsubscribe wait
  for their body as well, and are two. Event ids are numbers; `issued` numbers
  the notifications themselves, so that a reused id can be told.
* A mission, an alert or a session does not touch another one; one or two of each
  are modelled.
* Fields of a call that no later step reads are reset, which changes nothing but
  the number of states.
* What the code folds or filters (`Replay` in `Mission`, `Fresh` in `McpBroker`,
  `Filtered` in `McpSession`) is a recursive function over the positions of the
  sequence, so that it can be reasoned about. A case distinction whose conditions
  may both hold is an IF, in the order of the code's tests: CASE would leave the
  choice open.
* `QueuedIsAttended` does not ask whether some handler is busy with the command but
  whether one has it in its hands (`Takes`): a message is to be sent, or the record
  is still to be read and written, by a call that will act on what it finds queued.
  A rejected submit with only its dedup entry left to write does not count.

**History variables.** `unseen`, `longestUntil`, `approvedUntil`, `barred`,
`rivals`, `undone`, `grants`, `holder`, `dropped`, `flaws`, `torn`, `stale`, `untold`,
`log`, `origin`, `received`, `issued` and `overwritten` record what happened for
the properties. No guard reads them. They are exact about what they excuse: each
is set at the step of an overlap, a failure or a lost copy and reset where the
code repairs it, so a property that has "unless" in it still binds in all other
behaviours, and every one of them has a mutant of the code that breaks it.

## 3. The runs

| run | shows | bounds |
|---|---|---|
| `leases` | `DoubleGrantOnlyUnseen`, `GrantWithinSessionLifetime`, and that the services implement `LeaseStore` | 1 session, 2 leases on 1 resource, 2 handlers, clock 0..1, failing reads |
| `kernel_authority` | `NoExecutionWhileBarred`, `LiveDeployIsAuthorised`, `RecordNeverAheadOfLog`, `CompletionIsDeduplicated` | 1 command, 2 rival requests under one lease, 2 other leases, clock 0..1, unread leases, dedup entry and approvals; 2 calls cut short anywhere with 1 change of records under them, or 1 call with 2 (`MaxEvents`) |
| `log_overwrite` (violation) | a later event overwrites an earlier one | 1 command, 3 calls in one tick |
| `queue_settles` | `QueuedIsAttended`, and `EveryCommandSettles` under fairness | 2 handlers, requests of which two are denied, 2 client calls or 1 call and 1 change of leases, 2 deliveries per message; browsers and syncs fail |
| `queue_faults` | `AckedCheckHasOutcome`, `OnlyFaultsStrand` | a browser check and a deploy the guardrail refuses, under 1 command, 2 client calls, every failure at every step (syncs included), unread command records |
| `rejected_deploy` (violation) | a rejected live deploy is executed by a waiting message | 3 client calls |
| `requests` | `DoubleClaimOnlyUnseen`, `OwnerIsLastHolder`, `ReopenedOnlyOnPurpose`, and `EveryRequestIsDispatched` under fairness | 2 handlers, 2 requests, 2 orchestrators, 3 client calls, 2 deliveries, every failure; callers that name the statuses planning, completed and received |
| `missions` | `StatusFollowsWorkers`, `PlaybackReproducesGraph`, `RoomIsCurrent` | 2 workers, 5 updates, 1 handoff, 2 handlers, 3 calls cut short anywhere, 1 failed read |
| `console` | `ConsoleShowsTheStore`, `DismissalIsFinal` | 3 handlers, 1 alert, 1 approval with 2 grants, 4 calls, failing reads and writes |
| `gateway` | `NoLostWakeup`, `SubscribersAreTold`, `OnlyOperatorsMutate`, and that the session implements `EventStream` | 2 handlers, 1 alert, 1 reader, history of 1, 2 calls, batches on both surfaces, 3 credentials; no approvals, which only routes change |
| `broker` | `ResumeIsComplete`, `FollowersAreCurrent` | 2 readers, 1 resource, history of 2, 4 notifications |
| `broker_gap` (violation) | an open stream misses a notification | 1 reader |

Why the bounds are enough: the races are between two actors, one that decides
and one that writes in between, and two handlers give both; where a third one
matters (a route, a tool and a second route between the two writes of the first)
the run has three. Two leases are a request's own and a competing one; the third
of `kernel_authority` is the one the second hands the resource to. A clock of
two values makes every expiry happen at, before and after a decision. A history
of 2 with 4 notifications, or of 1 with 2, is cut while readers are behind.
Three calls on a mission are two that overlap and one that repairs, or a
creation and two updates. `MaxCalls`, `MaxChanges`, `MaxEvents` (calls and
changes together), `MaxTime`, `MaxMissed` and `MaxIssued` are the only bounds on
counters. They end behaviours early, so the configurations that need it say
`CHECK_DEADLOCK FALSE`. The broker, the console and the gateway, where eviction
or a moving command is always possible, are checked for deadlock too.

The queue runs have a VIEW: states that differ only in the order or number of the
events logged are one (`QueueView`). No guard and no step but the append itself
reads the log, and the properties of the queue ask of it only which statuses it
holds, so such states have the same futures.

Each type invariant also bounds what the code bounds: the attempts of a message,
the length of the history, the values of a status.

**Fairness.** `FairQueue` and `OperatorRequest!FairSpec` assume weak fairness of
the server's steps together: a Worker that has started runs on to its response or
acknowledgement, and the queue delivers what it holds. Nothing is assumed of
clients, of the operator, of failures or of time. In `queue_settles` no store
call fails: with failures the code does leave commands behind (next paragraph).
`requests` has every failure, and `dropped` names those the code does not recover
from.

**Known limits of the code that the runs respect.** A crash between the record
that says queued and the message that is to take it up
(`commands.route.ts:14-16`) leaves the command queued, and one after the emitted
record (`submit-command.service.ts:102-110`) leaves it emitted; the code has no
recovery for either. So `QueuedIsAttended` and `EveryCommandSettles` are checked
without store failures and evictions, and `OnlyFaultsStrand` and
`AckedCheckHasOutcome` with them: the first says that such a crash, a last
delivery or a refused call is the only way to strand a command. `queue_settles`
has browsers and syncs that fail, and so has the theorem
`QueuedCommandsAreAttended`. The status of a mission that a room serves is not part of
`RoomIsCurrent`: a delta of a worker does not carry the status it implied, so the
room's is out of date until the next snapshot.

## 4. What disagrees with the documents

Three disagreements are kept as runs:

* `docs/derived/00_session_refined.md:20`, the event log is append-only: an event is
  a file named by command, status and millisecond (`command-event.ts:18`), which a
  later event of that name overwrites (`log_overwrite`). So the number of attempts
  in a record may exceed the number of its events, and no property relates them;
  that every status of a record is in the log holds (`RecordNeverAheadOfLog`).
* `docs/derived/00_session_refined.md:65`, no implicit deploy trigger: `retry`
  does not refuse a rejected command (`rejected_deploy`).
* `README.md:166`, replay and long-lived streams: a subscribe that overlaps a
  notification takes it back and makes an id be used twice (`broker_gap`). What
  does hold is `ResumeIsComplete` and `FollowersAreCurrent` as long as none does,
  and `EventStream` of the in-memory sessions, which never wait.

Four more statements are stronger than the code and are replaced by what holds:

* `docs/derived/05_state_format.md:121`, one active lease per resource: acquire
  checks and then writes. What holds is `DoubleGrantOnlyUnseen`.
* `docs/derived/05_state_format.md:115`, the dedup index is checked before
  processing: it is written after the command was emitted, so overlapping
  submissions both execute. What holds is `CompletionIsDeduplicated`.
* `README.md:103`, playback keeps the full trace: two deltas that are numbered at
  once are one file. What holds is `PlaybackReproducesGraph`, until a file is
  written twice, and again after the snapshot of a mission that ends.
* `README.md:289`, alerts and approvals coordinated through the control state: the
  tools write the store alone. What holds is `ConsoleShowsTheStore`.

The routes for alerts do not notify MCP subscribers; only the tools do, and
`SubscribersAreTold` says no more.

## 5. The proofs

Every theorem holds for any sets of constants, any bounds on the counters and
the assumptions the modules name.

`SessionLease_proofs`: `TypeCorrect`, `DoubleGrants`, `GrantsWithinLifetime`, and
`Implementation`, that the services implement the abstract store. What two leases
have seen of each other depends on what calls in flight have scanned, and what a
write leaves behind depends on a copy read earlier. The inductive invariant
`IInv` adds to the type invariant what is true of calls in flight:

* what `acquire` scanned and found free is free still or is in `blind`
  (`Overlooked`), since `PutAcquired` puts there what it grants after the scan;
* a session copy that `acquire` read promises no more life than `longestUntil`,
  and a lease about to be written starts within the life of its session;
* every copy about to be written was computed by the policies at a moment not
  later than the clock, from a time-to-live a client asked for, and a copy that
  ends a record was read from one that exists;
* the same holds of the records in the store.

`OperatorRequest_proofs`: `TypeCorrect`, `ClaimsExclude`, `OwnersKeep`,
`FinishedStays`. `CallInv` says what the record a call is about to write has to do
with the copy it read: the owner it keeps, the claimable status it saw, the
listed request that was not finished. `OpenIsFree` says that a request open for
claims is granted to nobody unless a stale write undid something; without it a
second grant could not be told from a first.

`ControlState_proofs`: `ControlTypes`, `ConsoleIsCurrent`, `DismissalsStay`. The
console is current only because somebody is still to repair it when it is not, so
the invariant carries `Repaired` (an entry that differs is torn or has a call
between its two writes) and `Fresh` (a call that nobody overtook holds what the
store has).

`CommandKernel_proofs`: `KernelTypes`, `BarredIsNotExecuted`, `LogComesFirst`,
`CompletionsAreStored`, `LiveDeploysAreAuthorised`. A call
decides on a list of writes and makes them one by one, and may be cut short
between any two. `Rests` says of every write still in a list what it rests on, in
front of it in the list or in the store: a record on its event, a completion on its
dedup entry, an emission on an authorisation. `BarredInv` follows a check that has
said no, and a lease that has held the resource (`rivals`), since the call began: it
is still to be read, or was read and failed (`StillBarred`). So `BarredIsNotExecuted`,
a claim about the step that decides, holds for any number of leases that come and go
while the list is fetched; it says nothing of leases that hand the resource to each
other. `BaseInv` says that a copy is one of the call's own command. An event that is
overwritten leaves one of its status (`LogGrows`), which is all that the others need.

`ControlQueue_proofs`: `QueueTypes`, `CommandsStaySafe`, `AckedChecksHaveOutcomes`,
`QueuedCommandsAreAttended`, `OnlyFaultsStrandCommands`. Every step of the queue is
a step of the command services or begins or ends one of their calls, so `IInv`
holds under it. `QInv` adds what a consumer knows of its message at each stage
(`JobFits`) and that a transition is logged before it is over. For the last two
theorems `SInv` adds `Serves`: only somebody who acts on a command that comes back
queued may write that it is, and an attempt that may be given up belongs to a
message that comes back or is at its last delivery. Then each step that leaves a
queued command to nobody is a `Fault`: one of the steps `OnlyFaultsStrand` names,
together with the failure that makes it possible. Without such failures there is
none, which is `QueuedCommandsAreAttended`: it assumes `NothingEndsEarly` (no store
call fails, no Worker or batch ends early, command records are read) and nothing of
the browser, the syncs or the clients.

`Mission_proofs`: `MissionTypes`, `MissionStatusFollows`, `PlaybackIsComplete`,
`RoomServesTheStore`. The three copies of a mission agree only at rest, so the
invariant speaks of every moment: what the log or the room misses of the store is
still to be told by a call in flight (`Follows`, with `TellsWorker`, `TellsEdge`
and `TellsHandoff`), and neither shows what the store does not have (`Below`). What
a call still has to tell is fixed by its delta (`OwnDelta`). `Replay` of a longer
log is `Replay` of the shorter one with one delta applied, which is all the proof
needs of it.

`McpBroker_proofs`: `BrokerTypes`, `BrokerResumes`, `BrokerTellsFollowers`. The ids
of a history follow one another and end before the next one (`WellNumbered`), in the
stored session and in each copy that a subscribe holds while it waits for its body.
So what follows a cursor is an end of the history. As long as nothing was taken back,
a copy with the same next id has the same events (`CopiesFit`) and an id is the
number of its notification. `IsFiniteSet(Uri)` is assumed for the number of
notifications a mutation makes; the code enumerates the subscriptions of a session.

`McpGateway_proofs`: `GatewayTypes`, `OnlyOperators`, `GatewayConsole`,
`StreamsAreWoken`, `SubscribersHear`, `StreamImplementation`. The steps of the gateway
are steps of `ControlState` or leave it alone, but for the eviction of an isolate,
which ends all its calls at once; so `ConsoleIsCurrent` carries over. `Authorised`
says that a request that works on a call has the role of an operator, wherever in a
batch its message stood. `SessionInv` ties the session to the log of all it was sent:
the history is the end of the log, and what a stream has in hand and in its queue
reaches without a gap from what its client was sent to the end of the log, except
for what the history had dropped when the stream began. From it follow
`NoLostWakeup` and the refinement of `EventStream`, in which a publication extends
the log and a read sends a stretch of it. `ToldInv` says that a request that has yet
to tell of a change stands before its `publish`.

Each module proves that the initial states satisfy its invariant, that every action
keeps it (one lemma per kind of step), and the properties from it. What the
recursive functions return is proved with a least counterexample, from the
library's `WFMin` for the order of the naturals.

Only model-checked: `EveryCommandSettles` and `EveryRequestIsDispatched`, since
liveness under fairness and ENABLED are beyond the prover, and the three violations.
Every other property of a passing run is a theorem. No module here has a RECURSIVE
operator.

## 6. Not modelled, and the plan

Next, in this order:

1. `GitHubStore`: read the SHA, then PUT, with conflicts and lost answers; it
   implements the atomic store the other modules assume.
2. The broker as a second implementation of `EventStream`, for behaviours in
   which no subscribe overlaps a notification.
3. Proofs that go with them: that `GitHubStore` implements the atomic store, and
   the broker `EventStream`.

Left aside:

* console markup, wiring and routing: no state of their own;
* observability, quality, state and release projections: read-only aggregations
  of records that are modelled elsewhere; the release gate is a table;
* learnings, retrospectives and evidence bundles: single records that are written
  once;
* the hub that forwards a room's broadcasts to sockets, and the sockets;
* authentication switched off (everybody is an operator): what is checked of roles
  is switched off with it; the yolo mode, a flag that only summaries and the
  release gate read;
* the cookie of a login beyond being valid or not, and the cache of GitHub
  installation tokens;
* several isolates: requests of one MCP session that reach another isolate do not
  find it, which is the same as an eviction for the session modelled here;
* `alert-fanout` messages: they only notify.
