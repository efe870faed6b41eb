----------------------------- MODULE CommandKernel -----------------------------
(***************************************************************************)
(* The command services of packages/application: submit, approve, retry,   *)
(* fail, reject, cancel and complete over the shared store.                *)
(*                                                                         *)
(* A call runs in a handler.  Handlers interleave at every store call and  *)
(* may stop at any of them (a store error, an evicted Worker), leaving the  *)
(* writes made so far.  The writes a call has decided on but not yet made  *)
(* are its `todo`, in the order of the code.  Sessions and leases change   *)
(* under the calls as LeaseStore says.                                     *)
(***************************************************************************)
EXTENDS LeaseStore, Sequences

CONSTANTS
  Handler,      \* concurrent calls
  CommandId,
  DedupKey,     \* dedup index files: keys that hash alike are one element
  Request,      \* the command envelopes clients may submit
  Unread,       \* files the store may fail to read, which then count as absent
  ApprovalTtl,  \* time-to-live values of scoped approvals
  MaxCalls,     \* bound on the number of calls made
  MaxChanges,   \* bound on the writes of sessions, leases and approvals
  MaxEvents     \* bound on both together

\* github_write stands for every action that runs inline without approval,
\* browser_check for the two that are handed to the queue.
Action == {"github_write", "deploy_live", "template_mutation", "browser_check"}

Envelope == [command  : CommandId, dedup  : DedupKey, session : SessionId,
             lease    : LeaseId,   scope  : Scope,    action  : Action,
             explicit : BOOLEAN,   \* payload.explicitLive
             keyOk    : BOOLEAN]   \* conflictKey absent, or that of the scope

ASSUME CommandKernelAssumption ==
  /\ Request \subseteq Envelope
  /\ Request # {}
  /\ Unread \subseteq {"command", "session", "lease", "leases", "dedup", "approvals"}
  /\ ApprovalTtl \subseteq Nat
  /\ MaxCalls \in Nat
  /\ MaxChanges \in Nat
  /\ MaxEvents \in Nat

Status == {"rejected", "queued", "emitted", "completed", "failed", "cancelled"}

\* The reasons fail is called with (queue exhaustion or an error code), then
\* none and all the others.
FailReason == {"retry_exhausted", "service_error", "not_found"}
Reason == FailReason \cup {"none", "other"}

VARIABLES
  commands,       \* CommandId -> the command record
  events,         \* CommandId -> its part of the event log
  dedup,          \* dedup keys with an index entry
  approvals,      \* scoped approvals of deploy_live: Scope -> expiry, 0 if none
  call,           \* what each handler is doing
  started,        \* number of calls made, bounded by MaxCalls
  changed,        \* number of changes under them, bounded by MaxChanges
  approvedUntil   \* history: latest expiry of an approval of each scope

kernelVars == <<commands, events, dedup, approvals, call,
                started, changed, approvedUntil>>
vars == <<storeVars, kernelVars>>

Command == [status   : Status \cup {"absent", "received"},
            attempts : Nat,
            reason   : Reason,
            req      : Envelope]

Event == [status : Status, req : Envelope, at : Nat, submitted : BOOLEAN]

\* The Promise.all in execute makes four reads.  Three of them read one file and
\* are named for what they check; the fourth, "leases", lists the leases.
Check == {"session", "lease", "dedup"}

Write == [kind : {"event", "record"}, status : Status, reason : Reason]
           \cup [kind : {"dedup"}]

AnyRequest == CHOOSE q \in Request : TRUE

NoCommand == [status |-> "absent", attempts |-> 0, reason |-> "none",
              req |-> AnyRequest]

Submitting == {"submit", "approve", "retry"}
Transition == {"fail", "reject", "cancel", "complete"}

\* pending, unlisted: files and leases of the list not read yet; failed: checks
\* whose read said no; barred: checks that would have said no at every moment
\* since the call began, and were not left unread; rivals: leases that held the
\* resource at every moment since, and were not left unread.
Call == [op       : Submitting \cup Transition \cup {"none"},
         step     : {"idle", "check", "get", "read", "write", "final",
                     "done", "refused", "thrown"},
         req      : Envelope,
         now      : Nat,
         reason   : Reason,
         base     : Command,
         pending  : SUBSET Check,
         unlisted : SUBSET LeaseId,
         failed   : SUBSET (Check \cup {"leases"}),
         barred   : SUBSET Check,
         rivals   : SUBSET LeaseId,
         todo     : Seq(Write),
         result   : Command]

NoCall == [op |-> "none", step |-> "idle", req |-> AnyRequest, now |-> 0,
           reason |-> "none", base |-> NoCommand, pending |-> {}, unlisted |-> {},
           failed |-> {}, barred |-> {}, rivals |-> {}, todo |-> <<>>,
           result |-> NoCommand]

Init ==
  /\ clock = 0
  /\ sessions \in [SessionId -> {NoSession} \cup {IssueSession(t, 0) : t \in Ttl}]
  /\ leases \in [LeaseId -> {NoLease} \cup
                    {AcquireLease(s, r, t, 0) : s \in SessionId, r \in Scope, t \in Ttl}]
  /\ commands = [c \in CommandId |-> NoCommand]
  /\ events = [c \in CommandId |-> <<>>]
  /\ dedup = {}
  /\ approvals = [r \in Scope |-> 0]
  /\ call = [h \in Handler |-> NoCall]
  /\ started = 0
  /\ changed = 0
  /\ approvedUntil = [r \in Scope |-> 0]
-----------------------------------------------------------------------------
(***************************************************************************)
(* The checks of submit-command.service.ts and the guardrail.              *)
(***************************************************************************)
SessionRefused(ss, q, now) == ~IsSessionUsable(ss[q.session], now)

LeaseRefused(ls, q, now) ==
  ~ /\ ls[q.lease].session = q.session
    /\ IsLeaseUsable(ls[q.lease], q.scope, now)

Others(q) == LeaseId \ {q.lease}

\* hasCompetingLease: a lease past its expiry still competes.
Competing(ls, q) == {l \in Others(q) : HoldsResource(ls[l], q.scope)}

\* Would the read of the one file say no, in a store with these records?
Refused(what, q, now, ss, ls) ==
  \/ what = "session" /\ SessionRefused(ss, q, now)
  \/ what = "lease"   /\ LeaseRefused(ls, q, now)
  \/ what = "dedup"   /\ q.dedup \in dedup

\* approve and retry pass skipDedup.
ChecksOf(op) == IF op = "submit" THEN Check ELSE Check \ {"dedup"}

\* Mutant: an approval holds at the moment it expires.
HasScopedApprovalLate(q) ==
  \E r \in Scope : /\ SameResourceScope(r, q.scope)
                   /\ approvals[r] # 0
                   /\ approvals[r] >= clock

HasScopedApproval(q) ==
  \E r \in Scope : SameResourceScope(r, q.scope) /\ approvals[r] > clock

Forbidden(q) ==
  \/ q.action = "template_mutation"
  \/ q.action = "deploy_live" /\ ~q.explicit /\ ~HasScopedApproval(q)

\* updateCommandRecord, with shouldBumpAttempt.
UpdateCommandRecord(rec, status, reason) ==
  [rec EXCEPT !.status = status, !.reason = reason,
              !.attempts = IF status \in {"queued", "rejected", "completed", "failed"}
                           THEN @ + 1 ELSE @]

EventOf(status)          == [kind |-> "event", status |-> status, reason |-> "none"]
RecordOf(status, reason) == [kind |-> "record", status |-> status, reason |-> reason]
DedupEntry               == [kind |-> "dedup"]

\* Mutant: the record is written before the event.
SingleRecordFirst(status) == <<RecordOf(status, "other"), EventOf(status)>>

\* singleEventResponse
SingleEvent(status) == <<EventOf(status), RecordOf(status, "other")>>

\* saveDedup is skipped by approve and retry (persistDedup: false).
SaveDedup(op) == IF op = "submit" THEN <<DedupEntry>> ELSE <<>>

\* Mutant: the dedup entry is stored last.
InlineDedupLast(op) ==
  <<RecordOf("emitted", "none"), EventOf("emitted"),
    EventOf("completed"), RecordOf("completed", "other")>> \o SaveDedup(op)

InlineExecution(op) ==
  <<RecordOf("emitted", "none"), EventOf("emitted")>> \o SaveDedup(op)
     \o <<EventOf("completed"), RecordOf("completed", "other")>>

\* Mutants: the lease is not tested; a conflict yields the old status blocked.
DecisionWithoutLease(c) ==
  IF c.failed \cap {"session", "dedup"} # {} THEN SingleEvent("rejected")
  ELSE IF "leases" \in c.failed THEN SingleEvent("queued") \o SaveDedup(c.op)
  ELSE InlineExecution(c.op)

DecisionBlocked(c) ==
  IF c.failed # {} THEN SingleEvent("blocked") ELSE InlineExecution(c.op)

\* What execute does once its reads have answered, in the order of its tests.
Decision(c) ==
  IF c.failed \cap {"session", "lease", "dedup"} # {}
    THEN SingleEvent("rejected")
  ELSE IF Forbidden(c.req)
    THEN SingleEvent("rejected") \o SaveDedup(c.op)
  ELSE IF "leases" \in c.failed \/ c.req.action = "browser_check"
    THEN SingleEvent("queued") \o SaveDedup(c.op)
  ELSE InlineExecution(c.op)
-----------------------------------------------------------------------------
(***************************************************************************)
(* The calls.                                                              *)
(***************************************************************************)
Idle(h) == call[h].step = "idle"

Become(h, c) ==
  /\ call' = [call EXCEPT ![h] = c]
  /\ UNCHANGED <<storeVars, commands, events, dedup, approvals, started,
                 changed, approvedUntil>>

Begin(h, c) ==
  /\ Idle(h)
  /\ started < MaxCalls
  /\ started + changed < MaxEvents
  /\ started' = started + 1
  /\ call' = [call EXCEPT ![h] = c]
  /\ UNCHANGED <<storeVars, commands, events, dedup, approvals, changed,
                 approvedUntil>>

\* execute starts: it takes the time before it reads anything.
Execute(c, op, q) ==
  [c EXCEPT !.op = op, !.step = "get", !.req = q, !.now = clock,
            !.barred = {w \in ChecksOf(op) : Refused(w, q, clock, sessions, leases)},
            !.rivals = Competing(leases, q)]

Submit(q) == Execute(NoCall, "submit", q)

OnCommand(op, step, c) ==
  [NoCall EXCEPT !.op = op, !.step = step, !.req = [AnyRequest EXCEPT !.command = c]]

\* approve, retry and fail look at the record before anything else.
Approve(c)      == OnCommand("approve", "check", c)
Retry(c)        == OnCommand("retry", "check", c)
Fail(c, reason) == [OnCommand("fail", "check", c) EXCEPT !.reason = reason]

\* reject, cancel, complete
Move(op, c) == [OnCommand(op, "get", c) EXCEPT !.reason = "other"]

NotAllowed(op, cmd) ==
  \/ cmd.status \in {"absent", "completed", "cancelled"}
  \/ op = "approve" /\ cmd.req.action # "deploy_live"

\* What getCommand may answer.
CommandsSeen(id) == {commands[id]} \cup (IF "command" \in Unread THEN {NoCommand} ELSE {})

CheckCommand(h) ==
  LET c == call[h] IN
  /\ c.step = "check"
  /\ \E cmd \in CommandsSeen(c.req.command) :
       Become(h,
         IF NotAllowed(c.op, cmd)
           THEN [NoCall EXCEPT !.step = "refused"]
         ELSE IF c.op = "approve"
           THEN Execute(c, "approve", [cmd.req EXCEPT !.explicit = TRUE])
         ELSE IF c.op = "retry"
           THEN Execute(c, "retry", cmd.req)
         ELSE IF cmd.status = "failed" /\ cmd.reason = c.reason
           THEN [c EXCEPT !.step = "done", !.result = cmd]
         ELSE [c EXCEPT !.step = "get"])

\* An existing record keeps its status and attempts and takes the request's
\* fields, but for the conflict key, which is computed.
BaseRecord(cmd, q) ==
  [(IF cmd.status = "absent" THEN [NoCommand EXCEPT !.status = "received"] ELSE cmd)
   EXCEPT !.req = [q EXCEPT !.keyOk = TRUE]]

\* The call goes over to its writes.
Decided(c, todo) ==
  [c EXCEPT !.step = "write", !.todo = todo, !.failed = {}, !.barred = {}, !.rivals = {}]

\* getCommand in execute
GetForExecute(h) ==
  LET c == call[h] IN
  /\ c.op \in Submitting
  /\ c.step = "get"
  /\ \E cmd \in CommandsSeen(c.req.command) :
       Become(h, IF c.req.keyOk
                 THEN [c EXCEPT !.step = "read", !.base = BaseRecord(cmd, c.req),
                                !.pending = ChecksOf(c.op),
                                !.unlisted = Others(c.req)]
                 ELSE Decided([c EXCEPT !.base = BaseRecord(cmd, c.req)],
                              SingleEvent("rejected")))

Read(h, what) ==
  LET c == call[h] IN
  /\ c.step = "read"
  /\ what \in c.pending
  /\ Become(h, [c EXCEPT !.pending = @ \ {what},
                         !.failed = IF Refused(what, c.req, c.now, sessions, leases)
                                    THEN @ \cup {what} ELSE @])

\* An unread session or lease is refused; an unread dedup entry is not seen.
LeaveUnread(h, what) ==
  LET c == call[h] IN
  /\ c.step = "read"
  /\ what \in c.pending \cap Unread
  /\ Become(h, [c EXCEPT !.pending = @ \ {what}, !.barred = @ \ {what},
                         !.failed = IF what \in {"session", "lease"}
                                    THEN @ \cup {what} ELSE @])

\* listLeases lists a directory and fetches every file on its own: a lease that is
\* not in the directory is read as it was then.
ListLease(h, l) ==
  LET c == call[h] IN
  /\ c.step = "read"
  /\ l \in c.unlisted
  /\ Become(h, [c EXCEPT !.unlisted = @ \ {l},
                         !.failed = IF HoldsResource(leases[l], c.req.scope)
                                    THEN @ \cup {"leases"} ELSE @])

\* A lease that cannot be read is not in the list.
MissLease(h, l) ==
  LET c == call[h] IN
  /\ "leases" \in Unread
  /\ c.step = "read"
  /\ l \in c.unlisted
  /\ Become(h, [c EXCEPT !.unlisted = @ \ {l}, !.rivals = @ \ {l}])

Answered(c) == c.step = "read" /\ c.pending = {} /\ c.unlisted = {}

\* listScopedApprovals, and the decision that follows it in the same turn.
Decide(h) ==
  /\ Answered(call[h])
  /\ Become(h, Decided(call[h], Decision(call[h])))

\* The approval of a live deploy cannot be read: the guardrail refuses it.
MissApproval(h) ==
  LET c == call[h] IN
  /\ "approvals" \in Unread
  /\ Answered(c)
  /\ c.failed \cap {"session", "lease", "dedup"} = {}
  /\ c.req.action = "deploy_live" /\ ~c.req.explicit
  /\ Become(h, Decided(c, SingleEvent("rejected") \o SaveDedup(c.op)))

StatusOf(op) == CASE op = "fail" -> "failed" [] op = "reject" -> "rejected"
                  [] op = "cancel" -> "cancelled" [] op = "complete" -> "completed"

\* transition: no status is refused here.
GetForTransition(h) ==
  LET c == call[h] IN
  /\ c.op \in Transition
  /\ c.step = "get"
  /\ \E cmd \in CommandsSeen(c.req.command) :
       Become(h,
         IF cmd.status = "absent"
         THEN [NoCall EXCEPT !.step = "refused"]
         ELSE [c EXCEPT !.step = "write", !.base = cmd, !.req = cmd.req,
                        !.now = clock,
                        !.todo = <<EventOf(StatusOf(c.op)),
                                   RecordOf(StatusOf(c.op), c.reason)>>])

\* approve and retry read the record once more and return it.
AfterWrites(c) ==
  [NoCall EXCEPT !.op = c.op, !.req = c.req, !.result = c.result,
                 !.step = IF c.op \in {"approve", "retry"} THEN "final" ELSE "done"]

\* The GitHub store names the file of an event by its command, its status and the
\* millisecond of its call, so an event of the same name is overwritten; within
\* one tick of the clock two events may have one name or two.
Logging(log, e) ==
  {Append(log, e)} \cup
  {[log EXCEPT ![i] = e] : i \in {j \in DOMAIN log : /\ log[j].status = e.status
                                                   /\ log[j].at = e.at}}

WriteNext(h) ==
  LET c == call[h]
      w == Head(c.todo)
      id == c.req.command
      rec == UpdateCommandRecord(c.base, w.status, w.reason)
      next == [c EXCEPT !.todo = Tail(@),
                        !.result = IF w.kind = "record" THEN rec ELSE @]
  IN /\ c.step = "write"
     /\ call' = [call EXCEPT ![h] = IF Len(c.todo) = 1 THEN AfterWrites(next) ELSE next]
     /\ \/ /\ w.kind = "event"
           /\ \E log \in Logging(events[id],
                                [status |-> w.status, req |-> c.req, at |-> c.now,
                                 submitted |-> c.op = "submit"]) :
                events' = [events EXCEPT ![id] = log]
           /\ UNCHANGED <<commands, dedup>>
        \/ /\ w.kind = "record"
           /\ commands' = [commands EXCEPT ![id] = rec]
           /\ UNCHANGED <<events, dedup>>
        \/ /\ w.kind = "dedup"
           /\ dedup' = dedup \cup {c.req.dedup}
           /\ UNCHANGED <<commands, events>>
     /\ UNCHANGED <<storeVars, approvals, started, changed, approvedUntil>>

ReadBack(h) ==
  /\ call[h].step = "final"
  /\ \E cmd \in CommandsSeen(call[h].req.command) :
       Become(h, IF cmd.status = "absent" THEN [NoCall EXCEPT !.step = "refused"]
                 ELSE [call[h] EXCEPT !.step = "done", !.result = cmd])

\* A store call throws, or the Worker is evicted: the rest is never done.
Abort(h) ==
  /\ call[h].step \notin {"idle", "done", "refused", "thrown"}
  /\ Become(h, [NoCall EXCEPT !.step = "thrown"])

Return(h) ==
  /\ call[h].step \in {"done", "refused", "thrown"}
  /\ Become(h, NoCall)

CallStep(h) ==
  \/ CheckCommand(h)
  \/ GetForExecute(h)
  \/ \E what \in Check : Read(h, what) \/ LeaveUnread(h, what)
  \/ \E l \in LeaseId : ListLease(h, l) \/ MissLease(h, l)
  \/ Decide(h)
  \/ MissApproval(h)
  \/ GetForTransition(h)
  \/ WriteNext(h)
  \/ ReadBack(h)
-----------------------------------------------------------------------------
(***************************************************************************)
(* What changes under the calls.                                           *)
(***************************************************************************)
StoreStep ==
  /\ StoreNext
  /\ call' = [h \in Handler |->
       LET c == call[h] IN
       [c EXCEPT !.barred = {w \in @ : Refused(w, c.req, c.now, sessions', leases')},
                 !.rivals = @ \cap Competing(leases', c.req)]]
  /\ UNCHANGED <<commands, events, dedup, approvals, started, approvedUntil>>

CreateApproval(r, ttl) ==
  LET until == clock + ttl IN
  /\ approvals' = [approvals EXCEPT ![r] = until]
  /\ approvedUntil' = [approvedUntil EXCEPT ![r] = IF until > @ THEN until ELSE @]
  /\ UNCHANGED <<storeVars, commands, events, dedup, call, started>>

DeleteApproval(r) ==
  /\ approvals[r] # 0
  /\ approvals' = [approvals EXCEPT ![r] = 0]
  /\ UNCHANGED <<storeVars, commands, events, dedup, call, started, approvedUntil>>

Environment ==
  /\ changed < MaxChanges
  /\ started + changed < MaxEvents
  /\ changed' = changed + 1
  /\ \/ StoreStep
     \/ \E r \in Scope, ttl \in ApprovalTtl : CreateApproval(r, ttl)
     \/ \E r \in Scope : DeleteApproval(r)

Next ==
  \/ Environment
  \/ \E h \in Handler :
       \/ \E q \in Request : Begin(h, Submit(q))
       \/ \E c \in CommandId :
            \/ Begin(h, Approve(c))
            \/ Begin(h, Retry(c))
            \/ \E reason \in {"retry_exhausted", "not_found"} : Begin(h, Fail(c, reason))
            \/ \E op \in {"reject", "cancel", "complete"} : Begin(h, Move(op, c))
       \/ CallStep(h)
       \/ Abort(h)
       \/ Return(h)

Spec == Init /\ [][Next]_vars
-----------------------------------------------------------------------------
TypeOK ==
  /\ clock \in 0..MaxTime
  /\ sessions \in [SessionId -> Session]
  /\ leases \in [LeaseId -> Lease]
  /\ commands \in [CommandId -> Command]
  /\ events \in [CommandId -> Seq(Event)]
  /\ dedup \subseteq DedupKey
  /\ approvals \in [Scope -> Nat]
  /\ call \in [Handler -> Call]
  /\ started \in 0..MaxCalls
  /\ changed \in 0..MaxChanges
  /\ approvedUntil \in [Scope -> Nat]

WillEmit(c) == \E i \in DOMAIN c.todo : c.todo[i] = RecordOf("emitted", "none")

\* The reads of submit-command.service.ts:47-52 see each file as it was at some
\* moment of the call.  So a session or lease that was unusable, a dedup key that
\* was used and one other lease that held the resource from the beginning of the
\* call to the end of its reads keep the command from executing inline (53-84),
\* however the reads interleave with the writes of others, unless the file of the
\* dedup entry or of that lease could not be read.  Leases that hand the resource
\* to each other during the call may all be missed, since each file of the list
\* is fetched on its own (github-control-plane.store.ts:128-131, 171-174).
NoExecutionWhileBarred ==
  [][\A h \in Handler :
       call[h].step = "read" /\ WillEmit(call'[h]) =>
         call[h].barred = {} /\ call[h].rivals = {}]_vars

Logged(c, status) == \E i \in DOMAIN events[c] : events[c][i].status = status

\* docs/derived/00_session_refined.md:20-21 wants state changes to be events.
\* Every status but "emitted" is logged before the record shows it, so a crash
\* between the two writes (command-lifecycle.service.ts:92-94,
\* submit-command.service.ts:109-110, 139-140) never leaves a record ahead of
\* the log.
RecordNeverAheadOfLog ==
  \A c \in CommandId :
    commands[c].status \notin {"absent", "emitted"} => Logged(c, commands[c].status)

\* submit-command.service.ts:105-109: by the time a submitted command is logged
\* as completed its dedup key is stored, so a crash after the execution cannot
\* let a resubmission execute again.  Overlapping submissions with one key can
\* both execute: hasDedup and saveDedup are apart (51, 106).
CompletionIsDeduplicated ==
  \A c \in CommandId : \A i \in DOMAIN events[c] :
    events[c][i].status = "completed" /\ events[c][i].submitted =>
      events[c][i].req.dedup \in dedup

\* docs/derived/03_guardrail.md:7, "No live deploy without explicit user
\* command".  guardrail.policy.ts:19-29: a live deploy is emitted only with
\* explicitLive or under a scoped approval that was valid after the call began,
\* whoever submits, retries or approves the command at the same time.
LiveDeployIsAuthorised ==
  \A c \in CommandId : \A i \in DOMAIN events[c] :
    LET e == events[c][i] IN
    e.status = "emitted" /\ e.req.action = "deploy_live" /\ ~e.req.explicit =>
      \E r \in Scope : SameResourceScope(r, e.req.scope) /\ approvedUntil[r] > e.at

\* docs/derived/00_session_refined.md:20, "Event log is append-only (no
\* overwrite)".  Two events of one command with one status and one millisecond
\* have one file name (command-event.ts:18, github-paths.ts eventPath), so the
\* later one replaces the earlier (github-control-plane.store.ts:94-96).
LogIsAppendOnly ==
  [][\A c \in CommandId : \A i \in DOMAIN events[c] :
       i \in DOMAIN events'[c] /\ events'[c][i] = events[c][i]]_vars
=============================================================================
