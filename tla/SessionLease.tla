----------------------------- MODULE SessionLease -----------------------------
(***************************************************************************)
(* The session and lease services of packages/application over the shared  *)
(* control-plane store.                                                    *)
(*                                                                         *)
(* Every HTTP request runs in a handler; handlers interleave at each await *)
(* of a store call.  One store call is one step: a read that answers from  *)
(* the store as it is then, or a write of the whole record.  Listing the   *)
(* leases reads them one after the other, which covers both stores: the    *)
(* GitHub store lists a directory and fetches each file, the memory store  *)
(* returns all at once.                                                    *)
(***************************************************************************)
EXTENDS ControlPolicy

CONSTANTS
  Handler,      \* concurrent requests
  Ttl,          \* time-to-live values a client may ask for
  MaxTime,      \* bound on the clock
  ListFaults    \* the store is the GitHub one: a failed read lists nothing

ASSUME SessionLeaseAssumption ==
  /\ Ttl \subseteq Nat
  /\ Ttl # {}
  /\ MaxTime \in Nat
  /\ ListFaults \in BOOLEAN

VARIABLES
  clock,        \* new Date()
  sessions,     \* the session records of the store
  leases,       \* the lease records of the store
  call,         \* what each handler is doing
  unseen,       \* history: leases whose present grant a grant did not see
  longestUntil  \* history: the latest expiry each session was ever given

vars == <<clock, sessions, leases, call, unseen, longestUntil>>

LS == INSTANCE LeaseStore

Op == {"acquire", "release", "revokeLease", "issue", "renew", "revokeSession"}

\* scanned: leases listed so far; conflict: one of them holds the resource;
\* session, lease: what was read or is about to be written; blind: leases
\* granted after the scan passed them, or hidden by a failed read.
Call == [op       : Op \cup {"none"},
         step     : {"idle", "read", "put"},
         sid      : SessionId,
         lid      : LeaseId,
         scope    : Scope,
         ttl      : Ttl,
         asked    : BOOLEAN,
         session  : Session,
         lease    : Lease,
         scanned  : SUBSET LeaseId,
         conflict : BOOLEAN,
         blind    : SUBSET LeaseId]

NoCall == [op       |-> "none",
           step     |-> "idle",
           sid      |-> CHOOSE s \in SessionId : TRUE,
           lid      |-> CHOOSE l \in LeaseId : TRUE,
           scope    |-> CHOOSE r \in Scope : TRUE,
           ttl      |-> CHOOSE t \in Ttl : TRUE,
           asked    |-> FALSE,
           session  |-> NoSession,
           lease    |-> NoLease,
           scanned  |-> {},
           conflict |-> FALSE,
           blind    |-> {}]

Init ==
  /\ clock = 0
  /\ sessions = [s \in SessionId |-> NoSession]
  /\ leases = [l \in LeaseId |-> NoLease]
  /\ call = [h \in Handler |-> NoCall]
  /\ unseen = [l \in LeaseId |-> {}]
  /\ longestUntil = [s \in SessionId |-> 0]

Store == <<sessions, leases>>
History == <<unseen, longestUntil>>

Tick ==
  /\ clock < MaxTime
  /\ clock' = clock + 1
  /\ UNCHANGED <<Store, call, History>>

Idle(h) == call[h].step = "idle"

Become(h, c) ==
  /\ call' = [call EXCEPT ![h] = c]
  /\ UNCHANGED <<clock, Store, History>>

(***************************************************************************)
(* Sessions: issue writes at once, renew and revoke read the record first. *)
(***************************************************************************)
Issue(h, s, ttl) ==
  /\ Idle(h)
  /\ Become(h, [NoCall EXCEPT !.op = "issue", !.step = "put", !.sid = s,
                              !.session = IssueSession(ttl, clock)])

Renew(h, s, ttl) ==
  /\ Idle(h)
  /\ sessions[s].status # "absent"
  /\ Become(h, [NoCall EXCEPT !.op = "renew", !.step = "put", !.sid = s,
                              !.session = RenewSession(sessions[s], ttl, clock)])

\* Mutant: session_not_found is not tested.
RevokeUnissued(h, s) ==
  /\ Idle(h)
  /\ Become(h, [NoCall EXCEPT !.op = "revokeSession", !.step = "put", !.sid = s,
                              !.session = RevokeSession(sessions[s])])

Revoke(h, s) ==
  /\ Idle(h)
  /\ sessions[s].status # "absent"
  /\ Become(h, [NoCall EXCEPT !.op = "revokeSession", !.step = "put", !.sid = s,
                              !.session = RevokeSession(sessions[s])])

PutSession(h) ==
  LET s == call[h].sid
      until == call[h].session.expiresAt
  IN /\ call[h].step = "put"
     /\ call[h].op \in {"issue", "renew", "revokeSession"}
     /\ sessions' = [sessions EXCEPT ![s] = call[h].session]
     /\ longestUntil' =
          [longestUntil EXCEPT ![s] = IF until > @ THEN until ELSE @]
     /\ call' = [call EXCEPT ![h] = NoCall]
     /\ UNCHANGED <<clock, leases, unseen>>

(***************************************************************************)
(* Acquiring a lease: the session and the lease list are read by one       *)
(* Promise.all, in either order; the checks run when both have answered,   *)
(* and the new record is written by a further store call.                  *)
(***************************************************************************)
BeginAcquire(h, s, l, r, ttl) ==
  /\ Idle(h)
  /\ Become(h, [NoCall EXCEPT !.op = "acquire", !.step = "read", !.sid = s,
                              !.lid = l, !.scope = r, !.ttl = ttl])

ReadsForAcquire(h) == call[h].op = "acquire" /\ call[h].step = "read"

ReadSession(h) ==
  /\ ReadsForAcquire(h)
  /\ ~call[h].asked
  /\ Become(h, [call[h] EXCEPT !.asked = TRUE, !.session = sessions[call[h].sid]])

\* Mutant: only the lease scanned last is remembered.
ScanForgets(h, x) ==
  /\ ReadsForAcquire(h)
  /\ x \notin call[h].scanned
  /\ Become(h, [call[h] EXCEPT
                  !.scanned = @ \cup {x},
                  !.conflict = HoldsResource(leases[x], call[h].scope)])

ScanLease(h, x) ==
  /\ ReadsForAcquire(h)
  /\ x \notin call[h].scanned
  /\ \/ Become(h, [call[h] EXCEPT
                     !.scanned = @ \cup {x},
                     !.conflict = @ \/ HoldsResource(leases[x], call[h].scope)])
     \/ /\ ListFaults
        /\ Become(h, [call[h] EXCEPT !.scanned = @ \cup {x},
                                     !.blind = @ \cup {x}])

DecideAcquire(h) ==
  /\ ReadsForAcquire(h)
  /\ call[h].asked
  /\ call[h].scanned = LeaseId
  /\ IF IsSessionUsable(call[h].session, clock) /\ ~call[h].conflict
     THEN Become(h, [call[h] EXCEPT
                       !.step = "put",
                       !.lease = AcquireLease(call[h].sid, call[h].scope,
                                              call[h].ttl, clock)])
     ELSE Become(h, NoCall)

PutAcquired(h) ==
  LET l == call[h].lid IN
  /\ call[h].op = "acquire"
  /\ call[h].step = "put"
  /\ leases' = [leases EXCEPT ![l] = call[h].lease]
  /\ unseen' = [x \in LeaseId |-> IF x = l THEN call[h].blind
                                  ELSE unseen[x] \ {l}]
  /\ call' = [g \in Handler |->
                IF g = h THEN NoCall
                ELSE IF call[g].op = "acquire" /\ l \in call[g].scanned
                     THEN [call[g] EXCEPT !.blind = @ \cup {l}]
                     ELSE call[g]]
  /\ UNCHANGED <<clock, sessions, longestUntil>>

(***************************************************************************)
(* Release and revoke of a lease: read the record, write it back ended.    *)
(***************************************************************************)
ReadToEnd(h, l, op) ==
  /\ Idle(h)
  /\ leases[l].status # "absent"
  /\ Become(h, [NoCall EXCEPT !.op = op, !.step = "put", !.lid = l,
                  !.lease = IF op = "release" THEN ReleaseLease(leases[l])
                                              ELSE RevokeLease(leases[l])])

PutEnded(h) ==
  /\ call[h].op \in {"release", "revokeLease"}
  /\ call[h].step = "put"
  /\ leases' = [leases EXCEPT ![call[h].lid] = call[h].lease]
  /\ unseen' = [unseen EXCEPT ![call[h].lid] = {}]
  /\ call' = [call EXCEPT ![h] = NoCall]
  /\ UNCHANGED <<clock, sessions, longestUntil>>

\* A store call throws (github_write_failed, a lost compare-and-swap, ...).
Abort(h) ==
  /\ ~Idle(h)
  /\ Become(h, NoCall)

Next ==
  \/ Tick
  \/ \E h \in Handler :
       \/ \E s \in SessionId, ttl \in Ttl : Issue(h, s, ttl) \/ Renew(h, s, ttl)
       \/ \E s \in SessionId : Revoke(h, s)
       \/ PutSession(h)
       \/ \E s \in SessionId, l \in LeaseId, r \in Scope, ttl \in Ttl :
            BeginAcquire(h, s, l, r, ttl)
       \/ ReadSession(h)
       \/ \E x \in LeaseId : ScanLease(h, x)
       \/ DecideAcquire(h)
       \/ PutAcquired(h)
       \/ \E l \in LeaseId, op \in {"release", "revokeLease"} : ReadToEnd(h, l, op)
       \/ PutEnded(h)
       \/ Abort(h)

Spec == Init /\ [][Next]_vars
-----------------------------------------------------------------------------
TypeOK ==
  /\ clock \in 0..MaxTime
  /\ sessions \in [SessionId -> Session]
  /\ leases \in [LeaseId -> Lease]
  /\ call \in [Handler -> Call]
  /\ unseen \in [LeaseId -> SUBSET LeaseId]
  /\ longestUntil \in [SessionId -> Nat]

\* docs/derived/05_state_format.md:121 says that only one session can hold an
\* active lease on a resource.  lease-lifecycle.service.ts:22-45 checks and then
\* acts; what its check does guarantee is that when two leases hold one resource,
\* one of the two grants was decided without seeing the other, because the calls
\* overlapped or because a read failed.
DoubleGrantOnlyUnseen ==
  \A l, x \in LeaseId :
    /\ l # x
    /\ leases[l].status = "active"
    /\ leases[x].status = "active"
    /\ SameResourceScope(leases[l].scope, leases[x].scope)
    => x \in unseen[l] \/ l \in unseen[x]

\* A lease is only ever granted to a session while it had been given time to
\* live: isSessionUsable (lease-lifecycle.service.ts:27) is decided on the clock
\* of the decision, whatever renewals and revocations land in between.
GrantWithinSessionLifetime ==
  \A l \in LeaseId :
    leases[l].status # "absent" =>
      leases[l].createdAt < longestUntil[leases[l].session]

\* What every reader of the records may rely on, the abstract specification
\* LeaseStore: however the handlers interleave and whatever stale copies they
\* write back, each write leaves a record that was granted at some past moment
\* for a time a client asked for, and nothing ends that was never granted.
ImplementsLeaseStore == LS!StoreSpec
=============================================================================
