---------------------------- MODULE ControlPolicy ----------------------------
(***************************************************************************)
(* The pure policies of packages/domain: sessions, leases and resource     *)
(* scopes.  Nothing here has state; the modules with behaviour extend this *)
(* one.  Identifiers are elements of small sets, an ISO time stamp is a     *)
(* natural number, and a missing record is one with status "absent".       *)
(***************************************************************************)
EXTENDS Integers, FiniteSets

CONSTANTS
  SessionId,      \* session identifiers, chosen by the clients
  LeaseId,        \* lease identifiers, chosen by the clients
  Scope,          \* resource scopes as clients spell them (repo, branch, path)
  conflictKeyOf   \* Scope -> the trimmed, lower-cased key of the scope

ASSUME PolicyAssumption ==
  /\ SessionId # {}
  /\ LeaseId # {}
  /\ Scope # {}
  /\ DOMAIN conflictKeyOf = Scope

Session == [status : {"absent", "active", "revoked"}, expiresAt : Nat]

Lease == [status    : {"absent", "active", "released", "revoked"},
          session   : SessionId,
          scope     : Scope,
          createdAt : Nat,
          expiresAt : Nat]

NoSession == [status |-> "absent", expiresAt |-> 0]

NoLease == [status    |-> "absent",
            session   |-> CHOOSE s \in SessionId : TRUE,
            scope     |-> CHOOSE r \in Scope : TRUE,
            createdAt |-> 0,
            expiresAt |-> 0]

\* Two spellings name one resource when they normalise to one conflict key.
SameResourceScope(left, right) == conflictKeyOf[left] = conflictKeyOf[right]

IssueSession(ttl, now) == [status |-> "active", expiresAt |-> now + ttl]

\* Whatever the status was: renewing a revoked session makes it active.
RenewSession(session, ttl, now) ==
  [session EXCEPT !.status = "active", !.expiresAt = now + ttl]

RevokeSession(session) == [session EXCEPT !.status = "revoked"]

\* Mutant: the time-to-live is subtracted.
AcquireLeaseBackwards(sid, scope, ttl, now) ==
  [status |-> "active", session |-> sid, scope |-> scope,
   createdAt |-> now, expiresAt |-> now - ttl]

AcquireLease(sid, scope, ttl, now) ==
  [status |-> "active", session |-> sid, scope |-> scope,
   createdAt |-> now, expiresAt |-> now + ttl]

ReleaseLease(lease) == [lease EXCEPT !.status = "released"]

RevokeLease(lease) == [lease EXCEPT !.status = "revoked"]

\* Mutant: a session is usable at the moment it expires.
IsSessionUsableLate(session, now) ==
  session.status = "active" /\ session.expiresAt >= now

IsSessionUsable(session, now) ==
  session.status = "active" /\ session.expiresAt > now

IsLeaseUsable(lease, scope, now) ==
  /\ lease.status = "active"
  /\ lease.expiresAt > now
  /\ SameResourceScope(lease.scope, scope)

\* The lock test of lease acquisition and of the guardrail.  It looks at the
\* status only: a lease past its expiresAt still holds its resource.
HoldsResource(lease, scope) ==
  lease.status = "active" /\ SameResourceScope(lease.scope, scope)
=============================================================================
