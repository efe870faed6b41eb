------------------------------ MODULE LeaseStore ------------------------------
(***************************************************************************)
(* What the readers of the session and lease records may see: the abstract *)
(* specification that SessionLease implements, and the environment of the  *)
(* command services, which read these records and never write them.        *)
(*                                                                         *)
(* A record changes by one write at a time.  A write that makes a record   *)
(* active was computed at some earlier moment `at` from a time-to-live; a  *)
(* write that ends one may carry the fields of an earlier version, because *)
(* the services write back the copy they read.                             *)
(***************************************************************************)
EXTENDS ControlPolicy

CONSTANTS
  Ttl,          \* time-to-live values a client may ask for
  MaxTime       \* bound on the clock

ASSUME LeaseStoreAssumption ==
  /\ Ttl \subseteq Nat
  /\ Ttl # {}
  /\ MaxTime \in Nat

VARIABLES
  clock,        \* new Date()
  sessions,     \* SessionId -> Session
  leases        \* LeaseId -> Lease

storeVars == <<clock, sessions, leases>>

StoreInit ==
  /\ clock = 0
  /\ sessions = [s \in SessionId |-> NoSession]
  /\ leases = [l \in LeaseId |-> NoLease]

Tick ==
  /\ clock < MaxTime
  /\ clock' = clock + 1
  /\ UNCHANGED <<sessions, leases>>

\* The write of issue or renew.
ActivateSession(s) ==
  /\ \E at \in 0..clock, ttl \in Ttl :
       sessions' = [sessions EXCEPT ![s] = IssueSession(ttl, at)]
  /\ UNCHANGED <<clock, leases>>

\* The write of revoke; only a session that was issued can be revoked.
EndSession(s) ==
  /\ sessions[s].status # "absent"
  /\ \E at \in 0..clock, ttl \in Ttl :
       sessions' = [sessions EXCEPT ![s] = RevokeSession(IssueSession(ttl, at))]
  /\ UNCHANGED <<clock, leases>>

\* The write of acquire.  Nothing is said of the other leases: overlapping
\* acquisitions may both land.
GrantLease(l) ==
  /\ \E s \in SessionId, r \in Scope, at \in 0..clock, ttl \in Ttl :
       leases' = [leases EXCEPT ![l] = AcquireLease(s, r, ttl, at)]
  /\ UNCHANGED <<clock, sessions>>

\* The write of release or revoke; only a lease that was granted can end.
EndLease(l) ==
  /\ leases[l].status # "absent"
  /\ \E s \in SessionId, r \in Scope, at \in 0..clock, ttl \in Ttl :
       LET copy == AcquireLease(s, r, ttl, at) IN
       \/ leases' = [leases EXCEPT ![l] = ReleaseLease(copy)]
       \/ leases' = [leases EXCEPT ![l] = RevokeLease(copy)]
  /\ UNCHANGED <<clock, sessions>>

StoreNext ==
  \/ Tick
  \/ \E s \in SessionId : ActivateSession(s) \/ EndSession(s)
  \/ \E l \in LeaseId : GrantLease(l) \/ EndLease(l)

StoreSpec == StoreInit /\ [][StoreNext]_storeVars
=============================================================================
