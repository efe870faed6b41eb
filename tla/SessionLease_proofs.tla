------------------------- MODULE SessionLease_proofs -------------------------
(***************************************************************************)
(* Proofs about SessionLease, for any number of handlers, sessions, leases *)
(* and scopes.  The inductive invariant IInv says what every call in       *)
(* progress knows of the records; most steps only move one call on, which  *)
(* BecomeKeeps covers once and for all.                                    *)
(***************************************************************************)
EXTENDS SessionLease, TLAPS

\* A lease record computed at some past moment from a time-to-live.
Dated(lease) ==
  /\ lease.createdAt <= clock
  /\ \E ttl \in Ttl : lease.expiresAt = lease.createdAt + ttl

Lived(lease) == lease.createdAt < longestUntil[lease.session]

SessionDated(session) ==
  \E at \in 0..clock, ttl \in Ttl : session.expiresAt = at + ttl

\* What the records of the store say of the past.
StoreInv ==
  /\ \A s \in SessionId :
       /\ sessions[s].expiresAt <= longestUntil[s]
       /\ sessions[s].status # "absent" => SessionDated(sessions[s])
  /\ \A l \in LeaseId :
       leases[l].status # "absent" => Dated(leases[l]) /\ Lived(leases[l])

\* A lease that was scanned and found free is free still, or is in blind.
Overlooked(c, x) == HoldsResource(leases[x], c.scope) => x \in c.blind

ReadInv(c) ==
  c.op = "acquire" /\ c.step = "read" =>
    /\ c.asked => c.session.expiresAt <= longestUntil[c.sid]
    /\ ~c.conflict => \A x \in c.scanned : Overlooked(c, x)

PutInv(c) ==
  c.op = "acquire" /\ c.step = "put" =>
    /\ c.lease.status = "active"
    /\ c.lease.scope = c.scope
    /\ Dated(c.lease)
    /\ Lived(c.lease)
    /\ c.scanned = LeaseId
    /\ \A x \in LeaseId : Overlooked(c, x)

EndInv(c) ==
  c.op \in {"release", "revokeLease"} /\ c.step = "put" =>
    /\ c.lease.status \in {"released", "revoked"}
    /\ Dated(c.lease)
    /\ Lived(c.lease)
    /\ leases[c.lid].status # "absent"

SessionInv(c) ==
  c.op \in {"issue", "renew", "revokeSession"} /\ c.step = "put" =>
    /\ SessionDated(c.session)
    /\ \/ c.session.status = "active"
       \/ c.session.status = "revoked" /\ sessions[c.sid].status # "absent"

CallInv(c) == ReadInv(c) /\ PutInv(c) /\ EndInv(c) /\ SessionInv(c)

IInv ==
  /\ TypeOK
  /\ StoreInv
  /\ \A h \in Handler : CallInv(call[h])
  /\ DoubleGrantOnlyUnseen
-----------------------------------------------------------------------------
(***************************************************************************)
(* The records the policies compute are of their types.                    *)
(***************************************************************************)
\* The default values, chosen from the parameters, are legal ones.
LEMMA Defaults ==
  /\ NoSession \in Session
  /\ NoLease \in Lease
  /\ NoCall \in Call
<1>1. /\ (CHOOSE s \in SessionId : TRUE) \in SessionId
      /\ (CHOOSE l \in LeaseId : TRUE) \in LeaseId
      /\ (CHOOSE r \in Scope : TRUE) \in Scope
      /\ (CHOOSE t \in Ttl : TRUE) \in Ttl
  BY PolicyAssumption, SessionLeaseAssumption
<1>2. NoSession \in Session
  BY DEF NoSession, Session
<1>3. NoLease \in Lease
  BY <1>1 DEF NoLease, Lease
<1> QED
  BY <1>1, <1>2, <1>3 DEF NoCall, Call

\* The session policies of session.policy.ts:10-38 keep the type, and date
\* their result at the moment they run.
LEMMA SessionPolicies ==
  ASSUME TypeOK, NEW s \in SessionId, NEW ttl \in Ttl
  PROVE  /\ \A given \in {IssueSession(ttl, clock), RenewSession(sessions[s], ttl, clock)} :
              /\ given \in Session
              /\ given.status = "active"
              /\ SessionDated(given)
         /\ RevokeSession(sessions[s]) \in Session
         /\ RevokeSession(sessions[s]).status = "revoked"
         /\ RevokeSession(sessions[s]).expiresAt = sessions[s].expiresAt
<1>1. clock \in Nat /\ ttl \in Nat /\ clock \in 0..clock
  BY SessionLeaseAssumption DEF TypeOK
<1>2. sessions[s] \in Session
  BY DEF TypeOK
<1>3. ASSUME NEW given \in {IssueSession(ttl, clock), RenewSession(sessions[s], ttl, clock)}
      PROVE  /\ given \in Session
             /\ given.status = "active"
             /\ given.expiresAt = clock + ttl
  <2>1. CASE given = IssueSession(ttl, clock)
    BY <1>1, <2>1 DEF IssueSession, Session
  <2>2. CASE given = RenewSession(sessions[s], ttl, clock)
    <3> DEFINE active == [sessions[s] EXCEPT !.status = "active"]
    <3>1. active \in Session /\ active.status = "active"
      BY <1>2 DEF Session
    <3>2. given = [active EXCEPT !.expiresAt = clock + ttl]
      BY <2>2 DEF RenewSession
    <3> HIDE DEF active
    <3> QED
      BY <1>1, <3>1, <3>2 DEF Session
  <2> QED
    BY <2>1, <2>2
<1>4. ASSUME NEW given \in {IssueSession(ttl, clock), RenewSession(sessions[s], ttl, clock)}
      PROVE  SessionDated(given)
  BY <1>1, <1>3 DEF SessionDated
<1> QED
  BY <1>2, <1>3, <1>4 DEF RevokeSession, Session

\* So do the lease policies of session.policy.ts:40-65.
LEMMA LeasePolicies ==
  ASSUME TypeOK, NEW s \in SessionId, NEW l \in LeaseId, NEW r \in Scope,
         NEW ttl \in Ttl
  PROVE  /\ AcquireLease(s, r, ttl, clock) \in Lease
         /\ Dated(AcquireLease(s, r, ttl, clock))
         /\ \A ended \in {ReleaseLease(leases[l]), RevokeLease(leases[l])} :
              /\ ended \in Lease
              /\ ended.status \in {"released", "revoked"}
              /\ ended.session = leases[l].session
              /\ ended.createdAt = leases[l].createdAt
              /\ ended.expiresAt = leases[l].expiresAt
<1> USE SessionLeaseAssumption DEF TypeOK
<1>1. clock \in Nat /\ ttl \in Nat
  OBVIOUS
<1>2. leases[l] \in Lease
  OBVIOUS
<1>3. AcquireLease(s, r, ttl, clock) \in Lease
  BY <1>1 DEF AcquireLease, Lease
<1>4. Dated(AcquireLease(s, r, ttl, clock))
  BY <1>1 DEF AcquireLease, Dated
<1> QED
  BY <1>2, <1>3, <1>4 DEF ReleaseLease, RevokeLease, Lease
-----------------------------------------------------------------------------
\* A step that only moves one call on keeps the invariant, when the call it
\* becomes is legal.
LEMMA BecomeKeeps ==
  ASSUME IInv, NEW h \in Handler, NEW c \in Call, CallInv(c), Become(h, c)
  PROVE  IInv'
<1> USE DEF IInv, Become, Store, History
<1>1. TypeOK'
  BY DEF TypeOK
<1>2. StoreInv'
  BY DEF StoreInv, SessionDated, Dated, Lived
<1>3. ASSUME NEW g \in Handler PROVE CallInv(call[g])'
  <2>1. call'[g] = IF g = h THEN c ELSE call[g]
    BY DEF TypeOK
  <2>2. CallInv(IF g = h THEN c ELSE call[g])
    OBVIOUS
  <2> QED
    BY <2>1, <2>2 DEF CallInv, ReadInv, PutInv, EndInv, SessionInv, Overlooked,
                      HoldsResource, Dated, Lived, SessionDated
<1> QED
  BY <1>1, <1>2, <1>3 DEF DoubleGrantOnlyUnseen

\* Every step of a call that writes nothing is of that kind.
LEMMA CallSteps ==
  ASSUME IInv, NEW h \in Handler,
         \/ \E s \in SessionId, ttl \in Ttl : Issue(h, s, ttl) \/ Renew(h, s, ttl)
         \/ \E s \in SessionId : Revoke(h, s)
         \/ \E s \in SessionId, l \in LeaseId, r \in Scope, ttl \in Ttl :
              BeginAcquire(h, s, l, r, ttl)
         \/ ReadSession(h)
         \/ \E x \in LeaseId : ScanLease(h, x)
         \/ DecideAcquire(h)
         \/ \E l \in LeaseId, op \in {"release", "revokeLease"} : ReadToEnd(h, l, op)
         \/ Abort(h)
  PROVE  IInv'
<1> DEFINE Legal(c) == c \in Call /\ CallInv(c)
<1> USE DEF IInv
<1>1. SUFFICES \E c : Legal(c) /\ Become(h, c)
  BY BecomeKeeps
<1>2. TypeOK /\ call[h] \in Call /\ CallInv(call[h])
  BY DEF TypeOK
<1>3. Legal(NoCall)
  BY Defaults DEF NoCall, CallInv, ReadInv, PutInv, EndInv, SessionInv
<1>4. CASE \E s \in SessionId, ttl \in Ttl : Issue(h, s, ttl) \/ Renew(h, s, ttl)
  <2>1. PICK s \in SessionId, ttl \in Ttl : Issue(h, s, ttl) \/ Renew(h, s, ttl)
    BY <1>4
  <2>2. PICK op \in {"issue", "renew"},
             given \in {IssueSession(ttl, clock), RenewSession(sessions[s], ttl, clock)} :
          Become(h, [NoCall EXCEPT !.op = op, !.step = "put", !.sid = s,
                                   !.session = given])
    BY <2>1 DEF Issue, Renew
  <2>3. given \in Session /\ given.status = "active" /\ SessionDated(given)
    BY <1>2, SessionPolicies
  <2> DEFINE c == [NoCall EXCEPT !.op = op, !.step = "put", !.sid = s, !.session = given]
  <2>4. c \in Call
    BY <2>3, Defaults DEF Call, Op
  <2>5. c.op = op /\ c.session = given
    BY Defaults DEF Call
  <2>6. CallInv(c)
    BY <2>3, <2>5 DEF CallInv, ReadInv, PutInv, EndInv, SessionInv
  <2> QED
    BY <2>2, <2>4, <2>6
<1>5. CASE \E s \in SessionId : Revoke(h, s)
  <2>1. PICK s \in SessionId : Revoke(h, s)
    BY <1>5
  <2> DEFINE c == [NoCall EXCEPT !.op = "revokeSession", !.step = "put", !.sid = s,
                                 !.session = RevokeSession(sessions[s])]
  <2>2. SessionDated(sessions[s]) /\ sessions[s].status # "absent"
    BY <2>1 DEF Revoke, StoreInv
  <2>3. PICK ttl \in Ttl : TRUE
    BY SessionLeaseAssumption
  <2>4. /\ RevokeSession(sessions[s]) \in Session
        /\ RevokeSession(sessions[s]).status = "revoked"
        /\ SessionDated(RevokeSession(sessions[s]))
    BY <1>2, <2>2, <2>3, SessionPolicies DEF SessionDated
  <2>5. c \in Call
    BY <2>4, Defaults DEF Call, Op
  <2>6. c.op = "revokeSession" /\ c.sid = s /\ c.session = RevokeSession(sessions[s])
    BY Defaults DEF Call
  <2>7. CallInv(c)
    BY <2>2, <2>4, <2>6 DEF CallInv, ReadInv, PutInv, EndInv, SessionInv
  <2> QED
    BY <2>1, <2>5, <2>7 DEF Revoke
<1>6. CASE \E s \in SessionId, l \in LeaseId, r \in Scope, ttl \in Ttl :
             BeginAcquire(h, s, l, r, ttl)
  <2>1. PICK s \in SessionId, l \in LeaseId, r \in Scope, ttl \in Ttl :
          BeginAcquire(h, s, l, r, ttl)
    BY <1>6
  <2>2. Legal([NoCall EXCEPT !.op = "acquire", !.step = "read", !.sid = s,
                             !.lid = l, !.scope = r, !.ttl = ttl])
    BY Defaults DEF NoCall, Call, Op, CallInv, ReadInv, PutInv, EndInv, SessionInv
  <2> QED
    BY <2>1, <2>2 DEF BeginAcquire
<1>7. CASE ReadSession(h)
  <2>1. Legal([call[h] EXCEPT !.asked = TRUE, !.session = sessions[call[h].sid]])
    BY <1>2, <1>7 DEF ReadSession, ReadsForAcquire, Call, TypeOK, StoreInv, CallInv,
                      ReadInv, PutInv, EndInv, SessionInv, Overlooked
  <2> QED
    BY <1>7, <2>1 DEF ReadSession
<1>8. CASE \E x \in LeaseId : ScanLease(h, x)
  <2>1. PICK x \in LeaseId : ScanLease(h, x)
    BY <1>8
  <2>2. Legal([call[h] EXCEPT !.scanned = @ \cup {x},
                 !.conflict = @ \/ HoldsResource(leases[x], call[h].scope)])
    BY <1>2, <2>1 DEF ScanLease, ReadsForAcquire, Call, CallInv, ReadInv, PutInv,
                      EndInv, SessionInv, Overlooked, HoldsResource
  <2>3. Legal([call[h] EXCEPT !.scanned = @ \cup {x}, !.blind = @ \cup {x}])
    BY <1>2, <2>1 DEF ScanLease, ReadsForAcquire, Call, CallInv, ReadInv, PutInv,
                      EndInv, SessionInv, Overlooked
  <2> QED
    BY <2>1, <2>2, <2>3 DEF ScanLease
<1>9. CASE DecideAcquire(h)
  <2> DEFINE granted == [call[h] EXCEPT
                           !.step = "put",
                           !.lease = AcquireLease(call[h].sid, call[h].scope,
                                                  call[h].ttl, clock)]
  <2>1. CASE Become(h, NoCall)
    BY <1>3, <2>1
  <2>2. CASE /\ IsSessionUsable(call[h].session, clock)
             /\ ~call[h].conflict
             /\ Become(h, granted)
    <3>1. /\ call[h].op = "acquire"
          /\ call[h].step = "read"
          /\ call[h].asked
          /\ call[h].scanned = LeaseId
      BY <1>9 DEF DecideAcquire, ReadsForAcquire
    <3>2. /\ call[h].sid \in SessionId
          /\ call[h].scope \in Scope
          /\ call[h].ttl \in Ttl
          /\ call[h].session.expiresAt \in Nat
          /\ call[h].lid \in LeaseId
      BY <1>2 DEF Call, Session
    <3>3. granted \in Call
      BY <1>2, <3>2, LeasePolicies DEF Call
    <3>4. /\ granted.op = "acquire"
          /\ granted.step = "put"
          /\ granted.lease = AcquireLease(call[h].sid, call[h].scope, call[h].ttl, clock)
          /\ granted.scope = call[h].scope
          /\ granted.blind = call[h].blind
          /\ granted.scanned = LeaseId
      BY <1>2, <3>1 DEF Call
    <3>5. Dated(granted.lease)
      BY <1>2, <3>2, <3>4, LeasePolicies
    <3>6. Lived(granted.lease)
      BY <1>2, <2>2, <3>1, <3>2, <3>4
         DEF Lived, AcquireLease, CallInv, ReadInv, IsSessionUsable, TypeOK
    <3>7. \A x \in LeaseId : Overlooked(granted, x)
      BY <1>2, <2>2, <3>1, <3>4 DEF CallInv, ReadInv, Overlooked
    <3>8. PutInv(granted)
      BY <3>4, <3>5, <3>6, <3>7 DEF PutInv, AcquireLease
    <3> QED
      BY <2>2, <3>3, <3>4, <3>8 DEF CallInv, ReadInv, EndInv, SessionInv
  <2> QED
    BY <1>9, <2>1, <2>2 DEF DecideAcquire
<1>10. CASE \E l \in LeaseId, op \in {"release", "revokeLease"} : ReadToEnd(h, l, op)
  <2>1. PICK l \in LeaseId, op \in {"release", "revokeLease"} : ReadToEnd(h, l, op)
    BY <1>10
  <2>2. PICK ended \in {ReleaseLease(leases[l]), RevokeLease(leases[l])} :
          Become(h, [NoCall EXCEPT !.op = op, !.step = "put", !.lid = l, !.lease = ended])
    BY <2>1 DEF ReadToEnd
  <2>3. /\ leases[l].status # "absent"
        /\ Dated(leases[l])
        /\ Lived(leases[l])
    BY <2>1 DEF ReadToEnd, StoreInv
  <2>4. PICK s \in SessionId, r \in Scope, ttl \in Ttl : TRUE
    BY PolicyAssumption, SessionLeaseAssumption
  <2>5. /\ ended \in Lease
        /\ ended.status \in {"released", "revoked"}
        /\ Dated(ended)
        /\ Lived(ended)
    BY <1>2, <2>3, <2>4, LeasePolicies DEF Dated, Lived
  <2>6. Legal([NoCall EXCEPT !.op = op, !.step = "put", !.lid = l, !.lease = ended])
    BY <2>3, <2>5, Defaults
       DEF NoCall, Call, Op, CallInv, ReadInv, PutInv, EndInv, SessionInv
  <2> QED
    BY <2>2, <2>6
<1>11. CASE Abort(h)
  BY <1>3, <1>11 DEF Abort
<1> QED
  BY <1>4, <1>5, <1>6, <1>7, <1>8, <1>9, <1>10, <1>11
-----------------------------------------------------------------------------
\* The write of issue, renew and revoke (session-lifecycle.service.ts).
LEMMA PutSessionKeeps ==
  ASSUME IInv, NEW h \in Handler, PutSession(h)
  PROVE  IInv'
<1> DEFINE s == call[h].sid
           new == call[h].session
<1> USE DEF IInv
<1>1. /\ s \in SessionId
      /\ new \in Session
      /\ SessionDated(new)
      /\ new.status # "absent"
      /\ sessions' = [sessions EXCEPT ![s] = new]
      /\ longestUntil' = [longestUntil EXCEPT ![s] =
                            IF new.expiresAt > @ THEN new.expiresAt ELSE @]
      /\ call' = [call EXCEPT ![h] = NoCall]
      /\ UNCHANGED <<clock, leases, unseen>>
  BY DEF PutSession, TypeOK, Call, CallInv, SessionInv
<1> HIDE DEF s, new
<1>2. TypeOK'
  BY <1>1, Defaults DEF TypeOK, Session
<1>3. \A x \in SessionId : longestUntil[x] \in Nat /\ longestUntil'[x] \in Nat
                           /\ longestUntil[x] <= longestUntil'[x]
  BY <1>1, <1>2 DEF TypeOK, Session
<1>4. ASSUME NEW x \in SessionId
      PROVE  /\ sessions'[x].expiresAt <= longestUntil'[x]
             /\ sessions'[x].status # "absent" => SessionDated(sessions[x])'
  BY <1>1, <1>2, <1>3 DEF TypeOK, StoreInv, SessionDated, Session
<1>5. ASSUME NEW x \in Lease, Dated(x), Lived(x)
      PROVE  Dated(x)' /\ Lived(x)'
  BY <1>1, <1>3, <1>5 DEF Dated, Lived, Lease, TypeOK
<1>6. StoreInv'
  BY <1>1, <1>4, <1>5 DEF StoreInv, TypeOK
<1>7. ASSUME NEW g \in Handler
      PROVE  CallInv(call[g])'
  <2>1. CASE g = h
    BY <1>1, <2>1 DEF TypeOK, NoCall, CallInv, ReadInv, PutInv, EndInv, SessionInv
  <2>2. CASE g # h
    <3>1. call'[g] = call[g] /\ call[g] \in Call /\ CallInv(call[g])
      BY <1>1, <2>2 DEF TypeOK
    <3>2. sessions[call[g].sid].status # "absent" => sessions'[call[g].sid].status # "absent"
      BY <1>1, <3>1 DEF TypeOK, Call
    <3>3. ReadInv(call[g])'
      BY <1>1, <1>3, <3>1 DEF CallInv, ReadInv, Overlooked, HoldsResource, Call, Session
    <3>4. PutInv(call[g])' /\ EndInv(call[g])'
      BY <1>1, <1>5, <3>1 DEF CallInv, PutInv, EndInv, Overlooked, HoldsResource, Call
    <3>5. SessionInv(call[g])'
      BY <1>1, <3>1, <3>2 DEF CallInv, SessionInv, SessionDated
    <3> QED
      BY <3>3, <3>4, <3>5 DEF CallInv
  <2> QED
    BY <2>1, <2>2
<1>8. DoubleGrantOnlyUnseen'
  BY <1>1 DEF DoubleGrantOnlyUnseen
<1> QED
  BY <1>2, <1>6, <1>7, <1>8

\* The write of acquire (lease-lifecycle.service.ts:45): calls that scanned the
\* lease before note that they did not see this grant.
LEMMA PutAcquiredKeeps ==
  ASSUME IInv, NEW h \in Handler, PutAcquired(h)
  PROVE  IInv'
<1> DEFINE l == call[h].lid
           new == call[h].lease
           missed == call[h].blind
<1> USE DEF IInv
<1>1. /\ l \in LeaseId
      /\ new \in Lease
      /\ missed \in SUBSET LeaseId
      /\ new.status = "active"
      /\ new.scope = call[h].scope
      /\ Dated(new)
      /\ Lived(new)
      /\ \A x \in LeaseId : Overlooked(call[h], x)
      /\ leases' = [leases EXCEPT ![l] = new]
      /\ unseen' = [x \in LeaseId |-> IF x = l THEN missed ELSE unseen[x] \ {l}]
      /\ UNCHANGED <<clock, sessions, longestUntil>>
  BY DEF PutAcquired, TypeOK, Call, CallInv, PutInv
<1> DEFINE Scanned(g) == call[g].op = "acquire" /\ l \in call[g].scanned
           Noted(g) == [call[g] EXCEPT !.blind = @ \cup {l}]
<1>2. /\ call'[h] = NoCall
      /\ \A g \in Handler \ {h} :
           call'[g] = IF Scanned(g) THEN Noted(g) ELSE call[g]
  BY DEF PutAcquired
<1>3. DOMAIN call' = Handler /\ call' = [g \in Handler |-> call'[g]]
  BY DEF PutAcquired
<1> HIDE DEF l, new, missed
<1>4. ASSUME NEW g \in Handler
      PROVE  call'[g] \in Call
  <2>1. call[g] \in Call /\ Noted(g) \in Call
    BY <1>1 DEF TypeOK, Call
  <2> HIDE DEF Noted
  <2> QED
    BY <1>2, <2>1, Defaults
<1>5. TypeOK'
  BY <1>1, <1>3, <1>4 DEF TypeOK
<1>6. StoreInv'
  BY <1>1 DEF StoreInv, TypeOK, Dated, Lived, SessionDated
<1>7. ASSUME NEW g \in Handler
      PROVE  CallInv(call[g])'
  <2>1. CASE g = h
    <3>1. call'[g] = NoCall /\ NoCall.op = "none"
      BY <1>2, <2>1 DEF NoCall
    <3> QED
      BY <3>1 DEF CallInv, ReadInv, PutInv, EndInv, SessionInv
  <2>2. CASE g # h
    <3>0. PICK c, d : c = call[g] /\ d = call'[g]
      OBVIOUS
    <3>1. /\ c \in Call
          /\ CallInv(c)
          /\ d.op = c.op /\ d.step = c.step /\ d.sid = c.sid /\ d.lid = c.lid
          /\ d.scope = c.scope /\ d.asked = c.asked /\ d.session = c.session
          /\ d.lease = c.lease /\ d.scanned = c.scanned /\ d.conflict = c.conflict
          /\ c.blind \subseteq d.blind
          /\ c.op = "acquire" /\ l \in c.scanned => l \in d.blind
      BY <1>2, <2>2, <3>0 DEF TypeOK, Call
    <3>2. leases[c.lid].status # "absent" => leases'[c.lid].status # "absent"
      BY <1>1, <3>1 DEF TypeOK, Call
    <3>3. ASSUME NEW x \in LeaseId, x # l
          PROVE  HoldsResource(leases[x], c.scope)' => HoldsResource(leases[x], c.scope)
      BY <1>1, <3>1, <3>3 DEF TypeOK, HoldsResource, SameResourceScope
    <3>4. c.scanned \subseteq LeaseId
      BY <3>1 DEF Call
    <3>5. ReadInv(d)'
      BY <1>1, <3>1, <3>3, <3>4
         DEF CallInv, ReadInv, Overlooked, HoldsResource, SameResourceScope
    <3>6. PutInv(d)'
      BY <1>1, <3>1, <3>3
         DEF CallInv, PutInv, Overlooked, HoldsResource, SameResourceScope, Dated, Lived
    <3>7. EndInv(d)'
      BY <1>1, <3>1, <3>2 DEF CallInv, EndInv, Dated, Lived
    <3>8. SessionInv(d)'
      BY <1>1, <3>1 DEF CallInv, SessionInv, SessionDated
    <3> QED
      BY <3>0, <3>5, <3>6, <3>7, <3>8 DEF CallInv, ReadInv, PutInv, EndInv, SessionInv,
            Overlooked, HoldsResource, SameResourceScope, Dated, Lived, SessionDated
  <2> QED
    BY <2>1, <2>2
<1>8. DoubleGrantOnlyUnseen'
  <2> SUFFICES ASSUME NEW x \in LeaseId, NEW y \in LeaseId, x # y,
                      leases'[x].status = "active",
                      leases'[y].status = "active",
                      SameResourceScope(leases'[x].scope, leases'[y].scope)
               PROVE  y \in unseen'[x] \/ x \in unseen'[y]
    BY DEF DoubleGrantOnlyUnseen, SameResourceScope
  <2>1. CASE x = l
    <3>1. leases'[x] = new /\ leases'[y] = leases[y] /\ unseen'[x] = call[h].blind
      BY <1>1, <2>1 DEF TypeOK, missed
    <3> QED
      BY <1>1, <3>1 DEF Overlooked, HoldsResource, SameResourceScope
  <2>2. CASE y = l
    <3>1. leases'[y] = new /\ leases'[x] = leases[x] /\ unseen'[y] = call[h].blind
      BY <1>1, <2>2 DEF TypeOK, missed
    <3> QED
      BY <1>1, <3>1 DEF Overlooked, HoldsResource, SameResourceScope
  <2>3. CASE x # l /\ y # l
    BY <1>1, <2>3 DEF DoubleGrantOnlyUnseen, SameResourceScope, TypeOK
  <2> QED
    BY <2>1, <2>2, <2>3
<1> QED
  BY <1>5, <1>6, <1>7, <1>8

\* The write of release and revoke (lease-lifecycle.service.ts:60, 71).
LEMMA PutEndedKeeps ==
  ASSUME IInv, NEW h \in Handler, PutEnded(h)
  PROVE  IInv'
<1> DEFINE l == call[h].lid
           new == call[h].lease
<1> USE DEF IInv
<1>1. /\ l \in LeaseId
      /\ new \in Lease
      /\ new.status \in {"released", "revoked"}
      /\ Dated(new)
      /\ Lived(new)
      /\ leases' = [leases EXCEPT ![l] = new]
      /\ unseen' = [unseen EXCEPT ![l] = {}]
      /\ call' = [call EXCEPT ![h] = NoCall]
      /\ UNCHANGED <<clock, sessions, longestUntil>>
  BY DEF PutEnded, TypeOK, Call, CallInv, EndInv
<1> HIDE DEF l, new
<1>2. TypeOK'
  BY <1>1, Defaults DEF TypeOK
<1>3. StoreInv'
  BY <1>1 DEF StoreInv, TypeOK, Dated, Lived, SessionDated
<1>4. ASSUME NEW x \in LeaseId, NEW r \in Scope
      PROVE  HoldsResource(leases[x], r)' => HoldsResource(leases[x], r)
  BY <1>1 DEF TypeOK, HoldsResource, SameResourceScope
<1>5. ASSUME NEW g \in Handler
      PROVE  CallInv(call[g])'
  <2>1. CASE g = h
    BY <1>1, <2>1 DEF TypeOK, NoCall, CallInv, ReadInv, PutInv, EndInv, SessionInv
  <2>2. CASE g # h
    <3>1. call'[g] = call[g] /\ call[g] \in Call /\ CallInv(call[g])
      BY <1>1, <2>2 DEF TypeOK
    <3>2. leases[call[g].lid].status # "absent" => leases'[call[g].lid].status # "absent"
      BY <1>1, <3>1 DEF TypeOK, Call
    <3>3. ReadInv(call[g])' /\ PutInv(call[g])'
      BY <1>1, <1>4, <3>1
         DEF CallInv, ReadInv, PutInv, Overlooked, Call, Dated, Lived
    <3>4. EndInv(call[g])' /\ SessionInv(call[g])'
      BY <1>1, <3>1, <3>2 DEF CallInv, EndInv, SessionInv, Dated, Lived, SessionDated
    <3> QED
      BY <3>3, <3>4 DEF CallInv
  <2> QED
    BY <2>1, <2>2
<1>6. DoubleGrantOnlyUnseen'
  BY <1>1 DEF DoubleGrantOnlyUnseen, TypeOK
<1> QED
  BY <1>2, <1>3, <1>5, <1>6

LEMMA TickKeeps ==
  ASSUME IInv, Tick
  PROVE  IInv'
<1> USE SessionLeaseAssumption DEF IInv, Tick, Store, History
<1>1. TypeOK' /\ clock \in Nat /\ clock' = clock + 1
  BY DEF TypeOK
<1>2. \A x \in Lease : Dated(x) => Dated(x)'
  BY <1>1 DEF Dated, Lease
<1>3. \A x : SessionDated(x) => SessionDated(x)'
  BY <1>1 DEF SessionDated
<1>4. StoreInv'
  BY <1>1, <1>2, <1>3 DEF StoreInv, Lived, TypeOK
<1>5. ASSUME NEW g \in Handler
      PROVE  CallInv(call[g])'
  <2>1. call'[g] = call[g] /\ call[g] \in Call /\ CallInv(call[g]) /\ call[g].lease \in Lease
    BY DEF TypeOK, Call
  <2> QED
    BY <1>2, <1>3, <2>1 DEF CallInv, ReadInv, PutInv, EndInv, SessionInv, Lived,
                            Overlooked, HoldsResource
<1> QED
  BY <1>1, <1>4, <1>5 DEF DoubleGrantOnlyUnseen

LEMMA Invariance == Spec => []IInv
<1>1. Init => IInv
  <2> SUFFICES ASSUME Init PROVE IInv
    OBVIOUS
  <2>1. TypeOK
    BY Defaults, SessionLeaseAssumption DEF Init, TypeOK
  <2>2. StoreInv /\ DoubleGrantOnlyUnseen
    BY DEF Init, StoreInv, DoubleGrantOnlyUnseen, NoSession, NoLease
  <2>3. \A h \in Handler : CallInv(call[h])
    <3>1. NoCall.op = "none"
      BY DEF NoCall
    <3> QED
      BY <3>1 DEF Init, CallInv, ReadInv, PutInv, EndInv, SessionInv
  <2> QED
    BY <2>1, <2>2, <2>3 DEF IInv
<1>2. IInv /\ [Next]_vars => IInv'
  <2> SUFFICES ASSUME IInv, [Next]_vars PROVE IInv'
    OBVIOUS
  <2>1. CASE Next
    BY <2>1, CallSteps, PutSessionKeeps, PutAcquiredKeeps, PutEndedKeeps, TickKeeps
       DEF Next
  <2>2. CASE UNCHANGED vars
    BY <2>2 DEF vars, IInv, TypeOK, StoreInv, SessionDated, Dated, Lived, CallInv,
                ReadInv, PutInv, EndInv, SessionInv, Overlooked, HoldsResource,
                DoubleGrantOnlyUnseen
  <2> QED
    BY <2>1, <2>2
<1> QED
  BY <1>1, <1>2, PTL DEF Spec

\* Every record and every call keeps its type.
THEOREM TypeCorrect == Spec => []TypeOK
BY Invariance, PTL DEF IInv

\* Two grants of one resource only by overlapping calls or failed reads: the
\* check of lease-lifecycle.service.ts:31-38 for any number of handlers.
THEOREM DoubleGrants == Spec => []DoubleGrantOnlyUnseen
BY Invariance, PTL DEF IInv

\* No lease was ever granted past the life its session had been given.
THEOREM GrantsWithinLifetime == Spec => []GrantWithinSessionLifetime
<1>1. IInv => GrantWithinSessionLifetime
  BY DEF IInv, StoreInv, Lived, GrantWithinSessionLifetime
<1> QED
  BY <1>1, Invariance, PTL
-----------------------------------------------------------------------------
(***************************************************************************)
(* SessionLease implements LeaseStore: the writes are its steps, all else  *)
(* stutters.                                                               *)
(***************************************************************************)
LEMMA PutSessionImplements ==
  ASSUME IInv, NEW h \in Handler, PutSession(h)
  PROVE  LS!StoreNext
<1>1. PICK s, new : s = call[h].sid /\ new = call[h].session
  OBVIOUS
<1>2. /\ s \in SessionId
      /\ new \in Session
      /\ SessionDated(new)
      /\ \/ new.status = "active"
         \/ new.status = "revoked" /\ sessions[s].status # "absent"
      /\ sessions' = [sessions EXCEPT ![s] = new]
      /\ UNCHANGED <<clock, leases>>
  <2>1. call[h] \in Call /\ CallInv(call[h])
    BY DEF IInv, TypeOK
  <2>2. /\ s \in SessionId
        /\ new \in Session
        /\ sessions' = [sessions EXCEPT ![s] = new]
        /\ UNCHANGED <<clock, leases>>
    BY <1>1, <2>1 DEF PutSession, Call
  <2>3. /\ SessionDated(call[h].session)
        /\ \/ call[h].session.status = "active"
           \/ /\ call[h].session.status = "revoked"
              /\ sessions[call[h].sid].status # "absent"
    BY <2>1 DEF CallInv, SessionInv, PutSession
  <2> QED
    BY <1>1, <2>2, <2>3
<1>3. PICK at \in 0..clock, ttl \in Ttl : new.expiresAt = at + ttl
  BY <1>2 DEF SessionDated
<1>4. CASE new.status = "active"
  <2>1. new = LS!IssueSession(ttl, at)
    BY <1>2, <1>3, <1>4 DEF Session, LS!IssueSession
  <2> QED
    BY <1>2, <1>3, <2>1 DEF LS!StoreNext, LS!ActivateSession
<1>5. CASE new.status = "revoked" /\ sessions[s].status # "absent"
  <2>1. new = LS!RevokeSession(LS!IssueSession(ttl, at))
    BY <1>2, <1>3, <1>5 DEF Session, LS!IssueSession, LS!RevokeSession
  <2> QED
    BY <1>2, <1>3, <1>5, <2>1 DEF LS!StoreNext, LS!EndSession
<1> QED
  BY <1>2, <1>4, <1>5

LEMMA PutLeaseImplements ==
  ASSUME IInv, NEW h \in Handler, PutAcquired(h) \/ PutEnded(h)
  PROVE  LS!StoreNext
<1>1. PICK l, new : l = call[h].lid /\ new = call[h].lease
  OBVIOUS
<1>2. /\ l \in LeaseId
      /\ new \in Lease
      /\ Dated(new)
      /\ \/ new.status = "active"
         \/ new.status \in {"released", "revoked"} /\ leases[l].status # "absent"
      /\ leases' = [leases EXCEPT ![l] = new]
      /\ UNCHANGED <<clock, sessions>>
  <2>1. call[h] \in Call /\ CallInv(call[h])
    BY DEF IInv, TypeOK
  <2>2. CASE PutAcquired(h)
    BY <1>1, <2>1, <2>2 DEF PutAcquired, Call, CallInv, PutInv
  <2>3. CASE PutEnded(h)
    BY <1>1, <2>1, <2>3 DEF PutEnded, Call, CallInv, EndInv
  <2> QED
    BY <2>2, <2>3
<1>3. PICK s \in SessionId, r \in Scope, at \in 0..clock, ttl \in Ttl :
        /\ new.session = s
        /\ new.scope = r
        /\ new.createdAt = at
        /\ new.expiresAt = at + ttl
  BY <1>2 DEF Dated, Lease, IInv, TypeOK
<1> DEFINE copy == LS!AcquireLease(s, r, ttl, at)
<1>4. CASE new.status = "active"
  <2>1. new = copy
    BY <1>2, <1>3, <1>4 DEF Lease, LS!AcquireLease
  <2> QED
    BY <1>2, <1>3, <2>1 DEF LS!StoreNext, LS!GrantLease
<1>5. CASE new.status \in {"released", "revoked"} /\ leases[l].status # "absent"
  <2>1. new = LS!ReleaseLease(copy) \/ new = LS!RevokeLease(copy)
    BY <1>2, <1>3, <1>5 DEF Lease, LS!AcquireLease, LS!ReleaseLease, LS!RevokeLease
  <2>2. LS!EndLease(l)
    BY <1>2, <1>3, <1>5, <2>1 DEF LS!EndLease
  <2> QED
    BY <1>2, <2>2 DEF LS!StoreNext
<1> QED
  BY <1>2, <1>4, <1>5

\* The services, with their stale copies and overlapping calls, never show a
\* reader anything LeaseStore does not allow.
THEOREM Implementation == Spec => ImplementsLeaseStore
<1>1. Init => LS!StoreInit
  BY DEF Init, LS!StoreInit, NoSession, NoLease, LS!NoSession, LS!NoLease
<1>2. IInv /\ [Next]_vars => [LS!StoreNext]_(LS!storeVars)
  <2> SUFFICES ASSUME IInv, Next PROVE LS!StoreNext \/ UNCHANGED LS!storeVars
    BY DEF vars, LS!storeVars
  <2> USE DEF LS!storeVars
  <2>1. CASE Tick
    BY <2>1 DEF Tick, LS!StoreNext, LS!Tick, Store
  <2>2. CASE \E h \in Handler : PutSession(h)
    BY <2>2, PutSessionImplements
  <2>3. CASE \E h \in Handler : PutAcquired(h) \/ PutEnded(h)
    BY <2>3, PutLeaseImplements
  <2>4. CASE \E h \in Handler : \E c : Become(h, c)
    BY <2>4 DEF Become, Store
  <2> QED
    BY <2>1, <2>2, <2>3, <2>4
       DEF Next, Issue, Renew, Revoke, BeginAcquire, ReadSession, ScanLease,
           DecideAcquire, ReadToEnd, Abort
<1> QED
  BY <1>1, <1>2, Invariance, PTL DEF Spec, ImplementsLeaseStore, LS!StoreSpec
=============================================================================
