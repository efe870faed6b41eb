---------------------------- MODULE McpBroker_proofs ----------------------------
(***************************************************************************)
(* The ids of a session's events follow one another, so what follows a     *)
(* cursor is an end of the history, and a reader that is sent it has been  *)
(* sent everything.  A subscribe writes an old copy of the session back:   *)
(* it is harmless as long as no notification came in between, and from the *)
(* first time one did (overwritten) only the types are claimed.            *)
(***************************************************************************)
EXTENDS McpBroker, SequenceTheorems, FiniteSetTheorems, WellFoundedInduction, TLAPS

\* The session s, as stored or as a subscribe read it, numbers its events.
WellNumbered(s) ==
  /\ s.deliveredEventId < s.nextSequence
  /\ \A i \in 1..Len(s.events) : s.events[i].id = s.nextSequence - 1 - Len(s.events) + i

\* A subscribe that would take notifications back read the session before them.
CopiesFit ==
  \A h \in Handler : pending[h].step = "body" =>
    /\ pending[h].copy.nextSequence <= session.nextSequence
    /\ pending[h].copy.nextSequence = session.nextSequence =>
         pending[h].copy.events = session.events

\* Nobody has seen more than there is.
CursorsFit ==
  \A c \in Client :
    /\ lastId[c] <= issued
    /\ \A i \in 1..Len(received[c]) : received[c][i] <= lastId[c]

NumbersAreIds(s) == \A i \in 1..Len(s.events) : s.events[i].number = s.events[i].id

NothingTakenBack ==
  /\ session.nextSequence = issued + 1
  /\ NumbersAreIds(session)
  /\ CopiesFit
  /\ CursorsFit
  /\ \A c \in Client : NoGap(c)
  /\ \A c \in followers : After(session, lastId[c]) = <<>>

BrokerInv ==
  /\ BrokerTypeOK
  /\ WellNumbered(session)
  /\ \A h \in Handler : pending[h].step = "body" =>
       WellNumbered(pending[h].copy) /\ Len(pending[h].copy.events) <= History
  /\ ~overwritten => NothingTakenBack
-----------------------------------------------------------------------------
(***************************************************************************)
(* Induction, and the end of a history that follows a cursor.              *)
(***************************************************************************)
LEMMA LeastElement ==
  ASSUME NEW S \in SUBSET Nat, S # {}
  PROVE  \E n \in S : \A m \in S : n <= m
<1> DEFINE R == OpToRel(<, Nat)
<1>1. IsWellFoundedOn(R, Nat)
  BY NatLessThanWellFounded
<1>2. PICK n \in S : \A y \in S : <<y, n>> \notin R
  <2> HIDE DEF R
  <2> QED
    BY <1>1, WFMin
<1>3. ASSUME NEW m \in S PROVE n <= m
  <2>1. <<m, n>> \in Nat \X Nat /\ ~(m < n)
    BY <1>2 DEF OpToRel
  <2> QED
    BY <2>1
<1> QED
  BY <1>3

LEMMA Induction ==
  ASSUME NEW S, 0 \in S, \A n \in Nat : n \in S => n + 1 \in S
  PROVE  \A n \in Nat : n \in S
<1> DEFINE Rest == Nat \ S
<1>1. SUFFICES ASSUME Rest # {} PROVE FALSE
  OBVIOUS
<1>2. PICK n \in Rest : \A m \in Rest : n <= m
  BY <1>1, LeastElement
<1>3. n - 1 \in Nat /\ n - 1 \notin Rest
  BY <1>2
<1> QED
  BY <1>2, <1>3

Filters(f, events, id) ==
  \A i \in 0..Len(events) :
    f[i] = IF i = 0 THEN <<>>
           ELSE IF events[i].id > id THEN Append(f[i - 1], events[i])
           ELSE f[i - 1]

\* Fresh is what its recursion says.
LEMMA FreshFilters ==
  ASSUME NEW D, NEW events \in Seq(D), NEW id
  PROVE  \E f : Filters(f, events, id) /\ Fresh(events, id) = f[Len(events)]
<1> DEFINE Defines(f, n) ==
             f = [i \in 0..n |-> IF i = 0 THEN <<>>
                                 ELSE IF events[i].id > id THEN Append(f[i - 1], events[i])
                                 ELSE f[i - 1]]
           S == {n \in Nat : \E f : Defines(f, n)}
           F == CHOOSE f : Defines(f, Len(events))
<1>1. 0 \in S
  <2>1. Defines([i \in 0..0 |-> <<>>], 0)
    OBVIOUS
  <2> QED
    BY <2>1
<1>2. ASSUME NEW n \in Nat, n \in S PROVE n + 1 \in S
  <2>1. PICK f : Defines(f, n)
    BY <1>2
  <2> DEFINE last == IF events[n + 1].id > id THEN Append(f[n], events[n + 1]) ELSE f[n]
             g == [i \in 0..(n + 1) |-> IF i = n + 1 THEN last ELSE f[i]]
  <2>2. \A i \in 0..n : f[i] = IF i = 0 THEN <<>>
                               ELSE IF events[i].id > id THEN Append(f[i - 1], events[i])
                               ELSE f[i - 1]
    BY <2>1
  <2>3. \A i \in 0..n : g[i] = f[i]
    OBVIOUS
  <2>4. g[n + 1] = IF events[n + 1].id > id THEN Append(g[n], events[n + 1]) ELSE g[n]
    BY <2>3
  <2>0. g = [i \in 0..(n + 1) |-> g[i]]
    OBVIOUS
  <2> HIDE DEF last, g
  <2>5. \A i \in 0..(n + 1) : g[i] = IF i = 0 THEN <<>>
                                     ELSE IF events[i].id > id THEN Append(g[i - 1], events[i])
                                     ELSE g[i - 1]
    <3> TAKE i \in 0..(n + 1)
    <3>1. CASE i = n + 1
      <4>1. i # 0 /\ i - 1 = n
        BY <3>1
      <4> QED
        BY <2>4, <3>1, <4>1
    <3>2. CASE i = 0
      BY <2>2, <2>3, <3>2
    <3>3. CASE i \in 1..n
      <4>1. g[i] = f[i] /\ g[i - 1] = f[i - 1]
        BY <2>3, <3>3
      <4> QED
        BY <2>2, <3>3, <4>1
    <3> QED
      BY <3>1, <3>2, <3>3
  <2>6. Defines(g, n + 1)
    BY <2>0, <2>5
  <2> HIDE DEF Defines
  <2> QED
    BY <2>6
<1>3. Len(events) \in S
  <2> HIDE DEF S
  <2> QED
    BY <1>1, <1>2, Induction
<1>4. Defines(F, Len(events))
  BY <1>3
<1>5. Fresh(events, id) = F[Len(events)]
  BY DEF Fresh
<1>6. Filters(F, events, id)
  <2> HIDE DEF F
  <2> QED
    BY <1>4 DEF Filters
<1> QED
  BY <1>5, <1>6

\* The events behind the m-th.
Behind(events, m) == [k \in 1..(Len(events) - m) |-> events[m + k]]

\* When what is past id stands behind the rest, Fresh returns the end of the events.
LEMMA FreshIsSuffix ==
  ASSUME NEW D, NEW events \in Seq(D), NEW id, NEW m \in 0..Len(events),
         \A j \in 1..Len(events) : events[j].id > id <=> j > m
  PROVE  Fresh(events, id) = Behind(events, m)
<1> DEFINE Tails(i) == [k \in 1..(i - m) |-> events[m + k]]
<1>1. PICK f : Filters(f, events, id) /\ Fresh(events, id) = f[Len(events)]
  BY FreshFilters
<1> DEFINE S == {i \in Nat : i <= Len(events) => f[i] = Tails(i)}
<1>2. Len(events) \in Nat /\ m \in Nat /\ m <= Len(events)
  OBVIOUS
<1>3. 0 \in S
  <2>1. f[0] = <<>>
    BY <1>1, <1>2 DEF Filters
  <2>2. Tails(0) = <<>>
    BY <1>2
  <2> QED
    BY <2>1, <2>2
<1>4. ASSUME NEW i \in Nat, i \in S PROVE i + 1 \in S
  <2> SUFFICES ASSUME i + 1 <= Len(events) PROVE f[i + 1] = Tails(i + 1)
    OBVIOUS
  <2>1. f[i] = Tails(i)
    BY <1>2, <1>4
  <2>2. f[i + 1] = IF events[i + 1].id > id THEN Append(f[i], events[i + 1]) ELSE f[i]
    BY <1>1, <1>2 DEF Filters
  <2>3. CASE i + 1 > m
    <3>1. f[i + 1] = Append(Tails(i), events[i + 1])
      BY <1>2, <2>1, <2>2, <2>3
    <3>2. Tails(i) \in Seq(D) /\ Len(Tails(i)) = i - m
      BY <1>2, <2>3
    <3>3. Append(Tails(i), events[i + 1]) = Tails(i + 1)
      <4>1. \A k \in 1..(i + 1 - m) :
              Append(Tails(i), events[i + 1])[k] = events[m + k]
        BY <1>2, <2>3, <3>2
      <4>2. Append(Tails(i), events[i + 1])
              = [k \in 1..(i + 1 - m) |-> Append(Tails(i), events[i + 1])[k]]
        BY <1>2, <2>3, <3>2
      <4> DEFINE longer == Append(Tails(i), events[i + 1])
      <4> HIDE DEF longer
      <4>3. longer = [k \in 1..(i + 1 - m) |-> events[m + k]]
        BY <4>1, <4>2 DEF longer
      <4>4. longer = Tails(i + 1)
        BY <4>3
      <4> HIDE DEF Tails
      <4> QED
        BY <4>4 DEF longer
    <3> QED
      BY <3>1, <3>3
  <2>4. CASE ~(i + 1 > m)
    <3>1. f[i + 1] = Tails(i)
      BY <1>2, <2>1, <2>2, <2>4
    <3>2. 1..(i - m) = {} /\ 1..(i + 1 - m) = {}
      BY <1>2, <2>4
    <3>3. Tails(i) = Tails(i + 1)
      BY <3>2
    <3> QED
      BY <3>1, <3>3
  <2> QED
    BY <2>3, <2>4
<1>5. Len(events) \in S
  <2> HIDE DEF S
  <2> QED
    BY <1>2, <1>3, <1>4, Induction
<1> QED
  BY <1>1, <1>2, <1>5 DEF Behind

\* What follows an id is the end of the history behind a place m.
LEMMA AfterIs ==
  ASSUME NEW s \in Session, WellNumbered(s), NEW id \in Nat
  PROVE  \E m \in 0..Len(s.events) :
           /\ \A j \in 1..Len(s.events) : s.events[j].id > id <=> j > m
           /\ After(s, id) = Behind(s.events, m)
<1> DEFINE len == Len(s.events)
           first == s.nextSequence - 1 - len
           m == IF id <= first THEN 0 ELSE IF id >= first + len THEN len ELSE id - first
<1>1. /\ s.events \in Seq(Event) /\ len \in Nat /\ s.nextSequence \in Nat
      /\ \A j \in 1..len : s.events[j].id = first + j
  BY DEF Session, WellNumbered
<1>2. first \in Int
  BY <1>1
<1> HIDE DEF len, first
<1>3. m \in 0..len /\ \A j \in 1..len : first + j > id <=> j > m
  BY <1>1, <1>2
<1> HIDE DEF m
<1>4. \A j \in 1..len : s.events[j].id > id <=> j > m
  BY <1>1, <1>3
<1>5. After(s, id) = Behind(s.events, m)
  BY <1>1, <1>3, <1>4, FreshIsSuffix DEF After, len
<1> QED
  BY <1>3, <1>4, <1>5 DEF len
-----------------------------------------------------------------------------
(***************************************************************************)
(* A batch, and a reader that is sent one.                                 *)
(***************************************************************************)
LEMMA EventTypes ==
  ASSUME NEW s \in Session
  PROVE  /\ s.events \in Seq(Event) /\ Len(s.events) \in Nat /\ s.nextSequence \in Nat
         /\ s.deliveredEventId \in Nat
         /\ \A j \in 1..Len(s.events) : /\ s.events[j] \in Event /\ s.events[j].id \in Nat
                                        /\ s.events[j].number \in Nat
<1>1. s.events \in Seq(Event) /\ s.nextSequence \in Nat /\ s.deliveredEventId \in Nat
  BY DEF Session
<1>2. \A j \in 1..Len(s.events) : s.events[j] \in Event
  BY <1>1
<1> QED
  BY <1>1, <1>2 DEF Event

LEMMA BatchIs ==
  ASSUME NEW s \in Session, WellNumbered(s), NEW id \in Nat,
         NEW batch, batch = After(s, id), NEW latest, latest = LatestId(batch, id)
  PROVE  /\ batch \in Seq(Event)
         /\ latest \in Nat /\ id <= latest
         /\ batch = <<>> => latest = id
         /\ batch # <<>> => latest = s.nextSequence - 1 /\ latest = Last(s.events).id
         /\ \A j \in 1..Len(s.events) : s.events[j].id <= latest
         /\ \A j \in 1..Len(s.events) :
              s.events[j].id > id => \E k \in 1..Len(batch) : batch[k] = s.events[j]
         /\ \A k \in 1..Len(batch) :
              /\ id < batch[k].id /\ batch[k].id <= latest
              /\ \E j \in 1..Len(s.events) : batch[k] = s.events[j]
         /\ \A k, n \in 1..Len(batch) : k < n => batch[k].id < batch[n].id
<1> DEFINE E == s.events
           first == s.nextSequence - 1 - Len(s.events)
<1>1. /\ E \in Seq(Event) /\ Len(E) \in Nat /\ s.nextSequence \in Nat /\ first \in Int
      /\ first + Len(E) = s.nextSequence - 1
      /\ \A j \in 1..Len(E) : E[j] \in Event /\ E[j].id = first + j /\ E[j].id \in Nat
  BY EventTypes DEF WellNumbered
<1>2. PICK m \in 0..Len(E) : /\ \A j \in 1..Len(E) : E[j].id > id <=> j > m
                             /\ batch = Behind(E, m)
  BY AfterIs
<1> HIDE DEF E, first
<1>3. /\ batch \in Seq(Event) /\ Len(batch) = Len(E) - m
      /\ \A k \in 1..(Len(E) - m) : batch[k] = E[m + k]
  <2>1. Len(E) - m \in Nat /\ \A k \in 1..(Len(E) - m) : m + k \in 1..Len(E)
    BY <1>1, <1>2
  <2>2. \A k \in 1..(Len(E) - m) : E[m + k] \in Event
    BY <1>1, <2>1
  <2> DEFINE n == Len(E) - m
  <2> HIDE DEF n
  <2>3. batch = [k \in 1..n |-> E[m + k]]
    BY <1>2 DEF Behind, n
  <2>4. n \in Nat /\ \A k \in 1..n : E[m + k] \in Event
    BY <2>1, <2>2 DEF n
  <2>5. batch \in Seq(Event) /\ Len(batch) = n /\ \A k \in 1..n : batch[k] = E[m + k]
    BY <2>3, <2>4
  <2> QED
    BY <2>5 DEF n
<1>4. batch = <<>> <=> m = Len(E)
  BY <1>1, <1>2, <1>3
<1>5. batch # <<>> => Last(batch) = E[Len(E)] /\ Last(E) = E[Len(E)] /\ Len(E) \in 1..Len(E)
  <2> SUFFICES ASSUME batch # <<>>
               PROVE  Last(batch) = E[Len(E)] /\ Last(E) = E[Len(E)] /\ Len(E) \in 1..Len(E)
    OBVIOUS
  <2>1. Len(batch) \in 1..(Len(E) - m) /\ m + Len(batch) = Len(E) /\ Len(E) \in 1..Len(E)
    BY <1>1, <1>2, <1>3, <1>4
  <2>2. batch[Len(batch)] = E[m + Len(batch)]
    BY <1>3, <2>1
  <2> QED
    BY <2>1, <2>2 DEF Last
<1>6. /\ batch = <<>> => latest = id
      /\ batch # <<>> => latest = s.nextSequence - 1 /\ latest = Last(E).id /\ latest > id
  BY <1>1, <1>2, <1>4, <1>5 DEF LatestId
<1>7. \A k \in 1..Len(batch) : m + k \in 1..Len(E) /\ m + k > m
  BY <1>1, <1>2, <1>3
<1>8. \A k \in 1..Len(batch) :
        /\ id < batch[k].id /\ batch[k].id <= latest
        /\ \E j \in 1..Len(E) : batch[k] = E[j]
  <2> TAKE k \in 1..Len(batch)
  <2>1. batch[k] = E[m + k] /\ batch[k].id = first + (m + k) /\ batch[k].id > id
    BY <1>1, <1>2, <1>3, <1>7
  <2>2. batch # <<>>
    BY <1>3
  <2>3. first + (m + k) <= s.nextSequence - 1
    BY <1>1, <1>2, <1>7
  <2> QED
    BY <1>1, <1>6, <1>7, <2>1, <2>2, <2>3
<1>9. \A k, n \in 1..Len(batch) : k < n => batch[k].id < batch[n].id
  <2> SUFFICES ASSUME NEW k \in 1..Len(batch), NEW n \in 1..Len(batch), k < n
               PROVE  batch[k].id < batch[n].id
    OBVIOUS
  <2>1. batch[k].id = first + (m + k) /\ batch[n].id = first + (m + n)
    BY <1>1, <1>3, <1>7
  <2> QED
    BY <1>1, <1>2, <1>3, <2>1
<1>10. \A j \in 1..Len(E) : E[j].id <= latest
  <2> TAKE j \in 1..Len(E)
  <2>1. CASE batch = <<>>
    BY <1>1, <1>2, <1>4, <1>6, <2>1
  <2>2. CASE batch # <<>>
    BY <1>1, <1>6, <2>2
  <2> QED
    BY <2>1, <2>2
<1>11. \A j \in 1..Len(E) : E[j].id > id => \E k \in 1..Len(batch) : batch[k] = E[j]
  <2> SUFFICES ASSUME NEW j \in 1..Len(E), E[j].id > id
               PROVE  \E k \in 1..Len(batch) : batch[k] = E[j]
    OBVIOUS
  <2>1. j > m /\ j - m \in 1..Len(batch) /\ m + (j - m) = j
    BY <1>1, <1>2, <1>3
  <2>2. batch[j - m] = E[m + (j - m)]
    BY <1>3, <2>1
  <2> QED
    BY <2>1, <2>2
<1>12. latest \in Nat /\ id <= latest
  BY <1>1, <1>6
<1> QED
  BY <1>3, <1>6, <1>8, <1>9, <1>10, <1>11, <1>12 DEF E

LEMMA NothingAfter ==
  ASSUME NEW s \in Session, WellNumbered(s), NEW id \in Nat
  PROVE  After(s, id) = <<>> <=> \A j \in 1..Len(s.events) : s.events[j].id <= id
<1> DEFINE batch == After(s, id)
           latest == LatestId(batch, id)
<1>1. /\ batch = <<>> => latest = id
      /\ \A j \in 1..Len(s.events) : s.events[j].id <= latest
      /\ batch \in Seq(Event)
      /\ \A k \in 1..Len(batch) : /\ id < batch[k].id
                                  /\ \E j \in 1..Len(s.events) : batch[k] = s.events[j]
  <2> HIDE DEF batch, latest
  <2>1. batch = After(s, id) /\ latest = LatestId(batch, id)
    BY DEF batch, latest
  <2> QED
    BY <2>1, BatchIs
<1> HIDE DEF batch, latest
<1>2. CASE batch = <<>>
  BY <1>1, <1>2 DEF batch
<1>3. CASE batch # <<>>
  <2>1. 1 \in 1..Len(batch)
    BY <1>1, <1>3
  <2>2. PICK j \in 1..Len(s.events) : id < s.events[j].id
    BY <1>1, <2>1
  <2>3. s.events[j].id \in Nat
    BY EventTypes
  <2> QED
    BY <1>3, <2>2, <2>3 DEF batch
<1> QED
  BY <1>2, <1>3
\* A reader at id that was sent r has seen all events since it began at o.
Complete(events, o, id, r) ==
  /\ Increasing(r)
  /\ \A e \in Range(events) : o < e.id /\ e.id <= id => e.number \in Range(r)

LEMMA SentTypes ==
  ASSUME NEW s \in Session, WellNumbered(s), NEW id \in Nat, NEW r \in Seq(Nat),
         NEW batch, batch = After(s, id)
  PROVE  /\ r \o Numbers(batch) \in Seq(Nat)
         /\ Numbers(batch) \in Seq(Nat) /\ Len(Numbers(batch)) = Len(batch)
         /\ \A k \in 1..Len(batch) : Numbers(batch)[k] = batch[k].number
<1>1. batch \in Seq(Event)
  BY BatchIs
<1>2. \A k \in 1..Len(batch) : batch[k].number \in Nat
  <2>1. \A k \in 1..Len(batch) : batch[k] \in Event
    BY <1>1
  <2> QED
    BY <2>1 DEF Event
<1>3. DOMAIN batch = 1..Len(batch) /\ Len(batch) \in Nat
  BY <1>1
<1>4. /\ Numbers(batch) \in Seq(Nat) /\ Len(Numbers(batch)) = Len(batch)
      /\ \A k \in 1..Len(batch) : Numbers(batch)[k] = batch[k].number
  <2> DEFINE n == Len(batch)
  <2> HIDE DEF n
  <2>1. Numbers(batch) = [k \in 1..n |-> batch[k].number]
    BY <1>3 DEF Numbers, n
  <2>2. n \in Nat /\ \A k \in 1..n : batch[k].number \in Nat
    BY <1>2, <1>3 DEF n
  <2>3. /\ Numbers(batch) \in Seq(Nat) /\ Len(Numbers(batch)) = n
        /\ \A k \in 1..n : Numbers(batch)[k] = batch[k].number
    BY <2>1, <2>2
  <2> QED
    BY <2>3 DEF n
<1> QED
  BY <1>4

\* A reader that is sent what follows its cursor has seen all there is.
LEMMA SentIsComplete ==
  ASSUME NEW s \in Session, WellNumbered(s), NumbersAreIds(s), NEW id \in Nat, NEW o \in Nat,
         NEW r \in Seq(Nat), \A i \in 1..Len(r) : r[i] <= id, Complete(s.events, o, id, r),
         NEW batch, batch = After(s, id), NEW latest, latest = LatestId(batch, id),
         NEW next, next = r \o Numbers(batch)
  PROVE  /\ \A i \in 1..Len(next) : next[i] <= latest
         /\ Complete(s.events, o, latest, next)
<1> DEFINE sent == Numbers(batch)
<1>1. /\ next \in Seq(Nat) /\ sent \in Seq(Nat) /\ Len(sent) = Len(batch)
      /\ \A k \in 1..Len(batch) : sent[k] = batch[k].number
  BY SentTypes
<1>2. batch \in Seq(Event) /\ latest \in Nat /\ id <= latest
  BY BatchIs
<1>2a. \A j \in 1..Len(s.events) :
         s.events[j].id > id => \E k \in 1..Len(batch) : batch[k] = s.events[j]
  BY BatchIs
<1>2b. \A k \in 1..Len(batch) :
         /\ id < batch[k].id /\ batch[k].id <= latest
         /\ \E j \in 1..Len(s.events) : batch[k] = s.events[j]
  BY BatchIs
<1>2c. \A k, n \in 1..Len(batch) : k < n => batch[k].id < batch[n].id
  BY BatchIs
<1>2d. next = r \o sent
  OBVIOUS
<1>3. \A k \in 1..Len(batch) : batch[k].number = batch[k].id /\ batch[k].id \in Nat
  BY <1>2b, EventTypes DEF NumbersAreIds
<1> HIDE DEF sent
<1>4. /\ \A k \in 1..Len(sent) : sent[k] \in Nat /\ id < sent[k] /\ sent[k] <= latest
      /\ \A k, n \in 1..Len(sent) : k < n => sent[k] < sent[n]
  <2>1. \A k \in 1..Len(sent) :
          k \in 1..Len(batch) /\ sent[k] = batch[k].id /\ batch[k].id \in Nat
    BY <1>1, <1>3
  <2> QED
    BY <1>2b, <1>2c, <2>1
<1>5. /\ next = r \o sent /\ Len(r) \in Nat /\ Len(sent) \in Nat
      /\ Len(next) = Len(r) + Len(sent)
      /\ \A i \in 1..Len(r) : r[i] \in Nat
      /\ DOMAIN next = 1..Len(next) /\ DOMAIN r = 1..Len(r)
  <2>1. next \in Seq(Nat) /\ sent \in Seq(Nat) /\ r \in Seq(Nat)
    BY <1>1
  <2>2. Len(next) = Len(r) + Len(sent)
    BY <1>2d, <2>1, ConcatProperties
  <2>3. Len(r) \in Nat /\ Len(sent) \in Nat /\ \A i \in 1..Len(r) : r[i] \in Nat
    BY <2>1
  <2>4. DOMAIN next = 1..Len(next) /\ DOMAIN r = 1..Len(r)
    BY <2>1
  <2> QED
    BY <1>2d, <2>2, <2>3, <2>4
<1>6. \A i \in 1..Len(next) : next[i] = IF i <= Len(r) THEN r[i] ELSE sent[i - Len(r)]
  BY <1>1, <1>5
<1>7. \A i \in 1..Len(next) : next[i] <= latest
  <2> TAKE i \in 1..Len(next)
  <2>1. CASE i <= Len(r)
    BY <1>2, <1>5, <1>6, <2>1
  <2>2. CASE ~(i <= Len(r))
    <3>1. i - Len(r) \in 1..Len(sent)
      BY <1>5, <2>2
    <3> QED
      BY <1>4, <1>6, <2>2, <3>1
  <2> QED
    BY <2>1, <2>2
<1>8. Increasing(next)
  <2> SUFFICES ASSUME NEW i \in 1..Len(next), NEW j \in 1..Len(next), i < j
               PROVE  next[i] < next[j]
    BY <1>5 DEF Increasing
  <2>1. \A a, b \in 1..Len(r) : a < b => r[a] < r[b]
    BY <1>5 DEF Complete, Increasing
  <2>2. CASE j <= Len(r)
    <3>1. i \in 1..Len(r) /\ j \in 1..Len(r) /\ i <= Len(r)
      BY <1>5, <2>2
    <3> QED
      BY <1>6, <2>1, <2>2, <3>1
  <2>3. CASE i <= Len(r) /\ ~(j <= Len(r))
    <3>1. i \in 1..Len(r) /\ j - Len(r) \in 1..Len(sent)
      BY <1>5, <2>3
    <3>2. next[i] = r[i] /\ next[j] = sent[j - Len(r)]
      BY <1>6, <2>3
    <3>3. r[i] <= id /\ id < sent[j - Len(r)] /\ r[i] \in Nat /\ sent[j - Len(r)] \in Nat
      BY <1>4, <1>5, <3>1
    <3> QED
      BY <3>2, <3>3
  <2>4. CASE ~(i <= Len(r)) /\ ~(j <= Len(r))
    <3>1. i - Len(r) \in 1..Len(sent) /\ j - Len(r) \in 1..Len(sent) /\ i - Len(r) < j - Len(r)
      BY <1>5, <2>4
    <3>2. next[i] = sent[i - Len(r)] /\ next[j] = sent[j - Len(r)]
      BY <1>6, <2>4
    <3> QED
      BY <1>4, <3>1, <3>2
  <2> QED
    BY <1>5, <2>2, <2>3, <2>4
<1>9. \A x : (\E i \in 1..Len(r) : r[i] = x) => x \in Range(next)
  <2> SUFFICES ASSUME NEW i \in 1..Len(r) PROVE r[i] \in Range(next)
    OBVIOUS
  <2>1. i \in 1..Len(next) /\ next[i] = r[i]
    BY <1>5, <1>6
  <2> QED
    BY <1>5, <2>1 DEF Range
<1>10. \A k \in 1..Len(sent) : sent[k] \in Range(next)
  <2> TAKE k \in 1..Len(sent)
  <2>1. Len(r) + k \in 1..Len(next) /\ ~(Len(r) + k <= Len(r)) /\ (Len(r) + k) - Len(r) = k
    BY <1>5
  <2>2. next[Len(r) + k] = sent[k]
    BY <1>6, <2>1
  <2> QED
    BY <1>5, <2>1, <2>2 DEF Range
<1>11. ASSUME NEW e \in Range(s.events), o < e.id, e.id <= latest PROVE e.number \in Range(next)
  <2>1. PICK j \in 1..Len(s.events) : e = s.events[j]
    BY EventTypes DEF Range
  <2>2. e.id \in Nat
    BY <2>1, EventTypes
  <2>3. CASE e.id <= id
    <3>1. e.number \in Range(r)
      BY <1>11, <2>3 DEF Complete
    <3> QED
      BY <1>5, <1>9, <3>1 DEF Range
  <2>4. CASE ~(e.id <= id)
    <3>1. PICK k \in 1..Len(batch) : batch[k] = e
      <4>1. e.id > id
        BY <2>2, <2>4
      <4> QED
        BY <1>2a, <2>1, <4>1
    <3> QED
      BY <1>1, <1>10, <3>1
  <2> QED
    BY <2>3, <2>4
<1> QED
  BY <1>7, <1>8, <1>11 DEF Complete

\* enqueueSessionEvent keeps the ids in their order, and drops old events only.
LEMMA EnqueuedIs ==
  ASSUME BrokerTypeOK, NEW s0 \in Session, s0 = session, WellNumbered(s0),
         NEW n \in Nat, NEW s, s = Enqueued(s0, n)
  PROVE  /\ s \in Session /\ WellNumbered(s) /\ Len(s.events) <= History
         /\ s.nextSequence = s0.nextSequence + n
         /\ s.deliveredEventId = s0.deliveredEventId
         /\ n > 0 => s.events # <<>> /\ Last(s.events).id = s.nextSequence - 1
         /\ (NumbersAreIds(s0) /\ s0.nextSequence = issued + 1) => NumbersAreIds(s)
         /\ \A j \in 1..Len(s.events) :
              s.events[j].id < s0.nextSequence =>
                \E i \in 1..Len(s0.events) : s.events[j] = s0.events[i]
<1> DEFINE old == s0.events
           new == [i \in 1..n |-> [id |-> s0.nextSequence + i - 1, number |-> issued + i]]
           all == old \o new
           E == s.events
           skip == IF Len(all) <= History THEN 0 ELSE Len(all) - History
<1>1. /\ old \in Seq(Event) /\ Len(old) \in Nat /\ s0.nextSequence \in Nat /\ issued \in Nat
      /\ s0.deliveredEventId \in Nat /\ History \in Nat /\ History > 0
      /\ \A j \in 1..Len(old) : /\ old[j] \in Event /\ old[j].id \in Nat
                                /\ old[j].id = s0.nextSequence - 1 - Len(old) + j
  BY EventTypes, McpBrokerAssumption DEF BrokerTypeOK, WellNumbered
<1>0. s0.nextSequence > 0
  BY <1>1 DEF WellNumbered
<1>2. /\ new \in Seq(Event) /\ Len(new) = n
      /\ \A i \in 1..n : new[i] = [id |-> s0.nextSequence + i - 1, number |-> issued + i]
  <2>1. \A i \in 1..n : [id |-> s0.nextSequence + i - 1, number |-> issued + i] \in Event
    <3> TAKE i \in 1..n
    <3>1. s0.nextSequence + i - 1 \in Nat /\ issued + i \in Nat
      BY <1>1, <1>0
    <3> QED
      BY <3>1 DEF Event
  <2> DEFINE item(i) == [id |-> s0.nextSequence + i - 1, number |-> issued + i]
  <2>2. new = [i \in 1..n |-> item(i)] /\ \A i \in 1..n : item(i) \in Event
    BY <2>1
  <2> HIDE DEF item, new
  <2>3. new \in Seq(Event) /\ Len(new) = n /\ \A i \in 1..n : new[i] = item(i)
    BY <2>2
  <2> QED
    BY <2>3 DEF item
<1>3. s = [s0 EXCEPT !.nextSequence = s0.nextSequence + n, !.events = Trimmed(all)]
  BY DEF Enqueued
<1>4. /\ s.nextSequence = s0.nextSequence + n /\ s.deliveredEventId = s0.deliveredEventId
      /\ E = Trimmed(all)
  BY <1>3 DEF Session
<1> HIDE DEF new, old
<1>5. /\ all \in Seq(Event) /\ Len(all) = Len(old) + n
      /\ \A j \in 1..Len(all) : all[j] = IF j <= Len(old) THEN old[j] ELSE new[j - Len(old)]
  <2>1. all = old \o new /\ old \in Seq(Event) /\ new \in Seq(Event) /\ Len(new) = n
    BY <1>1, <1>2
  <2> HIDE DEF all
  <2> QED
    BY <2>1, ConcatProperties
<1> HIDE DEF all
<1>6. \A j \in 1..Len(all) :
        /\ all[j] \in Event
        /\ all[j].id = s0.nextSequence - 1 - Len(old) + j
        /\ ~(j <= Len(old)) => all[j].number = issued + (j - Len(old))
  <2> TAKE j \in 1..Len(all)
  <2>0. all[j] \in Event
    BY <1>5
  <2>1. CASE j <= Len(old)
    <3>1. j \in 1..Len(old) /\ all[j] = old[j]
      BY <1>1, <1>5, <2>1
    <3> QED
      BY <1>1, <2>0, <2>1, <3>1
  <2>2. CASE ~(j <= Len(old))
    <3>1. j - Len(old) \in 1..n /\ all[j] = new[j - Len(old)]
      BY <1>1, <1>5, <2>2
    <3>2. all[j].id = s0.nextSequence + (j - Len(old)) - 1
          /\ all[j].number = issued + (j - Len(old))
      BY <1>2, <3>1
    <3> QED
      BY <1>1, <2>0, <2>2, <3>2
  <2> QED
    BY <2>1, <2>2
<1>7. /\ skip \in Nat /\ skip <= Len(all) /\ Len(all) \in Nat
      /\ E \in Seq(Event) /\ Len(E) = Len(all) - skip /\ Len(E) <= History
      /\ \A j \in 1..Len(E) : skip + j \in 1..Len(all) /\ E[j] = all[skip + j]
  <2>1. CASE Len(all) <= History
    <3>1. E = all /\ skip = 0 /\ Len(all) \in Nat
      BY <1>1, <1>4, <1>5, <2>1 DEF Trimmed
    <3> QED
      BY <1>5, <2>1, <3>1
  <2>2. CASE ~(Len(all) <= History)
    <3>0. E = SubSeq(all, Len(all) - History + 1, Len(all))
      BY <1>4, <2>2 DEF Trimmed
    <3>1. Len(all) \in Nat /\ skip = Len(all) - History /\ Len(all) > History
      BY <1>1, <1>5, <2>2
    <3> HIDE DEF skip, E
    <3>2. Len(all) - History + 1 \in 1..Len(all)
      BY <1>1, <2>2, <3>1
    <3>3. E \in Seq(Event) /\ Len(E) = History
          /\ \A j \in 1..History : E[j] = all[(Len(all) - History + 1) + j - 1]
      <4> DEFINE from == Len(all) - History + 1
      <4>1. from \in Int /\ Len(all) \in Int /\ \A i \in from..Len(all) : all[i] \in Event
        BY <1>1, <1>5, <3>1, <3>2
      <4>2. E = SubSeq(all, from, Len(all)) /\ from <= Len(all)
            /\ Len(all) - from + 1 = History
        BY <1>1, <3>0, <3>1
      <4> HIDE DEF from
      <4>3. /\ E \in Seq(Event) /\ Len(E) = Len(all) - from + 1
            /\ \A j \in 1..(Len(all) - from + 1) : E[j] = all[from + j - 1]
        BY <4>1, <4>2, SubSeqProperties
      <4> QED
        BY <4>2, <4>3 DEF from
    <3>4. \A j \in 1..History : (Len(all) - History + 1) + j - 1 = skip + j
      BY <1>1, <3>1
    <3> QED
      BY <1>1, <2>2, <3>1, <3>3, <3>4
  <2> QED
    BY <2>1, <2>2
<1> HIDE DEF skip
<1>8. \A j \in 1..Len(E) : E[j].id = s.nextSequence - 1 - Len(E) + j
  <2> TAKE j \in 1..Len(E)
  <2>1. skip + j \in 1..Len(all) /\ E[j] = all[skip + j] /\ Len(E) = Len(all) - skip
    BY <1>7
  <2>2. E[j].id = s0.nextSequence - 1 - Len(old) + (skip + j)
    BY <1>6, <2>1
  <2>3. Len(all) = Len(old) + n /\ Len(E) \in Nat
    BY <1>5, <1>7
  <2> HIDE DEF E
  <2> QED
    BY <1>1, <1>4, <1>7, <2>1, <2>2, <2>3
<1>9. s \in Session
  <2>1. s0.nextSequence + n \in Nat /\ Trimmed(all) \in Seq(Event)
    BY <1>1, <1>4, <1>7
  <2> QED
    BY <1>3, <2>1 DEF Session
<1>10. WellNumbered(s)
  BY <1>1, <1>4, <1>8 DEF WellNumbered
<1>11. ASSUME n > 0 PROVE E # <<>> /\ Last(E).id = s.nextSequence - 1
  <2>1. Len(E) \in 1..Len(E)
    <3>1. Len(E) > 0
      <4>1. CASE Len(all) <= History
        BY <1>1, <1>5, <1>7, <1>11, <4>1 DEF skip
      <4>2. CASE ~(Len(all) <= History)
        BY <1>1, <1>5, <1>7, <1>11, <4>2 DEF skip
      <4> QED
        BY <4>1, <4>2
    <3> QED
      BY <1>7, <3>1
  <2>2. E # <<>> /\ Last(E) = E[Len(E)]
    BY <1>7, <2>1 DEF Last
  <2>3. E[Len(E)].id = s.nextSequence - 1 - Len(E) + Len(E) /\ Len(E) \in Nat
    BY <1>7, <1>8, <2>1
  <2>4. s.nextSequence \in Nat
    BY <1>1, <1>4
  <2> HIDE DEF E
  <2> QED
    BY <2>2, <2>3, <2>4
<1>12. ASSUME NumbersAreIds(s0), s0.nextSequence = issued + 1 PROVE NumbersAreIds(s)
  <2> SUFFICES ASSUME NEW j \in 1..Len(E) PROVE E[j].number = E[j].id
    BY DEF NumbersAreIds
  <2> DEFINE k == skip + j
  <2>1. k \in 1..Len(all) /\ E[j] = all[k]
    BY <1>7
  <2> HIDE DEF k
  <2>2. CASE k <= Len(old)
    <3>1. k \in 1..Len(old) /\ all[k] = old[k]
      BY <1>1, <1>5, <2>1, <2>2
    <3> QED
      BY <1>12, <2>1, <3>1 DEF NumbersAreIds, old
  <2>3. CASE ~(k <= Len(old))
    BY <1>1, <1>6, <1>12, <2>1, <2>3
  <2> QED
    BY <2>2, <2>3
<1>13. ASSUME NEW j \in 1..Len(E), E[j].id < s0.nextSequence
       PROVE  \E i \in 1..Len(old) : E[j] = old[i]
  <2> DEFINE k == skip + j
  <2>1. k \in 1..Len(all) /\ E[j] = all[k]
    BY <1>7
  <2> HIDE DEF k
  <2>2. all[k].id = s0.nextSequence - 1 - Len(old) + k
    BY <1>6, <2>1
  <2>3. k \in 1..Len(old)
    BY <1>1, <1>13, <2>1, <2>2
  <2> QED
    BY <1>5, <2>1, <2>3
<1> QED
  BY <1>4, <1>7, <1>9, <1>10, <1>11, <1>12, <1>13 DEF old
-----------------------------------------------------------------------------
(***************************************************************************)
(* The steps.                                                              *)
(***************************************************************************)
LEMMA Starts == BrokerInit => BrokerInv
<1> SUFFICES ASSUME BrokerInit PROVE BrokerInv
  OBVIOUS
<1>1. /\ session = [stored |-> TRUE, initialized |-> FALSE, subscriptions |-> {},
                    events |-> <<>>, deliveredEventId |-> 0, nextSequence |-> 1]
      /\ followers = {} /\ issued = 0 /\ overwritten = FALSE
      /\ pending = [h \in Handler |-> [step |-> "none"]]
      /\ received = [c \in Client |-> <<>>]
      /\ lastId = [c \in Client |-> 0] /\ origin = [c \in Client |-> 0]
  BY DEF BrokerInit
<1>2. session.events = <<>> /\ Len(session.events) = 0 /\ session.nextSequence = 1
      /\ session.deliveredEventId = 0
  BY <1>1
<1>3. session \in Session
  BY <1>1 DEF Session
<1>4. [step |-> "none"] \in Body
  BY DEF Body
<1>5. pending \in [Handler -> Body] /\ \A h \in Handler : pending[h].step = "none"
  BY <1>1, <1>4
<1>6. BrokerTypeOK
  <2>1. received \in [Client -> Seq(Nat)] /\ lastId \in [Client -> Nat]
        /\ origin \in [Client -> Nat]
    BY <1>1
  <2>2. issued \in 0..MaxIssued /\ Len(session.events) <= History
    BY <1>1, <1>2, McpBrokerAssumption
  <2>3. overwritten \in BOOLEAN /\ followers \subseteq Client
    BY <1>1
  <2> QED
    BY <1>3, <1>5, <2>1, <2>2, <2>3 DEF BrokerTypeOK
<1>7. WellNumbered(session) /\ NumbersAreIds(session)
  BY <1>2 DEF WellNumbered, NumbersAreIds
<1>8. CopiesFit /\ CursorsFit
  BY <1>1, <1>5 DEF CopiesFit, CursorsFit
<1>9. \A c \in Client : NoGap(c)
  BY <1>1, <1>2 DEF NoGap, Increasing, Range
<1> QED
  BY <1>1, <1>2, <1>5, <1>6, <1>7, <1>8, <1>9 DEF BrokerInv, NothingTakenBack

\* The mark of what was delivered stays within the history.
LEMMA Marks ==
  ASSUME NEW s \in Session, WellNumbered(s), NEW id \in Nat
  PROVE  /\ LatestId(After(s, id), s.deliveredEventId) \in Nat
         /\ LatestId(After(s, id), s.deliveredEventId) < s.nextSequence
<1> DEFINE batch == After(s, id)
           latest == LatestId(batch, id)
<1>1. batch # <<>> => latest = s.nextSequence - 1
  <2> HIDE DEF batch, latest
  <2>1. batch = After(s, id) /\ latest = LatestId(batch, id)
    BY DEF batch, latest
  <2> QED
    BY <2>1, BatchIs
<1>2. batch # <<>> => latest = LatestId(batch, s.deliveredEventId)
  BY DEF LatestId
<1>3. batch = <<>> => LatestId(batch, s.deliveredEventId) = s.deliveredEventId
  BY DEF LatestId
<1>4. /\ s.nextSequence \in Nat /\ s.deliveredEventId \in Nat
      /\ s.deliveredEventId < s.nextSequence
  BY EventTypes DEF WellNumbered
<1> HIDE DEF batch, latest
<1>5. LatestId(batch, s.deliveredEventId) \in Nat
      /\ LatestId(batch, s.deliveredEventId) < s.nextSequence
  BY <1>1, <1>2, <1>3, <1>4
<1> QED
  BY <1>5 DEF batch

LEMMA SameNumbers ==
  ASSUME NEW s \in Session, WellNumbered(s), NEW t, t.events = s.events,
         t.nextSequence = s.nextSequence, t.deliveredEventId < t.nextSequence
  PROVE  WellNumbered(t)
BY DEF WellNumbered

\* A step that neither adds events nor sends any.
LEMMA QuietKeeps ==
  ASSUME BrokerInv, NothingTakenBack,
         session'.events = session.events, session'.nextSequence = session.nextSequence,
         UNCHANGED <<received, lastId, origin, issued>>, followers' \subseteq followers,
         \A h \in Handler : pending'[h].step = "body" =>
           pending'[h] = pending[h] \/ pending'[h].copy = session
  PROVE  NothingTakenBack'
<1>1. session'.nextSequence = issued' + 1 /\ NumbersAreIds(session')
  BY DEF NothingTakenBack, NumbersAreIds
<1>2. CopiesFit'
  <2> SUFFICES ASSUME NEW h \in Handler, pending'[h].step = "body"
               PROVE  /\ pending'[h].copy.nextSequence <= session'.nextSequence
                      /\ pending'[h].copy.nextSequence = session'.nextSequence =>
                           pending'[h].copy.events = session'.events
    BY DEF CopiesFit
  <2>1. CASE pending'[h] = pending[h]
    BY <2>1 DEF NothingTakenBack, CopiesFit
  <2>2. CASE pending'[h].copy = session
    <3>1. session.nextSequence \in Nat
      BY DEF BrokerInv, BrokerTypeOK, Session
    <3> QED
      BY <2>2, <3>1
  <2> QED
    BY <2>1, <2>2
<1>3. CursorsFit'
  BY DEF NothingTakenBack, CursorsFit
<1>4. (\A c \in Client : NoGap(c))'
  BY DEF NothingTakenBack, NoGap
<1>5. (\A c \in followers : After(session, lastId[c]) = <<>>)'
  BY DEF NothingTakenBack, After
<1> QED
  BY <1>1, <1>2, <1>3, <1>4, <1>5 DEF NothingTakenBack

\* What a step leaves of the invariant when it only changes the session and its readers.
LEMMA InvFrom ==
  ASSUME BrokerInv, BrokerTypeOK', WellNumbered(session'), NothingTakenBack => NothingTakenBack',
         overwritten' = overwritten,
         \A h \in Handler : pending'[h].step = "body" =>
           pending'[h] = pending[h] \/ pending'[h].copy = session
  PROVE  BrokerInv'
<1>1. \A h \in Handler : pending'[h].step = "body" =>
        WellNumbered(pending'[h].copy) /\ Len(pending'[h].copy.events) <= History
  <2> SUFFICES ASSUME NEW h \in Handler, pending'[h].step = "body"
               PROVE  WellNumbered(pending'[h].copy) /\ Len(pending'[h].copy.events) <= History
    OBVIOUS
  <2>1. CASE pending'[h] = pending[h]
    BY <2>1 DEF BrokerInv
  <2>2. CASE pending'[h].copy = session
    BY <2>2 DEF BrokerInv, BrokerTypeOK
  <2> QED
    BY <2>1, <2>2
<1>2. ~overwritten' => NothingTakenBack'
  BY DEF BrokerInv
<1> QED
  BY <1>1, <1>2 DEF BrokerInv

LEMMA InitializedKeeps ==
  ASSUME BrokerInv, Initialized
  PROVE  BrokerInv'
<1>1. /\ session' = [session EXCEPT !.initialized = TRUE]
      /\ UNCHANGED <<followers, pending, received, lastId, origin, issued, overwritten>>
  BY DEF Initialized
<1>2. session \in Session /\ WellNumbered(session)
  BY DEF BrokerInv, BrokerTypeOK
<1>3. /\ session' \in Session /\ session'.events = session.events
      /\ session'.nextSequence = session.nextSequence
      /\ session'.deliveredEventId = session.deliveredEventId
  BY <1>1, <1>2 DEF Session
<1>4. WellNumbered(session')
  BY <1>2, <1>3, SameNumbers DEF WellNumbered
<1>5. BrokerTypeOK'
  BY <1>1, <1>3 DEF BrokerInv, BrokerTypeOK
<1>6. NothingTakenBack => NothingTakenBack'
  BY <1>1, <1>3, QuietKeeps
<1> QED
  BY <1>1, <1>4, <1>5, <1>6, InvFrom

LEMMA BeginSubscribeKeeps ==
  ASSUME BrokerInv, NEW g \in Handler, NEW uri \in Uri, NEW add \in BOOLEAN,
         BeginSubscribe(g, uri, add)
  PROVE  BrokerInv'
<1>1. /\ pending' = [pending EXCEPT ![g] = [step |-> "body", copy |-> session, uri |-> uri,
                                            add |-> add]]
      /\ UNCHANGED <<session, followers, received, lastId, origin, issued, overwritten>>
  BY DEF BeginSubscribe
<1>2. session \in Session /\ WellNumbered(session) /\ pending \in [Handler -> Body]
  BY DEF BrokerInv, BrokerTypeOK
<1>3. [step |-> "body", copy |-> session, uri |-> uri, add |-> add] \in Body
  BY <1>2 DEF Body
<1>4. pending' \in [Handler -> Body]
  BY <1>1, <1>2, <1>3
<1>5. BrokerTypeOK'
  BY <1>1, <1>4 DEF BrokerInv, BrokerTypeOK
<1>6. \A h \in Handler : pending'[h].step = "body" =>
        pending'[h] = pending[h] \/ pending'[h].copy = session
  BY <1>1, <1>2
<1>7. NothingTakenBack => NothingTakenBack'
  BY <1>1, <1>6, QuietKeeps
<1>8. WellNumbered(session')
  BY <1>1, <1>2
<1> QED
  BY <1>1, <1>5, <1>6, <1>7, <1>8, InvFrom

LEMMA NoBodyKeeps ==
  ASSUME BrokerInv, NEW g \in Handler, NoBody(g)
  PROVE  BrokerInv'
<1>1. /\ pending' = [pending EXCEPT ![g] = [step |-> "none"]]
      /\ UNCHANGED <<session, followers, received, lastId, origin, issued, overwritten>>
  BY DEF NoBody
<1>2. session \in Session /\ WellNumbered(session) /\ pending \in [Handler -> Body]
  BY DEF BrokerInv, BrokerTypeOK
<1>3. pending' \in [Handler -> Body]
  <2>1. [step |-> "none"] \in Body
    BY DEF Body
  <2> QED
    BY <1>1, <1>2, <2>1
<1>4. BrokerTypeOK'
  BY <1>1, <1>3 DEF BrokerInv, BrokerTypeOK
<1>5. \A h \in Handler : pending'[h].step = "body" => pending'[h] = pending[h]
  BY <1>1, <1>2
<1>6. NothingTakenBack => NothingTakenBack'
  BY <1>1, <1>5, QuietKeeps
<1>7. WellNumbered(session')
  BY <1>1, <1>2
<1> QED
  BY <1>1, <1>4, <1>5, <1>6, <1>7, InvFrom

\* A subscribe takes notifications back only if some came since it read the session.
LEMMA EndSubscribeKeeps ==
  ASSUME BrokerInv, NEW g \in Handler, EndSubscribe(g)
  PROVE  BrokerInv'
<1>1. PICK p : p = pending[g]
  OBVIOUS
<1> DEFINE subs == IF p.add THEN p.copy.subscriptions \cup {p.uri}
                            ELSE p.copy.subscriptions \ {p.uri}
<1>2. /\ p.step = "body"
      /\ session' = [p.copy EXCEPT !.subscriptions = subs]
      /\ overwritten' = (overwritten \/ p.copy.nextSequence # session.nextSequence)
      /\ pending' = [pending EXCEPT ![g] = [step |-> "none"]]
      /\ UNCHANGED <<followers, received, lastId, origin, issued>>
  BY <1>1 DEF EndSubscribe
<1>3. /\ p \in Body /\ pending \in [Handler -> Body] /\ WellNumbered(p.copy)
      /\ Len(p.copy.events) <= History
  BY <1>1, <1>2 DEF BrokerInv, BrokerTypeOK
<1>4. p.copy \in Session /\ p.uri \in Uri
  BY <1>2, <1>3 DEF Body
<1>5. /\ session' \in Session /\ session'.events = p.copy.events
      /\ session'.nextSequence = p.copy.nextSequence
      /\ session'.deliveredEventId = p.copy.deliveredEventId
  <2>1. subs \in SUBSET Uri
    BY <1>4 DEF Session
  <2> HIDE DEF subs
  <2> QED
    BY <1>2, <1>4, <2>1 DEF Session
<1>6. WellNumbered(session')
  BY <1>3, <1>4, <1>5, SameNumbers DEF WellNumbered
<1>7. pending' \in [Handler -> Body]
  <2>1. [step |-> "none"] \in Body
    BY DEF Body
  <2> QED
    BY <1>2, <1>3, <2>1
<1>8. overwritten' \in BOOLEAN
  BY <1>2 DEF BrokerInv, BrokerTypeOK
<1>9. BrokerTypeOK'
  BY <1>2, <1>3, <1>5, <1>7, <1>8 DEF BrokerInv, BrokerTypeOK
<1>10. \A h \in Handler : pending'[h].step = "body" => pending'[h] = pending[h]
  BY <1>2, <1>3
<1>11. ASSUME ~overwritten' PROVE NothingTakenBack'
  <2>1. ~overwritten /\ p.copy.nextSequence = session.nextSequence
    BY <1>2, <1>11
  <2>2. NothingTakenBack
    BY <2>1 DEF BrokerInv
  <2>3. p.copy.events = session.events
    BY <1>1, <1>2, <2>1, <2>2 DEF NothingTakenBack, CopiesFit
  <2> QED
    BY <1>2, <1>5, <1>10, <2>1, <2>2, <2>3, QuietKeeps
<1>12. \A h \in Handler : pending'[h].step = "body" =>
         WellNumbered(pending'[h].copy) /\ Len(pending'[h].copy.events) <= History
  BY <1>10 DEF BrokerInv
<1> QED
  BY <1>6, <1>9, <1>11, <1>12 DEF BrokerInv

\* Steps that change at most the mark, the followers and what is in memory.
LEMMA MarkKeeps ==
  ASSUME BrokerInv, NEW t \in Session, session' = t,
         t.events = session.events, t.nextSequence = session.nextSequence,
         t.deliveredEventId < t.nextSequence, followers' \subseteq followers,
         pending' = pending \/ pending' = [h \in Handler |-> [step |-> "none"]],
         UNCHANGED <<received, lastId, origin, issued, overwritten>>
  PROVE  BrokerInv'
<1>1. session \in Session /\ WellNumbered(session) /\ pending \in [Handler -> Body]
  BY DEF BrokerInv, BrokerTypeOK
<1>2. WellNumbered(session')
  BY <1>1, SameNumbers
<1>3. pending' \in [Handler -> Body]
  <2>1. [step |-> "none"] \in Body
    BY DEF Body
  <2> QED
    BY <1>1, <2>1
<1>4. BrokerTypeOK'
  BY <1>3 DEF BrokerInv, BrokerTypeOK
<1>5. \A h \in Handler : pending'[h].step = "body" => pending'[h] = pending[h]
  <2>1. CASE pending' = pending
    BY <2>1
  <2>2. CASE pending' = [h \in Handler |-> [step |-> "none"]]
    BY <2>2
  <2> QED
    BY <2>1, <2>2
<1>6. NothingTakenBack => NothingTakenBack'
  BY <1>5, QuietKeeps
<1> QED
  BY <1>2, <1>4, <1>5, <1>6, InvFrom

LEMMA AttachOtherKeeps ==
  ASSUME BrokerInv, AttachOther
  PROVE  BrokerInv'
<1> DEFINE mark == LatestId(After(session, session.deliveredEventId), session.deliveredEventId)
<1>1. session \in Session /\ WellNumbered(session) /\ session.deliveredEventId \in Nat
  BY EventTypes DEF BrokerInv, BrokerTypeOK
<1>2. mark \in Nat /\ mark < session.nextSequence
  BY <1>1, Marks
<1>3. /\ session' = [session EXCEPT !.deliveredEventId = mark]
      /\ UNCHANGED <<followers, pending, received, lastId, origin, issued, overwritten>>
  BY DEF AttachOther
<1> HIDE DEF mark
<1>4. /\ session' \in Session /\ session'.events = session.events
      /\ session'.nextSequence = session.nextSequence /\ session'.deliveredEventId = mark
  BY <1>1, <1>2, <1>3 DEF Session
<1> QED
  BY <1>2, <1>3, <1>4, MarkKeeps

LEMMA DisconnectKeeps ==
  ASSUME BrokerInv, NEW c \in Client, Disconnect(c)
  PROVE  BrokerInv'
<1>1. session \in Session /\ session.deliveredEventId < session.nextSequence
  BY DEF BrokerInv, BrokerTypeOK, WellNumbered
<1> QED
  BY <1>1, MarkKeeps DEF Disconnect

LEMMA EvictKeeps ==
  ASSUME BrokerInv, Evict
  PROVE  BrokerInv'
<1>1. session \in Session /\ session.deliveredEventId < session.nextSequence
  BY DEF BrokerInv, BrokerTypeOK, WellNumbered
<1> QED
  BY <1>1, MarkKeeps DEF Evict

LEMMA DeleteKeeps ==
  ASSUME BrokerInv, Delete
  PROVE  BrokerInv'
<1>1. session \in Session /\ session.deliveredEventId < session.nextSequence
  BY DEF BrokerInv, BrokerTypeOK, WellNumbered
<1>2. /\ session' = [session EXCEPT !.stored = FALSE] /\ followers' = {}
      /\ UNCHANGED <<pending, received, lastId, origin, issued, overwritten>>
  BY DEF Delete
<1>3. /\ session' \in Session /\ session'.events = session.events
      /\ session'.nextSequence = session.nextSequence
      /\ session'.deliveredEventId = session.deliveredEventId
  BY <1>1, <1>2 DEF Session
<1> QED
  BY <1>1, <1>2, <1>3, MarkKeeps
-----------------------------------------------------------------------------
(***************************************************************************)
(* The steps that send.                                                    *)
(***************************************************************************)
\* The reader c and its cursor id before a step that sends what s holds.
Ready(s, c, id) ==
  /\ id <= issued'
  /\ \A i \in 1..Len(received[c]) : received[c][i] <= id
  /\ Complete(s.events, origin'[c], id, received[c])

LEMMA SendTypes ==
  ASSUME BrokerTypeOK, NEW s \in Session, WellNumbered(s), NEW who \in SUBSET Client,
         NEW cursor \in [Client -> Nat], Send(s, who, cursor)
  PROVE  /\ received' \in [Client -> Seq(Nat)] /\ lastId' \in [Client -> Nat]
         /\ \A c \in who : /\ lastId'[c] = LatestId(After(s, cursor[c]), cursor[c])
                           /\ received'[c] = received[c] \o Numbers(After(s, cursor[c]))
                           /\ After(s, lastId'[c]) = <<>>
         /\ \A c \in Client \ who : lastId'[c] = lastId[c] /\ received'[c] = received[c]
<1>1. \A c \in Client : cursor[c] \in Nat /\ received[c] \in Seq(Nat) /\ lastId[c] \in Nat
  BY DEF BrokerTypeOK
<1>2. ASSUME NEW c \in Client
      PROVE  /\ received[c] \o Numbers(After(s, cursor[c])) \in Seq(Nat)
             /\ LatestId(After(s, cursor[c]), cursor[c]) \in Nat
             /\ After(s, LatestId(After(s, cursor[c]), cursor[c])) = <<>>
  <2>1. PICK batch : batch = After(s, cursor[c])
    OBVIOUS
  <2>2. PICK latest : latest = LatestId(batch, cursor[c])
    OBVIOUS
  <2>3. latest \in Nat /\ \A j \in 1..Len(s.events) : s.events[j].id <= latest
    BY <1>1, <2>1, <2>2, BatchIs
  <2>4. After(s, latest) = <<>>
    BY <2>3, NothingAfter
  <2>5. received[c] \o Numbers(batch) \in Seq(Nat)
    BY <1>1, <2>1, SentTypes
  <2> QED
    BY <2>1, <2>2, <2>3, <2>4, <2>5
<1>3. received' = [c \in Client |->
        IF c \in who THEN received[c] \o Numbers(After(s, cursor[c])) ELSE received[c]]
  BY DEF Send
<1>4. lastId' = [c \in Client |->
        IF c \in who THEN LatestId(After(s, cursor[c]), cursor[c]) ELSE lastId[c]]
  BY DEF Send
<1>5. received' \in [Client -> Seq(Nat)]
  BY <1>1, <1>2, <1>3
<1>6. lastId' \in [Client -> Nat]
  BY <1>1, <1>2, <1>4
<1>7. \A c \in who : /\ lastId'[c] = LatestId(After(s, cursor[c]), cursor[c])
                     /\ received'[c] = received[c] \o Numbers(After(s, cursor[c]))
  BY <1>3, <1>4
<1>8. \A c \in Client \ who : lastId'[c] = lastId[c] /\ received'[c] = received[c]
  BY <1>3, <1>4
<1> QED
  BY <1>2, <1>5, <1>6, <1>7, <1>8

\* Who is ready and is sent a batch, or nothing, stays so.
LEMMA SendKeeps ==
  ASSUME BrokerTypeOK, NEW s \in Session, WellNumbered(s), NumbersAreIds(s),
         s.nextSequence = issued' + 1, issued' \in Nat, origin' \in [Client -> Nat],
         NEW who \in SUBSET Client, NEW cursor \in [Client -> Nat], Send(s, who, cursor),
         \A c \in who : Ready(s, c, cursor[c]),
         \A c \in Client \ who : Ready(s, c, lastId[c])
  PROVE  /\ CursorsFit'
         /\ \A c \in Client : Complete(s.events, origin'[c], lastId'[c], received'[c])
<1>1. ASSUME NEW c \in who
      PROVE  /\ lastId'[c] <= issued'
             /\ \A i \in 1..Len(received'[c]) : received'[c][i] <= lastId'[c]
             /\ Complete(s.events, origin'[c], lastId'[c], received'[c])
  <2>1. PICK batch : batch = After(s, cursor[c])
    OBVIOUS
  <2>2. PICK latest : latest = LatestId(batch, cursor[c])
    OBVIOUS
  <2>3. PICK next : next = received[c] \o Numbers(batch)
    OBVIOUS
  <2>4. PICK r : r = received[c]
    OBVIOUS
  <2>5. PICK id : id = cursor[c]
    OBVIOUS
  <2>6. PICK o : o = origin'[c]
    OBVIOUS
  <2>7. r \in Seq(Nat) /\ id \in Nat /\ o \in Nat
    BY <2>4, <2>5, <2>6 DEF BrokerTypeOK
  <2>8. id <= issued' /\ (\A i \in 1..Len(r) : r[i] <= id) /\ Complete(s.events, o, id, r)
    BY <2>4, <2>5, <2>6 DEF Ready
  <2>9. (\A i \in 1..Len(next) : next[i] <= latest) /\ Complete(s.events, o, latest, next)
    BY <2>1, <2>2, <2>3, <2>4, <2>5, <2>7, <2>8, SentIsComplete
  <2>10. latest <= issued'
    <3>1. (batch = <<>> => latest = id) /\ (batch # <<>> => latest = s.nextSequence - 1)
      BY <2>1, <2>2, <2>5, <2>7, BatchIs
    <3> QED
      BY <2>7, <2>8, <3>1
  <2>11. lastId'[c] = latest /\ received'[c] = next
    BY <2>1, <2>2, <2>3, SendTypes
  <2> QED
    BY <2>6, <2>9, <2>10, <2>11
<1>2. ASSUME NEW c \in Client \ who
      PROVE  /\ lastId'[c] <= issued'
             /\ \A i \in 1..Len(received'[c]) : received'[c][i] <= lastId'[c]
             /\ Complete(s.events, origin'[c], lastId'[c], received'[c])
  <2>1. lastId'[c] = lastId[c] /\ received'[c] = received[c]
    BY SendTypes
  <2> QED
    BY <2>1 DEF Ready
<1>3. \A c \in Client : c \in who \/ c \in Client \ who
  OBVIOUS
<1> QED
  BY <1>1, <1>2, <1>3 DEF CursorsFit

LEMMA NoGapIs == \A c \in Client : NoGap(c) <=> Complete(session.events, origin[c], lastId[c], received[c])
BY DEF NoGap, Complete

LEMMA AttachKeeps ==
  ASSUME BrokerInv, NEW c \in Client, NEW follow \in BOOLEAN, NEW sent \in BOOLEAN,
         Attach(c, follow, sent)
  PROVE  BrokerInv'
<1>1. PICK start : start = StartOf(c)
  OBVIOUS
<1>2. PICK mark : mark = LatestId(After(session, start), session.deliveredEventId)
  OBVIOUS
<1>3. /\ session' = [session EXCEPT !.deliveredEventId = mark]
      /\ UNCHANGED <<pending, issued, overwritten>>
      /\ c \notin followers
  BY <1>1, <1>2 DEF Attach
<1>4. /\ BrokerTypeOK /\ session \in Session /\ WellNumbered(session)
      /\ session.deliveredEventId \in Nat /\ session.nextSequence \in Nat /\ issued \in Nat
      /\ lastId \in [Client -> Nat] /\ origin \in [Client -> Nat] /\ followers \subseteq Client
      /\ received \in [Client -> Seq(Nat)]
  BY EventTypes DEF BrokerInv, BrokerTypeOK
<1>5. start \in Nat
  BY <1>1, <1>4 DEF StartOf
<1>6. mark \in Nat /\ mark < session.nextSequence
  BY <1>2, <1>4, <1>5, Marks
<1>7. /\ session' \in Session /\ session'.events = session.events
      /\ session'.nextSequence = session.nextSequence /\ session'.deliveredEventId = mark
  BY <1>3, <1>4, <1>6 DEF Session
<1>8. CASE ~sent
  <2>1. UNCHANGED <<received, lastId, origin, followers>>
    BY <1>8 DEF Attach
  <2> QED
    BY <1>3, <1>6, <1>7, <2>1, MarkKeeps
<1>9. CASE sent
  <2>1. PICK cursor : cursor = [d \in Client |-> start]
    OBVIOUS
  <2>2. /\ Send(session, {c}, cursor)
        /\ origin' = [origin EXCEPT ![c] = IF lastId[c] = 0 THEN start ELSE @]
        /\ followers' = IF follow THEN followers \cup {c} ELSE followers
    BY <1>1, <1>9, <2>1 DEF Attach
  <2>3. cursor \in [Client -> Nat] /\ cursor[c] = start /\ {c} \in SUBSET Client
    BY <1>5, <2>1
  <2>4. /\ received' \in [Client -> Seq(Nat)] /\ lastId' \in [Client -> Nat]
        /\ After(session, lastId'[c]) = <<>>
        /\ \A d \in Client \ {c} : lastId'[d] = lastId[d] /\ received'[d] = received[d]
    BY <1>4, <2>2, <2>3, SendTypes
  <2>5. /\ origin' \in [Client -> Nat]
        /\ origin'[c] = IF lastId[c] = 0 THEN start ELSE origin[c]
        /\ \A d \in Client \ {c} : origin'[d] = origin[d]
    BY <1>4, <1>5, <2>2
  <2>6. followers' \subseteq followers \cup {c}
    BY <2>2
  <2>7. WellNumbered(session')
    BY <1>4, <1>6, <1>7, SameNumbers
  <2>8. BrokerTypeOK'
    BY <1>3, <1>4, <1>7, <2>4, <2>5, <2>6 DEF BrokerTypeOK
  <2>9. ASSUME NothingTakenBack PROVE NothingTakenBack'
    <3>1. /\ session.nextSequence = issued + 1 /\ NumbersAreIds(session)
          /\ CopiesFit /\ CursorsFit
          /\ \A d \in Client : Complete(session.events, origin[d], lastId[d], received[d])
          /\ \A d \in followers : After(session, lastId[d]) = <<>>
      BY <2>9, NoGapIs DEF NothingTakenBack
    <3>2. Ready(session, c, start)
      <4>1. lastId[c] \in Nat /\ lastId[c] <= issued /\ session.deliveredEventId <= issued
        BY <1>4, <3>1 DEF CursorsFit, WellNumbered
      <4>2. received[c] \in Seq(Nat) /\ \A i \in 1..Len(received[c]) :
              received[c][i] \in Nat /\ received[c][i] <= lastId[c]
        BY <1>4, <3>1 DEF CursorsFit
      <4>3. CASE lastId[c] = 0
        <5>1. start = session.deliveredEventId /\ origin'[c] = start
          BY <1>1, <2>5, <4>3 DEF StartOf
        <5>2. Increasing(received[c])
          BY <3>1 DEF Complete
        <5>3. \A e \in Range(session.events) : ~(start < e.id /\ e.id <= start)
          <6> SUFFICES ASSUME NEW e \in Range(session.events)
                       PROVE  ~(start < e.id /\ e.id <= start)
            OBVIOUS
          <6>1. e.id \in Nat
            <7>1. PICK j \in 1..Len(session.events) : e = session.events[j]
              BY <1>4, EventTypes DEF Range
            <7> QED
              BY <1>4, <7>1, EventTypes
          <6> QED
            BY <1>5, <6>1
        <5>4. Complete(session.events, origin'[c], start, received[c])
          BY <5>1, <5>2, <5>3 DEF Complete
        <5>5. \A i \in 1..Len(received[c]) : received[c][i] <= start
          BY <1>5, <4>2, <4>3
        <5> QED
          BY <1>3, <4>1, <5>1, <5>4, <5>5 DEF Ready
      <4>4. CASE lastId[c] # 0
        <5>1. start = lastId[c] /\ origin'[c] = origin[c]
          BY <1>1, <2>5, <4>4 DEF StartOf
        <5> QED
          BY <1>3, <3>1, <4>1, <4>2, <5>1 DEF Ready
      <4> QED
        BY <4>3, <4>4
    <3>3. \A d \in Client \ {c} : Ready(session, d, lastId[d])
      BY <1>3, <2>5, <3>1 DEF Ready, CursorsFit
    <3>4. issued' = issued
      BY <1>3
    <3>5. /\ CursorsFit'
          /\ \A d \in Client : Complete(session.events, origin'[d], lastId'[d], received'[d])
      <4>1. \A d \in {c} : Ready(session, d, cursor[d])
        BY <2>3, <3>2
      <4>2. PICK s : s = session
        OBVIOUS
      <4>3. /\ s \in Session /\ WellNumbered(s) /\ NumbersAreIds(s)
            /\ s.nextSequence = issued' + 1 /\ issued' \in Nat /\ Send(s, {c}, cursor)
            /\ \A d \in {c} : Ready(s, d, cursor[d])
            /\ \A d \in Client \ {c} : Ready(s, d, lastId[d])
        BY <1>4, <2>2, <3>1, <3>3, <3>4, <4>1, <4>2
      <4>4. /\ CursorsFit'
            /\ \A d \in Client : Complete(s.events, origin'[d], lastId'[d], received'[d])
        BY <1>4, <2>3, <2>5, <4>3, SendKeeps
      <4> QED
        BY <4>2, <4>4
    <3>6. (\A d \in Client : NoGap(d))'
      BY <1>7, <3>5 DEF NoGap, Complete
    <3>7. (\A d \in followers : After(session, lastId[d]) = <<>>)'
      <4> SUFFICES ASSUME NEW d \in followers' PROVE After(session', lastId'[d]) = <<>>
        OBVIOUS
      <4>1. After(session', lastId'[d]) = After(session, lastId'[d])
        BY <1>7 DEF After
      <4>2. CASE d = c
        BY <2>4, <4>1, <4>2
      <4>3. CASE d # c
        <5>1. d \in followers /\ d \in Client \ {c}
          BY <1>4, <2>6, <4>3
        <5> QED
          BY <2>4, <3>1, <4>1, <5>1
      <4> QED
        BY <4>2, <4>3
    <3>8. CopiesFit'
      BY <1>3, <1>7, <3>1 DEF CopiesFit
    <3>9. session'.nextSequence = issued' + 1 /\ NumbersAreIds(session')
      BY <1>3, <1>7, <3>1 DEF NumbersAreIds
    <3> QED
      BY <3>5, <3>6, <3>7, <3>8, <3>9 DEF NothingTakenBack
  <2> QED
    BY <1>3, <2>7, <2>8, <2>9, InvFrom
<1> QED
  BY <1>8, <1>9

LEMMA NotifyKeeps ==
  ASSUME BrokerInv, NEW updated \in SUBSET Uri, NEW listChanged \in BOOLEAN,
         NEW lost \in SUBSET Client, Notify(updated, listChanged, lost)
  PROVE  BrokerInv'
<1> DEFINE count == Cardinality(updated \cap session.subscriptions)
                      + (IF listChanged THEN 1 ELSE 0)
<1>1. count \in Nat
  <2>1. IsFiniteSet(updated \cap session.subscriptions)
    BY McpBrokerAssumption, FS_Subset
  <2>2. Cardinality(updated \cap session.subscriptions) \in Nat
    BY <2>1, FS_CardinalityType
  <2>3. (IF listChanged THEN 1 ELSE 0) \in Nat
    OBVIOUS
  <2> QED
    BY <2>2, <2>3
<1>2. PICK n \in Nat : n = count
  BY <1>1
<1>3. PICK s : s = Enqueued(session, n)
  OBVIOUS
<1>4. PICK mark : mark = IF Woken(s) = {} THEN s.deliveredEventId ELSE Last(s.events).id
  OBVIOUS
<1>5. PICK woken : woken = Woken(s)
  OBVIOUS
<1>6. /\ n > 0 /\ issued + n <= MaxIssued
      /\ session' = [s EXCEPT !.deliveredEventId = mark]
      /\ Send(s, woken \ lost, lastId)
      /\ followers' = followers \ lost
      /\ issued' = issued + n
      /\ UNCHANGED <<pending, origin, overwritten>>
  BY <1>2, <1>3, <1>4, <1>5 DEF Notify
<1> HIDE DEF count
<1>7. /\ BrokerTypeOK /\ session \in Session /\ WellNumbered(session)
      /\ session.nextSequence \in Nat /\ issued \in Nat /\ session.deliveredEventId \in Nat
      /\ lastId \in [Client -> Nat] /\ origin \in [Client -> Nat] /\ followers \subseteq Client
  BY EventTypes DEF BrokerInv, BrokerTypeOK
<1>8. /\ s \in Session /\ WellNumbered(s) /\ Len(s.events) <= History
      /\ s.nextSequence = session.nextSequence + n
      /\ s.events # <<>> /\ Last(s.events).id = s.nextSequence - 1
      /\ (NumbersAreIds(session) /\ session.nextSequence = issued + 1) => NumbersAreIds(s)
      /\ \A j \in 1..Len(s.events) :
           s.events[j].id < session.nextSequence =>
             \E i \in 1..Len(session.events) : s.events[j] = session.events[i]
  <2>1. PICK s0 : s0 = session
    OBVIOUS
  <2> QED
    BY <1>3, <1>6, <1>7, <2>1, EnqueuedIs
<1>9. mark \in Nat /\ mark < s.nextSequence
  <2>1. s.nextSequence \in Nat /\ s.deliveredEventId \in Nat /\ s.deliveredEventId < s.nextSequence
    BY <1>8, EventTypes DEF WellNumbered
  <2>2. s.nextSequence - 1 \in Nat
    BY <2>1
  <2> QED
    BY <1>4, <1>8, <2>1, <2>2
<1>10. /\ session' \in Session /\ session'.events = s.events
       /\ session'.nextSequence = s.nextSequence /\ session'.deliveredEventId = mark
  BY <1>6, <1>8, <1>9 DEF Session
<1>11. WellNumbered(session')
  BY <1>8, <1>9, <1>10, SameNumbers
<1>12. woken \subseteq followers /\ woken \ lost \in SUBSET Client
       /\ \A d \in followers \ woken : After(s, lastId[d]) = <<>>
  BY <1>5, <1>7 DEF Woken
<1>13. /\ received' \in [Client -> Seq(Nat)] /\ lastId' \in [Client -> Nat]
       /\ \A d \in woken \ lost : After(s, lastId'[d]) = <<>>
       /\ \A d \in Client \ (woken \ lost) : lastId'[d] = lastId[d] /\ received'[d] = received[d]
  BY <1>6, <1>7, <1>8, <1>12, SendTypes
<1>14. BrokerTypeOK'
  <2>1. issued' \in 0..MaxIssued
    BY <1>6, <1>7, McpBrokerAssumption
  <2>2. followers' \subseteq Client
    BY <1>6, <1>7
  <2> QED
    BY <1>6, <1>7, <1>8, <1>10, <1>13, <2>1, <2>2 DEF BrokerTypeOK
<1>15. ASSUME NothingTakenBack PROVE NothingTakenBack'
  <2>1. /\ session.nextSequence = issued + 1 /\ NumbersAreIds(session)
        /\ CopiesFit /\ CursorsFit
        /\ \A d \in Client : Complete(session.events, origin[d], lastId[d], received[d])
        /\ \A d \in followers : After(session, lastId[d]) = <<>>
    BY <1>15, NoGapIs DEF NothingTakenBack
  <2>2. NumbersAreIds(s) /\ s.nextSequence = issued' + 1 /\ issued' \in Nat
    BY <1>6, <1>7, <1>8, <2>1
  <2>3. ASSUME NEW d \in Client PROVE Ready(s, d, lastId[d])
    <3>1. lastId[d] \in Nat /\ lastId[d] <= issued /\ lastId[d] <= issued'
      BY <1>6, <1>7, <2>1 DEF CursorsFit
    <3>2. \A i \in 1..Len(received[d]) : received[d][i] <= lastId[d]
      BY <2>1 DEF CursorsFit
    <3>3. ASSUME NEW e \in Range(s.events), origin[d] < e.id, e.id <= lastId[d]
          PROVE  e.number \in Range(received[d])
      <4>1. PICK j \in 1..Len(s.events) : e = s.events[j]
        BY <1>8, EventTypes DEF Range
      <4>2. e.id \in Nat
        BY <1>8, <4>1, EventTypes
      <4>3. e.id < session.nextSequence
        BY <1>7, <2>1, <3>1, <3>3, <4>2
      <4>4. e \in Range(session.events)
        <5>1. PICK i \in 1..Len(session.events) : e = session.events[i]
          BY <1>8, <4>1, <4>3
        <5>2. DOMAIN session.events = 1..Len(session.events)
          BY <1>7, EventTypes
        <5> QED
          BY <5>1, <5>2 DEF Range
      <4> QED
        BY <2>1, <3>3, <4>4 DEF Complete
    <3>4. Complete(s.events, origin'[d], lastId[d], received[d])
      BY <1>6, <2>1, <3>3 DEF Complete
    <3> QED
      BY <3>1, <3>2, <3>4 DEF Ready
  <2>4. /\ CursorsFit'
        /\ \A d \in Client : Complete(s.events, origin'[d], lastId'[d], received'[d])
    <3>1. /\ \A d \in woken \ lost : Ready(s, d, lastId[d])
          /\ \A d \in Client \ (woken \ lost) : Ready(s, d, lastId[d])
      BY <1>12, <2>3
    <3>2. origin' \in [Client -> Nat]
      BY <1>6, <1>7
    <3> QED
      BY <1>6, <1>7, <1>8, <1>12, <2>2, <3>1, <3>2, SendKeeps
  <2>5. (\A d \in Client : NoGap(d))'
    BY <1>10, <2>4 DEF NoGap, Complete
  <2>6. (\A d \in followers : After(session, lastId[d]) = <<>>)'
    <3> SUFFICES ASSUME NEW d \in followers' PROVE After(session', lastId'[d]) = <<>>
      OBVIOUS
    <3>1. After(session', lastId'[d]) = After(s, lastId'[d])
      BY <1>10 DEF After
    <3>2. d \in followers /\ d \notin lost /\ d \in Client
      BY <1>6, <1>7
    <3>3. CASE d \in woken
      BY <1>13, <3>1, <3>2, <3>3
    <3>4. CASE d \notin woken
      BY <1>12, <1>13, <3>1, <3>2, <3>4
    <3> QED
      BY <3>3, <3>4
  <2>7. CopiesFit'
    <3> SUFFICES ASSUME NEW h \in Handler, pending'[h].step = "body"
                 PROVE  /\ pending'[h].copy.nextSequence <= session'.nextSequence
                        /\ pending'[h].copy.nextSequence # session'.nextSequence
      BY DEF CopiesFit
    <3>1. pending'[h] = pending[h] /\ pending[h] \in Body
      BY <1>6, <1>7 DEF BrokerTypeOK
    <3>2. pending[h].copy \in Session
      BY <3>1 DEF Body
    <3>3. pending[h].copy.nextSequence \in Nat
          /\ pending[h].copy.nextSequence <= session.nextSequence
      BY <2>1, <3>1, <3>2, EventTypes DEF CopiesFit
    <3> QED
      BY <1>6, <1>7, <1>8, <1>10, <3>1, <3>3
  <2>8. session'.nextSequence = issued' + 1 /\ NumbersAreIds(session')
    BY <1>10, <2>2 DEF NumbersAreIds
  <2> QED
    BY <2>4, <2>5, <2>6, <2>7, <2>8 DEF NothingTakenBack
<1> QED
  BY <1>6, <1>11, <1>14, <1>15, InvFrom
-----------------------------------------------------------------------------
LEMMA StepKeeps ==
  ASSUME BrokerInv, [BrokerNext]_brokerVars
  PROVE  BrokerInv'
<1>1. CASE UNCHANGED brokerVars
  <2>1. session \in Session /\ session.deliveredEventId < session.nextSequence
    BY DEF BrokerInv, BrokerTypeOK, WellNumbered
  <2> QED
    BY <1>1, <2>1, MarkKeeps DEF brokerVars
<1>2. CASE BrokerNext
  BY <1>2, InitializedKeeps, BeginSubscribeKeeps, EndSubscribeKeeps, NoBodyKeeps, NotifyKeeps,
     AttachKeeps, DisconnectKeeps, AttachOtherKeeps, EvictKeeps, DeleteKeeps DEF BrokerNext
<1> QED
  BY <1>1, <1>2

LEMMA Invariance == BrokerSpec => []BrokerInv
<1>1. BrokerInv /\ [BrokerNext]_brokerVars => BrokerInv'
  BY StepKeeps
<1> QED
  BY <1>1, Starts, PTL DEF BrokerSpec

\* The session of the broker and what waits for it keep their types, and the
\* history never outgrows MAX_EVENT_HISTORY.
THEOREM BrokerTypes == BrokerSpec => []BrokerTypeOK
<1>1. BrokerInv => BrokerTypeOK
  BY DEF BrokerInv
<1> QED
  BY <1>1, Invariance, PTL

\* README.md:166, Last-Event-ID replay/resume: no gap and no duplicate.
THEOREM BrokerResumes == BrokerSpec => []ResumeIsComplete
<1>1. BrokerInv => ResumeIsComplete
  BY DEF BrokerInv, NothingTakenBack, ResumeIsComplete
<1> QED
  BY <1>1, Invariance, PTL

\* enqueueFollowerBatch (mcp-broker.do.ts:302-318): an open stream is never behind.
THEOREM BrokerTellsFollowers == BrokerSpec => []FollowersAreCurrent
<1>1. BrokerInv => FollowersAreCurrent
  BY DEF BrokerInv, NothingTakenBack, FollowersAreCurrent
<1> QED
  BY <1>1, Invariance, PTL
=============================================================================
