------------------------------ MODULE EventStream ------------------------------
(***************************************************************************)
(* What the readers of an MCP session may rely on, whichever store keeps   *)
(* the session: the notifications have one order, and a reader is sent     *)
(* stretches of it that follow what it was sent before.                    *)
(***************************************************************************)
EXTENDS Naturals, Sequences

CONSTANTS
  Client,       \* readers of the session
  History       \* how many notifications are kept for those that come late

VARIABLES
  log,          \* the notifications of the session
  origin,       \* Client -> the notification its first stream began after
  received      \* Client -> the events it was sent: [id, uri]

streamVars == <<log, origin, received>>

Start ==
  /\ log = <<>>
  /\ origin = [c \in Client |-> 0]
  /\ received = [c \in Client |-> <<>>]

Publish ==
  /\ \E n \in 1..Len(log') : log = SubSeq(log', 1, Len(log') - n)
  /\ UNCHANGED <<origin, received>>

Position(c, o) == IF received[c] = <<>> THEN o ELSE received[c][Len(received[c])].id

\* The events from one id to another.
Stretch(from, to) == [i \in 1..(to + 1 - from) |-> [id |-> from + i - 1, uri |-> log[from + i - 1]]]

\* Only what is too old to be kept is ever left out.
Send(c, o) ==
  \E from, to \in 1..Len(log) :
    /\ Position(c, o) < from
    /\ from - 1 = Position(c, o) \/ from - 1 + History <= Len(log)
    /\ received' = [received EXCEPT ![c] = @ \o Stretch(from, to)]

\* A reader that was sent nothing yet may begin anywhere.
Read(c) ==
  \E o \in 0..Len(log) :
    /\ o = origin[c] \/ received[c] = <<>>
    /\ origin' = [origin EXCEPT ![c] = o]
    /\ Send(c, o) \/ UNCHANGED received
    /\ UNCHANGED log

StreamNext == Publish \/ \E c \in Client : Read(c)

StreamSpec == Start /\ [][StreamNext]_streamVars
=============================================================================
