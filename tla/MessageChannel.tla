--------------------------- MODULE MessageChannel ---------------------------
(***************************************************************************)
(* What a transport promises the connection above it, in one direction     *)
(* (connection/src/transport): messages are dealt with in the order in     *)
(* which they were written, each one once and none left out.  A message    *)
(* that is not Valid, because it does not parse or carries another         *)
(* network's magic, never comes out.  A channel that resumes goes on with  *)
(* the message after it; one that does not is stuck with it for ever.      *)
(***************************************************************************)
EXTENDS Naturals, Sequences

CONSTANTS
  Message,
  Valid  \* the messages that can be delivered

VARIABLES
  resumes,
  written,
  delivered,
  refused,  \* the numbers of the messages refused
  passed    \* how many messages are dealt with

vars == <<resumes, written, delivered, refused, passed>>

Init ==
  /\ resumes \in BOOLEAN
  /\ written = <<>>
  /\ delivered = <<>>
  /\ refused = {}
  /\ passed = 0

Write(m) ==
  /\ written' = Append(written, m)
  /\ UNCHANGED <<resumes, delivered, refused, passed>>

Deliver ==
  /\ passed < Len(written)
  /\ written[passed + 1] \in Valid
  /\ delivered' = Append(delivered, written[passed + 1])
  /\ passed' = passed + 1
  /\ UNCHANGED <<resumes, written, refused>>

Refuse ==
  /\ passed < Len(written)
  /\ written[passed + 1] \notin Valid
  /\ refused' = refused \cup {passed + 1}
  /\ passed' = IF resumes THEN passed + 1 ELSE passed
  /\ UNCHANGED <<resumes, written, delivered>>

Next ==
  \/ \E m \in Message : Write(m)
  \/ Deliver
  \/ Refuse

Spec == Init /\ [][Next]_vars
=============================================================================
