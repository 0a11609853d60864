----------------------------- MODULE PongService -----------------------------
(***************************************************************************)
(* What a program that keeps a connection alive promises the peer: every   *)
(* ping is answered at most once, with the peer's own nonce, and in the    *)
(* order in which the pings came.  The nonce of ping number i is i.        *)
(***************************************************************************)
EXTENDS Naturals, Sequences

VARIABLES
  asked,  \* how many pings have been read
  pongs   \* the nonces of the pongs written

Init ==
  /\ asked = 0
  /\ pongs = <<>>

Ask ==
  /\ asked' = asked + 1
  /\ UNCHANGED pongs

Answer ==
  /\ Len(pongs) < asked
  /\ pongs' = Append(pongs, Len(pongs) + 1)
  /\ UNCHANGED asked

Next == Ask \/ Answer

Spec == Init /\ [][Next]_<<asked, pongs>>
=============================================================================
