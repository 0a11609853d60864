------------------------------ MODULE MCGetPeers ------------------------------
(***************************************************************************)
(* Instances of GetPeers for TLC: no time at all, less than one read       *)
(* timeout, and more than one but not a multiple of it.                    *)
(***************************************************************************)
EXTENDS GetPeers

MCPeerTimeout == {0, 1, 3}
=============================================================================
