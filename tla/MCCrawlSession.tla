--------------------------- MODULE MCCrawlSession ---------------------------
(***************************************************************************)
(* Small networks for CrawlSession.  The seed is given without services,   *)
(* the way Peer::new() makes it; gossip names its endpoint with services,  *)
(* so it is a different Peer at the same endpoint.  The peer of a          *)
(* connection has a version as well, which gossip never has.               *)
(***************************************************************************)
EXTENDS CrawlSession

MCAddr == {"a", "b", "c"}

\* The services of each peer follow its endpoint in its name, then its version.
MCPeer == {"a?", "a1", "a1v", "a2v", "b1", "b2v", "c1", "c1v"}

MCAddrOf == [p \in MCPeer |->
  CASE p \in {"a?", "a1", "a1v", "a2v"} -> "a"
    [] p \in {"b1", "b2v"} -> "b"
    [] OTHER -> "c"]

\* Endpoint b has other services than gossip says; the two connections to
\* endpoint a may result in the same peer or in different ones.
MCHandshaken == [x \in MCAddr |->
  CASE x = "a" -> {"a1v", "a2v"} [] x = "b" -> {"b2v"} [] OTHER -> {"c1v"}]

MCSeed == "a?"

\* The seed names two peers, which name each other and the seed.
MCGossip == [x \in MCAddr |->
  CASE x = "a" -> {{"b1"}, {"b1", "c1"}}
    [] x = "b" -> {{"a1", "c1"}}
    [] x = "c" -> {{"a1", "b1"}}]
=============================================================================
