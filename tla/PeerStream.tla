----------------------------- MODULE PeerStream -----------------------------
(***************************************************************************)
(* What Crawler::crawl() promises the holder of the receiver it returns    *)
(* (crawler/src/crawler.rs), in terms of the messages the holder sees.     *)
(*                                                                         *)
(* A NonListening message carries a Peer as the crawler learnt of it, a    *)
(* Listening message the Peer at the same endpoint with the services and   *)
(* the version of the handshake.  A Peer is known if it is the seed or an  *)
(* endpoint reported Listening earlier in the stream may have advertised   *)
(* it.  There are never more messages about an endpoint than known Peers   *)
(* of that endpoint, no known Peer is reported NonListening twice, and the *)
(* stream ends by itself, not before the endpoint of the seed has been     *)
(* reported, or the receiver is dropped.                                   *)
(***************************************************************************)
EXTENDS Naturals, Sequences, FiniteSets, Functions

CONSTANTS
  Peer,
  Addr,
  AddrOf,      \* the endpoint of each peer
  Seed,
  Advertised,  \* for each endpoint, the peers its answers may contain
  Handshaken   \* for each endpoint, the peers a handshake with it may make

VARIABLES
  stream,  \* the messages put into the result channel so far
  state    \* "receiving", "ended" or "dropped"

Message == [kind : {"Listening", "NonListening"}, peer : Peer]

\* The positions of the messages about endpoint a.
About(a) == {i \in DOMAIN stream : AddrOf[stream[i].peer] = a}

Known(p) ==
  \/ p = Seed
  \/ \E m \in Range(stream) : m.kind = "Listening" /\ p \in Advertised[AddrOf[m.peer]]

KnownAt(a) == {p \in Peer : AddrOf[p] = a /\ Known(p)}

Init ==
  /\ stream = << >>
  /\ state = "receiving"

Report(m) ==
  /\ state = "receiving"
  /\ Cardinality(About(AddrOf[m.peer])) < Cardinality(KnownAt(AddrOf[m.peer]))
  /\ m.kind = "Listening" => m.peer \in Handshaken[AddrOf[m.peer]]
  /\ m.kind = "NonListening" => Known(m.peer) /\ m \notin Range(stream)
  /\ stream' = Append(stream, m)
  /\ UNCHANGED state

End ==
  /\ state = "receiving"
  /\ About(AddrOf[Seed]) # {}
  /\ state' = "ended"
  /\ UNCHANGED stream

Drop ==
  /\ state = "receiving"
  /\ state' = "dropped"
  /\ UNCHANGED stream

Next ==
  \/ \E m \in Message : Report(m)
  \/ End
  \/ Drop

Spec == Init /\ [][Next]_<<stream, state>>
=============================================================================
