------------------------ MODULE TransportNegotiation ------------------------
(***************************************************************************)
(* How a TCP connection gets its transport (connection/src/connection/     *)
(* tcp.rs): connect() at the initiator, which tries v2 and may fall back   *)
(* to v1 on a second socket, and accept() at the listener, which tells v1  *)
(* from v2 by the first bytes that have arrived.                           *)
(*                                                                         *)
(* The listener runs this code, or is other software that knows v1 only    *)
(* and closes a socket on which v2 bytes arrive.  The v2 handshake itself  *)
(* (the bip324 crate) is external: it can succeed only between two ends    *)
(* that both run it, and it fails at each end on its own.                  *)
(***************************************************************************)
EXTENDS Naturals

CONSTANT Network  \* the kinds of network considered

ASSUME NetworkAssumption == Network \subseteq {"reliable", "segmenting", "failing"}

Socket == 1..2

VARIABLES
  network,     \* what the network may do to the two ends
  policy_out,  \* TransportPolicy of the initiator
  policy_in,   \* TransportPolicy of the listener
  services,    \* the initiator's PeerServices: what it believes of the listener
  address,     \* whether the address is one TCP can connect to
  listener,    \* the software of the listener
  out,         \* where connect() is
  socket,      \* the last socket the initiator has opened
  mode,        \* what the initiator speaks on each socket
  open,        \* the sockets the initiator holds open
  arrived,     \* bytes that have arrived at the listener, counted up to 4
  inb          \* where the accept() of each socket is

configVars == <<network, policy_out, policy_in, services, address, listener>>
vars == <<configVars, out, socket, mode, open, arrived, inb>>

\* Any I/O may fail, and connect() be cancelled, at any time.
Failures == network = "failing"

\* The first segment of a stream may have fewer than 4 bytes.
Segmented == network # "reliable"

TransportPolicy == {"V2Required", "V2Preferred"}

Ready == {"v1_ready", "v2_ready"}

OutState ==
  {"resolve", "tcp_v1", "tcp_v2", "v2_handshake", "error", "v2_required"} \cup Ready

\* "io_error" is a failure before, "error" one in, the v2 handshake.
InState ==
  {"none", "peek", "v2_handshake", "io_error", "error", "v2_required"} \cup Ready

Init ==
  /\ network \in Network
  /\ policy_out \in TransportPolicy
  /\ policy_in \in TransportPolicy
  /\ services \in {"unknown", "p2p_v2", "no_p2p_v2"}
  /\ address \in {"ip", "other"}
  /\ listener \in {"own", "v1_only"}
  /\ out = "resolve"
  /\ socket = 0
  /\ mode = [s \in Socket |-> "none"]
  /\ open = {}
  /\ arrived = [s \in Socket |-> 0]
  /\ inb = [s \in Socket |-> "none"]

(***************************************************************************)
(* connect().                                                              *)
(***************************************************************************)
peer_supports_v2 == services # "no_p2p_v2"

\* v2 is skipped only if v1 is allowed and the peer does not advertise v2.
SkipV2 == ~peer_supports_v2 /\ policy_out = "V2Preferred"

Resolve ==
  /\ out = "resolve"
  /\ out' = IF address = "other" THEN "error"
            ELSE IF SkipV2 THEN "tcp_v1" ELSE "tcp_v2"
  /\ UNCHANGED <<configVars, socket, mode, open, arrived, inb>>

\* establish_tcp_connection(), for the v2 attempt or for v1.
EstablishTcp(version, next) ==
  /\ \/ /\ socket' = socket + 1
        /\ mode' = [mode EXCEPT ![socket + 1] = version]
        /\ open' = open \cup {socket + 1}
        /\ out' = next
     \/ /\ Failures
        /\ out' = "error"
        /\ UNCHANGED <<socket, mode, open>>
  /\ UNCHANGED <<configVars, arrived, inb>>

ConnectV2 == out = "tcp_v2" /\ EstablishTcp("v2", "v2_handshake")
ConnectV1 == out = "tcp_v1" /\ EstablishTcp("v1", "v1_ready")

\* The end of Protocol::new() needs what the listener writes in its handshake,
\* not that the listener finishes it.
OutV2Done ==
  /\ out = "v2_handshake"
  /\ inb[socket] \in {"v2_handshake", "v2_ready", "error"}
  /\ out' = "v2_ready"
  /\ UNCHANGED <<configVars, socket, mode, open, arrived, inb>>

V2Fails ==
  /\ out = "v2_handshake"
  /\ Failures \/ listener = "v1_only" \/ inb[socket] \in {"io_error", "error"}
  /\ UNCHANGED <<configVars, socket, mode, arrived, inb>>

AfterV2 == IF policy_out = "V2Required" THEN "v2_required" ELSE "tcp_v1"

\* Mutants: v1 whatever the policy; the first socket is kept open; v1 on the
\* first socket; v2 once more; no fallback.
OutV2Failed_always_falls_back ==
  V2Fails /\ open' = open \ {socket} /\ out' = "tcp_v1"
OutV2Failed_keeps_socket ==
  V2Fails /\ open' = open /\ out' = AfterV2
OutV2Failed_same_socket ==
  /\ V2Fails
  /\ open' = open
  /\ out' = IF policy_out = "V2Required" THEN "v2_required" ELSE "v1_ready"
OutV2Failed_retries ==
  V2Fails /\ open' = open \ {socket} /\ out' = "tcp_v2"
OutV2Failed_gives_up ==
  V2Fails /\ open' = open \ {socket} /\ out' = "v2_required"

\* Protocol::new() owns the halves of the stream, so the socket is closed when
\* it fails, and the fallback needs a fresh one.
OutV2Failed == V2Fails /\ open' = open \ {socket} /\ out' = AfterV2

\* The crawler's timeout drops connect(), and the socket with it.
Cancel ==
  /\ Failures
  /\ out \in {"tcp_v1", "tcp_v2", "v2_handshake"}
  /\ out' = "error"
  /\ open' = {}
  /\ UNCHANGED <<configVars, socket, mode, arrived, inb>>

Initiator ==
  \/ Resolve
  \/ ConnectV2
  \/ ConnectV1
  \/ OutV2Done
  \/ OutV2Failed
  \/ Cancel

(***************************************************************************)
(* The network.                                                            *)
(***************************************************************************)
\* Bytes arrive: those of the v2 handshake, or those of the version message
\* that is written once the v1 transport is there.
Arrive(s) ==
  /\ mode[s] = "v2" \/ (mode[s] = "v1" /\ out = "v1_ready")
  /\ s \in open
  /\ arrived[s] < 4
  /\ \E n \in (IF Segmented THEN arrived[s] + 1 ELSE 4)..4 :
       arrived' = [arrived EXCEPT ![s] = n]
  /\ UNCHANGED <<configVars, out, socket, mode, open, inb>>

(***************************************************************************)
(* accept(), once for each socket.                                         *)
(***************************************************************************)
\* set_nodelay() and peer_addr() may fail.
Accept(s) ==
  /\ listener = "own"
  /\ mode[s] # "none"
  /\ inb[s] = "none"
  /\ \E to \in {"peek"} \cup (IF Failures THEN {"io_error"} ELSE {}) :
       inb' = [inb EXCEPT ![s] = to]
  /\ UNCHANGED <<configVars, out, socket, mode, open, arrived>>

\* The bytes peeked are the network magic.
IsMagic(s) == arrived[s] >= 4 /\ mode[s] = "v1"

\* fill_buf() returns what has arrived, at least a byte unless the socket was
\* closed.
Peek(s) ==
  /\ inb[s] = "peek"
  /\ arrived[s] > 0 \/ s \notin open
  /\ inb' = [inb EXCEPT ![s] = IF ~IsMagic(s) THEN "v2_handshake"
                               ELSE IF policy_in = "V2Required" THEN "v2_required"
                               ELSE "v1_ready"]
  /\ UNCHANGED <<configVars, out, socket, mode, open, arrived>>

PeekFailed(s) ==
  /\ Failures
  /\ inb[s] = "peek"
  /\ inb' = [inb EXCEPT ![s] = "io_error"]
  /\ UNCHANGED <<configVars, out, socket, mode, open, arrived>>

\* The initiator may have failed since it wrote what this end needs.
InV2Done(s) ==
  /\ inb[s] = "v2_handshake"
  /\ mode[s] = "v2" /\ arrived[s] > 0
  /\ inb' = [inb EXCEPT ![s] = "v2_ready"]
  /\ UNCHANGED <<configVars, out, socket, mode, open, arrived>>

\* TransportError::Encryption: the other end does not speak v2, has closed, or
\* the handshake fails otherwise.
InV2Failed(s) ==
  /\ inb[s] = "v2_handshake"
  /\ Failures \/ mode[s] = "v1" \/ s \notin open
  /\ inb' = [inb EXCEPT ![s] = "error"]
  /\ UNCHANGED <<configVars, out, socket, mode, open, arrived>>

Responder(s) ==
  Accept(s) \/ Peek(s) \/ PeekFailed(s) \/ InV2Done(s) \/ InV2Failed(s)

\* Nothing is left to do.
Settled ==
  /\ out \in Ready \cup {"error", "v2_required"}
  /\ UNCHANGED vars

Next ==
  \/ Initiator
  \/ \E s \in Socket : Arrive(s) \/ Responder(s)
  \/ Settled

Spec == Init /\ [][Next]_vars

\* Both tasks are polled, and bytes that are written arrive.
Fairness ==
  /\ WF_vars(Initiator)
  /\ \A s \in Socket : WF_vars(Arrive(s)) /\ WF_vars(Responder(s))

FairSpec == Spec /\ Fairness

(***************************************************************************)
(* Properties.                                                             *)
(***************************************************************************)
\* The types of the variables; connect() opens two sockets at most.
TypeOK ==
  /\ network \in Network
  /\ policy_out \in TransportPolicy /\ policy_in \in TransportPolicy
  /\ services \in {"unknown", "p2p_v2", "no_p2p_v2"}
  /\ address \in {"ip", "other"} /\ listener \in {"own", "v1_only"}
  /\ out \in OutState
  /\ socket \in 0..2
  /\ mode \in [Socket -> {"none", "v1", "v2"}]
  /\ open \in SUBSET Socket
  /\ arrived \in [Socket -> 0..4]
  /\ inb \in [Socket -> InState]

\* Both ends of a socket that have a transport have the same one.
TransportsAgree ==
  out \in Ready /\ inb[socket] \in Ready => inb[socket] = out

\* Neither end can be talked into plaintext: where both ends of a socket have a
\* transport and either policy is V2Required, it is v2, whatever the initiator
\* believed of the listener and however the attempt before went.
RequiredMeansV2 ==
  /\ out \in Ready /\ inb[socket] \in Ready
  /\ "V2Required" \in {policy_out, policy_in}
  => out = "v2_ready" /\ inb[socket] = "v2_ready"

\* The initiator holds one socket at most, the one it speaks on: a failed v2
\* attempt does not leave its connection behind.
OneSocket ==
  open \subseteq {socket} /\ (out \in Ready => open = {socket})

\* The peer is attempting v2 where the listener answers with v2: "detect whether
\* the peer is attempting a v2 (BIP324) or v1 (legacy) connection by checking
\* the first 4 bytes for network magic".
DetectsProtocol ==
  \A s \in Socket :
    inb[s] = "v2_handshake" /\ s \in open => mode[s] = "v2"

\* Whether the policies leave the two ends a transport in common.
Compatible ==
  /\ address = "ip"
  /\ listener = "v1_only" => policy_out = "V2Preferred"
  /\ listener = "own" => ~(SkipV2 /\ policy_in = "V2Required")

\* On a reliable network, if the policies are compatible, both ends get a
\* transport, also where the v2 attempt of connect() has to fail first.
Connects ==
  (network = "reliable" /\ Compatible) ~> (out \in Ready /\ (listener = "own" => inb[socket] = out))
=============================================================================
