---------------------- MODULE TransportNegotiationProofs ----------------------
(***************************************************************************)
(* Proofs about the negotiation of the transport, for every kind of        *)
(* network.                                                                *)
(*                                                                         *)
(* What the two ends think of a socket never meets in one action: the      *)
(* initiator decides by its policy and by how the v2 attempt went, the     *)
(* listener by bytes that arrived earlier.  The argument goes through      *)
(* mode, what is spoken on the socket: it is set once, when the socket is  *)
(* opened, and each end's transport is tied to it.                         *)
(***************************************************************************)
EXTENDS TransportNegotiation, TLAPS

\* The initiator: the socket it is at, the sockets it holds, what it speaks on
\* the last one, and that plaintext is spoken only where the policy allows it.
Outbound ==
  /\ out \in {"resolve", "tcp_v2"} => socket = 0
  /\ out = "tcp_v1" => socket \in {0, 1}
  /\ out = "v2_handshake" => socket = 1
  /\ out \in Ready => socket \in Socket
  /\ out \in {"resolve", "tcp_v1", "tcp_v2"} => open = {}
  /\ out \in {"v2_handshake"} \cup Ready => open = {socket}
  /\ open \subseteq {socket}
  /\ out = "v1_ready" => mode[socket] = "v1"
  /\ out \in {"v2_handshake", "v2_ready"} => mode[socket] = "v2"
  /\ out \in {"tcp_v1", "v1_ready"} => policy_out = "V2Preferred"
  /\ out = "tcp_v1" /\ socket = 0 => SkipV2
  /\ out = "v1_ready" /\ socket = 1 => SkipV2
  /\ out = "tcp_v1" /\ socket = 1 => mode[1] = "v2"
  /\ out = "v1_ready" /\ socket = 2 => mode[1] = "v2"

\* The listener: nothing has happened on a socket that is not opened yet, and an
\* end that is ready has the transport that is spoken on its socket.
Inbound ==
  /\ \A s \in Socket : s > socket => mode[s] = "none" /\ inb[s] = "none" /\ arrived[s] = 0
  /\ \A s \in Socket : inb[s] # "none" => mode[s] # "none"
  /\ \A s \in Socket : inb[s] = "v1_ready" => mode[s] = "v1" /\ policy_in # "V2Required"
  /\ \A s \in Socket : inb[s] = "v2_ready" => mode[s] = "v2"

\* On a reliable network the first four bytes arrive as one segment, so that
\* what is detected on an open socket is what is spoken.
Detected ==
  network = "reliable" => DetectsProtocol /\ \A s \in Socket : arrived[s] \in {0, 4}

IInv == TypeOK /\ Outbound /\ Inbound /\ Detected

\* The invariant holds before connect() and accept() have begun.
LEMMA InitIInv == Init => IInv
<1> SUFFICES ASSUME Init
             PROVE  IInv
  OBVIOUS
<1> USE DEF Init
<1>1. TypeOK
  BY DEF TypeOK, OutState, InState
<1>2. Outbound
  BY DEF Outbound, Ready
<1>3. Inbound
  BY DEF Inbound
<1>4. Detected
  BY DEF Detected, DetectsProtocol
<1> QED
  BY <1>1, <1>2, <1>3, <1>4 DEF IInv

\* A step of connect() other than the opening of a socket.
LEMMA InitiatorKeeps ==
  ASSUME IInv, Resolve \/ OutV2Done \/ OutV2Failed \/ Cancel
  PROVE  IInv'
<1>1. UNCHANGED <<configVars, socket, mode, arrived, inb>>
  BY DEF Resolve, OutV2Done, OutV2Failed, V2Fails, Cancel
<1> USE <1>1 DEF IInv, configVars
<1>2. TypeOK'
  BY DEF TypeOK, OutState, Ready, Resolve, OutV2Done, OutV2Failed, V2Fails, AfterV2, Cancel
<1>3. Outbound'
  <2> USE DEF Outbound, Ready, SkipV2, peer_supports_v2
  <2>1. CASE Resolve
    BY <2>1 DEF Resolve, TypeOK, TransportPolicy
  <2>2. CASE OutV2Done
    BY <2>2 DEF OutV2Done, Socket
  <2>3. CASE OutV2Failed
    BY <2>3 DEF OutV2Failed, V2Fails, AfterV2, TypeOK, TransportPolicy
  <2>4. CASE Cancel
    BY <2>4 DEF Cancel
  <2> QED
    BY <2>1, <2>2, <2>3, <2>4
<1>4. Inbound'
  BY DEF Inbound
<1>5. Detected'
  <2>1. open' \subseteq open
    BY DEF Resolve, OutV2Done, OutV2Failed, Cancel
  <2> QED
    BY <2>1 DEF Detected, DetectsProtocol
<1> QED
  BY <1>2, <1>3, <1>4, <1>5

\* connect() opens a socket, on which nothing has happened yet.
LEMMA EstablishKeeps ==
  ASSUME IInv, ConnectV1 \/ ConnectV2
  PROVE  IInv'
<1>1. UNCHANGED <<configVars, arrived, inb>>
  BY DEF ConnectV1, ConnectV2, EstablishTcp
<1> USE <1>1 DEF IInv, configVars
<1>2. CASE out' = "error" /\ UNCHANGED <<socket, mode, open>>
  <2>1. TypeOK'
    BY <1>2 DEF TypeOK, OutState
  <2>2. Outbound'
    BY <1>2 DEF Outbound, Ready
  <2>3. Inbound'
    BY <1>2 DEF Inbound
  <2>4. Detected'
    BY <1>2 DEF Detected, DetectsProtocol
  <2> QED
    BY <2>1, <2>2, <2>3, <2>4
<1>3. ASSUME NEW version \in {"v1", "v2"},
             socket' = socket + 1,
             mode' = [mode EXCEPT ![socket + 1] = version],
             open' = open \cup {socket + 1},
             \/ out = "tcp_v1" /\ version = "v1" /\ out' = "v1_ready"
             \/ out = "tcp_v2" /\ version = "v2" /\ out' = "v2_handshake"
      PROVE  IInv'
  <2>1. socket \in {0, 1} /\ (out = "tcp_v2" => socket = 0) /\ open = {}
    BY <1>3 DEF Outbound
  <2>2. /\ socket' \in Socket
        /\ open' = {socket'}
        /\ mode \in [Socket -> {"none", "v1", "v2"}]
        /\ mode' \in [Socket -> {"none", "v1", "v2"}]
        /\ mode'[socket'] = version
        /\ \A s \in Socket : s # socket' => mode'[s] = mode[s]
    BY <1>3, <2>1 DEF TypeOK, Socket
  <2>3. TypeOK'
    BY <1>3, <2>2 DEF TypeOK, OutState, Ready, Socket
  <2>4. Outbound'
    <3>1. mode'[1] = IF socket = 0 THEN version ELSE mode[1]
      BY <1>3, <2>1, <2>2 DEF Socket
    <3> QED
      BY <1>3, <2>1, <2>2, <3>1 DEF Outbound, Ready, SkipV2, peer_supports_v2
  <2>5. inb[socket'] = "none" /\ arrived[socket'] = 0
    BY <1>3, <2>1, <2>2 DEF Inbound
  <2>6. Inbound'
    BY <1>3, <2>1, <2>2, <2>5 DEF Inbound, Socket
  <2>7. Detected'
    BY <2>2, <2>5 DEF Detected, DetectsProtocol
  <2> QED
    BY <2>3, <2>4, <2>6, <2>7
<1> QED
  BY <1>2, <1>3 DEF ConnectV1, ConnectV2, EstablishTcp

\* Bytes arrive, all four at once on a reliable network.
LEMMA ArriveKeeps ==
  ASSUME IInv, NEW s \in Socket, Arrive(s)
  PROVE  IInv'
<1>1. /\ UNCHANGED <<configVars, out, socket, mode, open, inb>>
      /\ mode[s] # "none"
  BY DEF Arrive
<1>2. PICK n \in 0..4 : /\ arrived' = [arrived EXCEPT ![s] = n]
                        /\ network = "reliable" => n = 4
  <2>1. arrived[s] \in 0..4
    BY DEF IInv, TypeOK
  <2>2. PICK n \in (IF Segmented THEN arrived[s] + 1 ELSE 4)..4 :
               arrived' = [arrived EXCEPT ![s] = n]
    BY Zenon DEF Arrive
  <2>3. CASE Segmented
    <3>1. n \in 0..4
      BY <2>1, <2>2, <2>3
    <3> QED
      BY Zenon, <2>2, <2>3, <3>1 DEF Segmented
  <2>4. CASE ~Segmented
    <3>1. n = 4 /\ n \in 0..4
      BY <2>2, <2>4
    <3> QED
      BY Zenon, <2>2, <3>1
  <2> QED
    BY Zenon, <2>3, <2>4
<1> USE <1>1 DEF IInv, configVars
<1>3. TypeOK'
  BY <1>2 DEF TypeOK
<1>4. Outbound'
  BY DEF Outbound, SkipV2, peer_supports_v2
<1>5. Inbound'
  <2>1. ~(s > socket)
    BY DEF Inbound
  <2>2. \A x \in Socket : x # s => arrived'[x] = arrived[x]
    BY <1>2 DEF TypeOK
  <2> QED
    BY <2>1, <2>2 DEF Inbound
<1>6. Detected'
  BY <1>2 DEF Detected, DetectsProtocol, TypeOK
<1> QED
  BY <1>3, <1>4, <1>5, <1>6

\* A step of accept() moves one end to a state that what is spoken on its socket
\* and the policy allow.
LEMMA ResponderFrame ==
  ASSUME IInv, NEW s \in Socket, Responder(s)
  PROVE  /\ UNCHANGED <<configVars, out, socket, mode, open, arrived>>
         /\ inb' \in [Socket -> InState]
         /\ \A x \in Socket : x # s => inb'[x] = inb[x]
         /\ inb'[s] # "none" /\ mode[s] # "none"
         /\ inb'[s] = "v1_ready" => mode[s] = "v1" /\ policy_in # "V2Required"
         /\ inb'[s] = "v2_ready" => mode[s] = "v2"
         /\ inb'[s] = "v2_handshake" =>
              s \notin open \/ (~(arrived[s] >= 4 /\ mode[s] = "v1") /\ arrived[s] > 0)
<1>1. inb \in [Socket -> InState] /\ (inb[s] # "none" => mode[s] # "none")
  BY DEF IInv, TypeOK, Inbound
<1> USE <1>1 DEF InState, Ready
<1>2. CASE Accept(s)
  BY <1>2 DEF Accept
<1>3. CASE Peek(s)
  <2> DEFINE to == IF ~IsMagic(s) THEN "v2_handshake"
                   ELSE IF policy_in = "V2Required" THEN "v2_required" ELSE "v1_ready"
  <2>1. /\ UNCHANGED <<configVars, out, socket, mode, open, arrived>>
        /\ inb[s] = "peek" /\ (arrived[s] > 0 \/ s \notin open)
        /\ inb' = [inb EXCEPT ![s] = to]
    BY Zenon, <1>3 DEF Peek
  <2>2. /\ to \in {"v1_ready", "v2_handshake", "v2_required"}
        /\ to = "v1_ready" => IsMagic(s) /\ policy_in # "V2Required"
        /\ to = "v2_handshake" => ~IsMagic(s)
    BY Zenon
  <2> HIDE DEF to
  <2>3. /\ inb' \in [Socket -> InState] /\ inb'[s] = to
        /\ \A x \in Socket : x # s => inb'[x] = inb[x]
    BY <2>1, <2>2
  <2>4. mode[s] # "none"
    BY <1>1, <2>1
  <2>5. inb'[s] \notin {"none", "v2_ready"}
    BY Zenon, <2>2, <2>3
  <2>6. inb'[s] = "v1_ready" => mode[s] = "v1" /\ policy_in # "V2Required"
    BY Zenon, <2>2, <2>3 DEF IsMagic
  <2>7. inb'[s] = "v2_handshake" =>
          s \notin open \/ (~(arrived[s] >= 4 /\ mode[s] = "v1") /\ arrived[s] > 0)
    BY Zenon, <2>1, <2>2, <2>3 DEF IsMagic
  <2> QED
    BY Zenon, <2>1, <2>3, <2>4, <2>5, <2>6, <2>7
<1>4. CASE PeekFailed(s)
  BY <1>4 DEF PeekFailed
<1>5. CASE InV2Done(s)
  BY <1>5 DEF InV2Done
<1>6. CASE InV2Failed(s)
  BY <1>6 DEF InV2Failed
<1> QED
  BY Zenon, <1>2, <1>3, <1>4, <1>5, <1>6 DEF Responder

\* A step of accept() keeps the invariant.
LEMMA ResponderKeeps ==
  ASSUME IInv, NEW s \in Socket, Responder(s)
  PROVE  IInv'
<1>1. /\ UNCHANGED <<configVars, out, socket, mode, open, arrived>>
      /\ inb' \in [Socket -> InState]
      /\ \A x \in Socket : x # s => inb'[x] = inb[x]
      /\ inb'[s] # "none" /\ mode[s] # "none"
      /\ inb'[s] = "v1_ready" => mode[s] = "v1" /\ policy_in # "V2Required"
      /\ inb'[s] = "v2_ready" => mode[s] = "v2"
      /\ inb'[s] = "v2_handshake" =>
           s \notin open \/ (~(arrived[s] >= 4 /\ mode[s] = "v1") /\ arrived[s] > 0)
  BY Zenon, ResponderFrame
<1> USE <1>1 DEF IInv, configVars
<1>2. TypeOK'
  BY DEF TypeOK
<1>3. Outbound'
  BY DEF Outbound, SkipV2, peer_supports_v2
<1>4. Inbound'
  BY DEF Inbound
<1>5. Detected'
  <2> SUFFICES ASSUME network = "reliable"
               PROVE  DetectsProtocol'
    BY DEF Detected
  <2>1. arrived[s] \in {0, 4} /\ mode[s] \in {"v1", "v2"}
    BY DEF Detected, TypeOK
  <2>2. inb'[s] = "v2_handshake" /\ s \in open => mode[s] = "v2"
    BY <2>1
  <2> QED
    BY <2>2 DEF Detected, DetectsProtocol
<1> QED
  BY <1>2, <1>3, <1>4, <1>5

\* IInv is inductive.
THEOREM Inductive == Spec => []IInv
<1>1. IInv /\ [Next]_vars => IInv'
  <2> SUFFICES ASSUME IInv, [Next]_vars
               PROVE  IInv'
    OBVIOUS
  <2>1. CASE UNCHANGED vars
    BY <2>1 DEF IInv, TypeOK, Outbound, Inbound, Detected, DetectsProtocol, SkipV2,
                peer_supports_v2, vars, configVars
  <2>2. CASE Initiator
    BY Zenon, <2>2, InitiatorKeeps, EstablishKeeps DEF Initiator
  <2>3. ASSUME NEW s \in Socket, Arrive(s) \/ Responder(s)
        PROVE  IInv'
    BY Zenon, <2>3, ArriveKeeps, ResponderKeeps
  <2> QED
    BY Zenon, <2>1, <2>2, <2>3 DEF Next, Settled
<1> QED
  BY <1>1, InitIInv, PTL DEF Spec

(***************************************************************************)
(* The theorems.                                                           *)
(***************************************************************************)
\* The types of the variables, and with them: connect() never opens a third
\* socket.
THEOREM TypeCorrect == Spec => []TypeOK
BY Inductive, PTL DEF IInv

\* Two ends of a socket that both have a transport have the same one, however
\* the segments were cut and whatever failed before.
THEOREM EndsAgree == Spec => []TransportsAgree
<1>1. IInv => TransportsAgree
  BY DEF IInv, Outbound, Inbound, TransportsAgree, Ready
<1> QED
  BY <1>1, Inductive, PTL

\* A policy of V2Required at either end rules plaintext out.
THEOREM RequiredIsKept == Spec => []RequiredMeansV2
<1>1. IInv => RequiredMeansV2
  BY DEF IInv, Outbound, Inbound, RequiredMeansV2, Ready
<1> QED
  BY <1>1, Inductive, PTL

\* A failed v2 attempt leaves no connection behind.
THEOREM NoSocketIsLeft == Spec => []OneSocket
<1>1. IInv => OneSocket
  BY DEF IInv, Outbound, OneSocket
<1> QED
  BY <1>1, Inductive, PTL

\* connect() speaks v1 only after a v2 attempt of its own, on a socket of its
\* own, unless the peer is known not to advertise P2P_V2 and the policy allows
\* v1.
V2IsTriedFirst ==
  out = "v1_ready" => SkipV2 \/ (socket = 2 /\ mode[1] = "v2")

\* No failure and no order of the steps leads connect() to v1 directly.
THEOREM NoSilentDowngrade == Spec => []V2IsTriedFirst
<1>1. IInv => V2IsTriedFirst
  BY DEF IInv, Outbound, V2IsTriedFirst, Ready, Socket
<1> QED
  BY <1>1, Inductive, PTL

\* If the network never cuts the first segment, accept() detects v1 and v2 as
\* its comment says: the short read is the only way to DetectsProtocol's
\* violation.
THEOREM ReliableDetection == Spec => [](network = "reliable" => DetectsProtocol)
BY Inductive, PTL DEF IInv, Detected
=============================================================================
