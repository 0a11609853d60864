------------------------------ MODULE Handshake ------------------------------
(***************************************************************************)
(* The version handshake and feature negotiation of the connection crate   *)
(* (connection/src/connection): perform_handshake() of futures.rs with the *)
(* state machines of handshake.rs and state.rs, at the two ends of a       *)
(* connection.                                                             *)
(*                                                                         *)
(* The transport under a connection delivers messages in order, so each    *)
(* direction is the log of the messages written, sent[n], and the number   *)
(* of them the other end has read, cursor.  One step is one read with the  *)
(* handling of the message up to its first write, or one write: the two    *)
(* ends interleave at every await of perform_handshake().                  *)
(*                                                                         *)
(* An end in Foreign runs other software: it writes any messages in any    *)
(* order, at most MaxForeign of them.  Remote[n] = n describes a socket    *)
(* that is connected to itself.                                            *)
(***************************************************************************)
EXTENDS Naturals, Sequences, FiniteSetsExt, Functions

CONSTANTS
  Node,              \* the ends of the connection
  Remote,            \* the end at the other side of each end's socket
  Foreign,           \* the ends that do not run this code
  Process,           \* the process each end belongs to
  ProtocolVersion,   \* u32 versions an end may advertise
  Nonce,             \* values generate_nonce() may return
  Unknown,           \* PeerProtocolVersion::Unknown
  MaxForeign,        \* bound on what a foreign end writes
  Failures           \* TRUE: reads and writes may fail, callers may time out

ASSUME NodeAssumption ==
  /\ Remote \in [Node -> Node]
  /\ \A n \in Node : Remote[Remote[n]] = n
  /\ Foreign \subseteq Node
  /\ DOMAIN Process = Node
  /\ ProtocolVersion \subseteq Nat
  /\ Unknown \notin Nat \cup Nonce
  /\ MaxForeign \in Nat
  /\ Failures \in BOOLEAN

(***************************************************************************)
(* Protocol versions and features (peer.rs, configuration.rs, state.rs).   *)
(***************************************************************************)
MIN_PROTOCOL_VERSION == 70001

Feature == {"addr_v2", "send_headers", "wtxid_relay"}

\* ADDRV2_, SENDHEADERS_ and WTXID_RELAY_MIN_PROTOCOL_VERSION
FeatureMinVersion ==
  [f \in Feature |-> IF f = "send_headers" THEN 70012 ELSE 70016]

unwrap_or(version, default) == IF version = Unknown THEN default ELSE version

NegotiationState == {"NotNegotiated", "SentOnly", "ReceivedOnly", "Enabled"}

on_send(s) ==
  CASE s = "NotNegotiated" -> "SentOnly"
    [] s = "ReceivedOnly" -> "Enabled"
    [] OTHER -> s

\* Mutants: an offer of ours is forgotten when the remote's arrives; the
\* remote's offer alone enables the feature.
on_receive_forgets(s) ==
  IF s \in {"NotNegotiated", "SentOnly"} THEN "ReceivedOnly" ELSE s
on_receive_enables(s) == "Enabled"

on_receive(s) ==
  CASE s = "NotNegotiated" -> "ReceivedOnly"
    [] s = "SentOnly" -> "Enabled"
    [] OTHER -> s

(***************************************************************************)
(* Messages: a version, a verack, the message that offers a feature, and   *)
(* "Other" for every message the handshake does not react to.              *)
(***************************************************************************)
Version(v, k) == [type |-> "Version", version |-> v, nonce |-> k]
Verack == [type |-> "Verack"]
Offer(f) == [type |-> f]
Other == [type |-> "Other"]

Message ==
  [type : {"Version"}, version : ProtocolVersion \cup {MIN_PROTOCOL_VERSION}, nonce : Nonce]
    \cup [type : Feature \cup {"Verack", "Other"}]

-----------------------------------------------------------------------------
VARIABLES
  protocol_version,    \* each end's ConnectionConfiguration
  feature_preferences,
  state,               \* HandshakeState, with the ends of perform_handshake()
  our_nonce,
  peer,                \* whose services and version the Peer of a connection has
  todo,                \* what handle_version_message() has still to write
  effective_protocol_version,
  negotiation,         \* addr_v2, send_headers and wtxid_relay of ConnectionState
  sent,                \* all the messages each end has written
  cursor               \* how many of the remote's messages each end has read

configVars == <<protocol_version, feature_preferences>>
vars == <<protocol_version, feature_preferences, state, our_nonce, peer,
          todo, effective_protocol_version, negotiation, sent, cursor>>

HandshakeState == {"VersionSent", "VersionReceived", "VerackReceived", "Complete"}

\* perform_handshake() returned an error, or its caller dropped the connection
Gone == {"ConnectionLoop", "Failed"}

EndState == {"Created"} \cup HandshakeState \cup Gone

Own == Node \ Foreign

local_version(n) == unwrap_or(protocol_version[n], MIN_PROTOCOL_VERSION)

\* Connection::new().  peer[n] is the number of the remote's message that the
\* services and version were taken from; 0: they are as the caller gave them.
Init ==
  /\ protocol_version \in [Own -> ProtocolVersion \cup {Unknown}]
  /\ feature_preferences \in [Own -> SUBSET Feature]
  /\ state = [n \in Node |-> "Created"]
  /\ our_nonce = [n \in Own |-> Unknown]
  /\ peer = [n \in Node |-> 0]
  /\ todo = [n \in Node |-> <<>>]
  /\ effective_protocol_version = [n \in Node |-> Unknown]
  /\ negotiation = [n \in Node |-> [f \in Feature |-> "NotNegotiated"]]
  /\ sent = [n \in Node |-> <<>>]
  /\ cursor = [n \in Node |-> 0]

-----------------------------------------------------------------------------
(***************************************************************************)
(* perform_handshake().                                                    *)
(***************************************************************************)
Write(n, m) == sent' = [sent EXCEPT ![n] = Append(@, m)]

create_version_message(n, nonce) == Version(local_version(n), nonce)

\* generate_nonce() mixes the clock and the process id: it may return any value.
SendVersion(n, nonce) ==
  /\ state[n] = "Created"
  /\ our_nonce' = [our_nonce EXCEPT ![n] = nonce]
  /\ Write(n, create_version_message(n, nonce))
  /\ state' = [state EXCEPT ![n] = "VersionSent"]
  /\ UNCHANGED <<configVars, peer, todo, effective_protocol_version, negotiation, cursor>>

\* ConnectionReader::read(): the next message of the remote, which the loop of
\* perform_handshake(), or the application after it, asks for.
Incoming(n) == sent[Remote[n]][cursor[n] + 1]

\* Mutant: the reader takes one message too many.
Read_skips(n) ==
  /\ state[n] \in HandshakeState
  /\ todo[n] = <<>>
  /\ cursor[n] < Len(sent[Remote[n]])
  /\ cursor' = [cursor EXCEPT ![n] = @ + 2]

Read(n) ==
  /\ state[n] \in HandshakeState
  /\ todo[n] = <<>>
  /\ cursor[n] < Len(sent[Remote[n]])
  /\ cursor' = [cursor EXCEPT ![n] = @ + 1]

\* What send_negotiation_messages() writes, in its order.
\* Mutant: preferred features are offered whatever the effective version.
NegotiationMessages_ungated(n, effective_version) ==
  LET offers(f) == IF f \in feature_preferences[n] THEN <<Offer(f)>> ELSE <<>>
  IN  offers("addr_v2") \o offers("send_headers") \o offers("wtxid_relay")

NegotiationMessages(n, effective_version) ==
  LET offers(f) ==
        IF f \in feature_preferences[n] /\ effective_version >= FeatureMinVersion[f]
        THEN <<Offer(f)>> ELSE <<>>
  IN  offers("addr_v2") \o offers("send_headers") \o offers("wtxid_relay")

\* All that handle_version_message() writes.
\* Mutant: the verack goes first.
Reply_verack_first(n, effective_version) ==
  <<Verack>> \o NegotiationMessages(n, effective_version)

Reply(n, effective_version) == Append(NegotiationMessages(n, effective_version), Verack)

\* Mutant: only a duplicate version is compared.
IsLoop_late(n, version) == state[n] = "VersionReceived" /\ version.nonce = our_nonce[n]

IsLoop(n, version) == version.nonce = our_nonce[n]

\* Mutant: duplicates are handled again.
AwaitsVersion_always(s) == TRUE

AwaitsVersion(s) == s \in {"VersionSent", "VerackReceived"}

\* A version message: handle_version_message() up to its first write.  After
\* the handshake the message is left to the application.
ReadVersion(n) ==
  LET version == Incoming(n)
      effective_version == Min({local_version(n), version.version})
  IN
  /\ Read(n)
  /\ version.type = "Version"
  /\ \/ /\ state[n] # "Complete"
        /\ IsLoop(n, version)
        /\ state' = [state EXCEPT ![n] = "ConnectionLoop"]
        /\ UNCHANGED <<peer, todo, effective_protocol_version>>
     \/ /\ state[n] # "Complete"
        /\ ~IsLoop(n, version)
        /\ AwaitsVersion(state[n])
        /\ peer' = [peer EXCEPT ![n] = cursor[n] + 1]
        /\ effective_protocol_version' =
             [effective_protocol_version EXCEPT ![n] = effective_version]
        /\ todo' = [todo EXCEPT ![n] = Reply(n, effective_version)]
        /\ UNCHANGED state
     \/ /\ state[n] # "Complete" => ~IsLoop(n, version) /\ ~AwaitsVersion(state[n])
        /\ UNCHANGED <<state, peer, todo, effective_protocol_version>>
  /\ UNCHANGED <<configVars, our_nonce, negotiation, sent>>

\* The writes of handle_version_message(), each followed by the update of the
\* state that goes with it; the verack is the last and moves the handshake on.
WriteNext(n) ==
  /\ state[n] \in HandshakeState
  /\ todo[n] # <<>>
  /\ LET m == Head(todo[n])
     IN  /\ Write(n, m)
         /\ negotiation' = IF m.type \in Feature
                           THEN [negotiation EXCEPT ![n][m.type] = on_send(@)]
                           ELSE negotiation
         /\ state' = IF m.type # "Verack" THEN state
                     ELSE [state EXCEPT ![n] = IF @ = "VerackReceived" THEN "Complete"
                                                                       ELSE "VersionReceived"]
  /\ todo' = [todo EXCEPT ![n] = Tail(@)]
  /\ UNCHANGED <<configVars, our_nonce, peer, effective_protocol_version, cursor>>

\* Mutant: a verack completes the handshake whatever came before.
handle_verack_message_eager(s) == "Complete"

handle_verack_message(s) ==
  CASE s = "VersionSent" -> "VerackReceived"
    [] s = "VersionReceived" -> "Complete"
    [] OTHER -> s

ReadVerack(n) ==
  /\ Read(n)
  /\ Incoming(n).type = "Verack"
  /\ state' = [state EXCEPT ![n] = handle_verack_message(@)]
  /\ UNCHANGED <<configVars, our_nonce, peer, todo, effective_protocol_version, negotiation, sent>>

\* A feature's message is recorded by read() whenever it arrives.
ReadOffer(n) ==
  /\ Read(n)
  /\ Incoming(n).type \in Feature
  /\ negotiation' = [negotiation EXCEPT ![n][Incoming(n).type] = on_receive(@)]
  /\ UNCHANGED <<configVars, state, our_nonce, peer, todo, effective_protocol_version, sent>>

ReadOther(n) ==
  /\ Read(n)
  /\ Incoming(n).type = "Other"
  /\ UNCHANGED <<configVars, state, our_nonce, peer, todo, effective_protocol_version, negotiation, sent>>

\* The read or write under way fails, or the caller's timeout drops the future.
Abort(n) ==
  /\ Failures
  /\ state[n] \notin Gone
  /\ state' = [state EXCEPT ![n] = "Failed"]
  /\ todo' = [todo EXCEPT ![n] = <<>>]
  /\ UNCHANGED <<configVars, our_nonce, peer, effective_protocol_version, negotiation, sent, cursor>>

\* The remote has closed its socket and all it wrote has been read.
\* Mutant: the end of the stream is taken for "nothing yet".
ReadEof_waits(n) ==
  /\ FALSE
  /\ UNCHANGED vars

ReadEof(n) ==
  /\ state[n] \in HandshakeState
  /\ todo[n] = <<>>
  /\ state[Remote[n]] \in Gone
  /\ cursor[n] = Len(sent[Remote[n]])
  /\ state' = [state EXCEPT ![n] = "Failed"]
  /\ UNCHANGED <<configVars, our_nonce, peer, todo, effective_protocol_version, negotiation, sent, cursor>>

\* Other software, external to this repository.  It writes when the other end
\* has read everything: writing earlier makes no difference to that end.
ForeignWrite(n, m) ==
  /\ state[n] \notin Gone
  /\ Len(sent[n]) < MaxForeign
  /\ cursor[Remote[n]] = Len(sent[n])
  /\ Write(n, m)
  /\ UNCHANGED <<configVars, state, our_nonce, peer, todo, effective_protocol_version, negotiation, cursor>>

Handle(n) ==
  \/ ReadVersion(n) \/ ReadVerack(n) \/ ReadOffer(n) \/ ReadOther(n)
  \/ ReadEof(n)
  \/ WriteNext(n)

\* Both ends are done: nothing is left to read, or the socket is closed.
Idle ==
  /\ \A n \in Own : state[n] \in Gone \cup {"Complete"}
  /\ UNCHANGED vars

Next ==
  \/ \E n \in Own : (\E nonce \in Nonce : SendVersion(n, nonce)) \/ Handle(n)
  \/ \E n \in Node : Abort(n)
  \/ \E n \in Foreign, m \in Message : ForeignWrite(n, m)
  \/ Idle

Spec == Init /\ [][Next]_vars

\* perform_handshake() is one task that the runtime polls: when it can write
\* or has a message to read, it goes on.  Nothing obliges a failure to happen
\* or a foreign end to write.
Fairness ==
  \A n \in Own : WF_vars((\E nonce \in Nonce : SendVersion(n, nonce)) \/ Handle(n))

FairSpec == Spec /\ Fairness

-----------------------------------------------------------------------------
(***************************************************************************)
(* Properties.                                                             *)
(***************************************************************************)
\* The types of the messages an end has written, and of those it has read.
Written(n) == {m.type : m \in Range(sent[n])}
ReadBy(n) == {sent[Remote[n]][i].type : i \in 1..cursor[n]}

\* Both ends of n's socket run this code, and both handshakes have completed.
BothComplete(n) ==
  /\ {n, Remote[n]} \subseteq Own
  /\ state[n] = "Complete" /\ state[Remote[n]] = "Complete"

Mirror ==
  [s \in NegotiationState |-> CASE s = "SentOnly" -> "ReceivedOnly"
                                [] s = "ReceivedOnly" -> "SentOnly"
                                [] OTHER -> s]

\* The types of the variables; no end of ours reads what was not written.
TypeOK ==
  /\ protocol_version \in [Own -> ProtocolVersion \cup {Unknown}]
  /\ feature_preferences \in [Own -> SUBSET Feature]
  /\ state \in [Node -> EndState]
  /\ our_nonce \in [Own -> Nonce \cup {Unknown}]
  /\ peer \in [Node -> Nat]
  /\ todo \in [Node -> Seq(Message)]
  /\ effective_protocol_version \in
       [Node -> ProtocolVersion \cup {Unknown, MIN_PROTOCOL_VERSION}]
  /\ negotiation \in [Node -> [Feature -> NegotiationState]]
  /\ sent \in [Node -> Seq(Message)]
  /\ cursor \in [Node -> Nat]
  /\ \A n \in Own : cursor[n] <= Len(sent[Remote[n]])

\* When the handshakes of both ends have completed, the ends agree: the same
\* effective protocol version, and for every feature the state at one end is
\* the mirror image of the state at the other (ConnectionState of state.rs).
Agreement ==
  \A n \in Own : BothComplete(n) =>
    /\ effective_protocol_version[n] = effective_protocol_version[Remote[n]]
    /\ \A f \in Feature : negotiation[n][f] = Mirror[negotiation[Remote[n]][f]]

\* When both handshakes have completed, a feature is enabled exactly when both
\* ends prefer it and both versions support it (send_negotiation_messages()).
\* The thresholds are those of the code: sendheaders from 70012 on, where the list
\* of versions in peer.rs has "70013 - BIP 0130/BIP 0133, added sendheaders".
EnabledIffWanted ==
  \A n \in Own : BothComplete(n) =>
    \A f \in Feature :
      negotiation[n][f] = "Enabled" <=>
        \A k \in {n, Remote[n]} :
          f \in feature_preferences[k] /\ local_version(k) >= FeatureMinVersion[f]

\* Between two ends that run this code, what was negotiated is final once the
\* handshake of an end has completed: the verack comes after every offer, so no
\* message read later changes the connection's state.
SettledAtCompletion ==
  [][\A n \in Own : Remote[n] \in Own /\ state[n] = "Complete" =>
       /\ negotiation'[n] = negotiation[n]
       /\ effective_protocol_version'[n] = effective_protocol_version[n]]_vars

\* Whatever the remote sends, in whatever order, and at every moment: a feature
\* is enabled only if this end prefers and has offered it, the remote's offer
\* has been read, and the effective version supports it.
EnabledIsEarned ==
  \A n \in Own, f \in Feature : negotiation[n][f] = "Enabled" =>
    /\ f \in feature_preferences[n]
    /\ f \in Written(n)
    /\ f \in ReadBy(n)
    /\ effective_protocol_version[n] # Unknown
    /\ effective_protocol_version[n] >= FeatureMinVersion[f]

\* Whatever the remote sends, perform_handshake() writes its version first and
\* once, no message twice, and nothing after its verack: duplicated version
\* messages are not answered a second time, and the offers of features come before
\* the verack.  The documentation of perform_handshake() has them after it ("3.
\* Exchange verack messages.  4. Negotiate protocol features"), and so has one of
\* two places in state.rs; a remote that takes offers only before the verack
\* depends on the order of the code.
WritesInOrder ==
  \A n \in Own : \A i, j \in 1..Len(sent[n]) : i < j =>
    /\ sent[n][1].type = "Version"
    /\ sent[n][i].type # sent[n][j].type
    /\ sent[n][i].type # "Verack"

\* The handshake is complete exactly when a version and a verack of the remote
\* have been read, in either order, and answered with a verack of our own.
CompleteIffExchanged ==
  \A n \in Own : state[n] \in HandshakeState =>
    (state[n] = "Complete" <=>
       {"Version", "Verack"} \subseteq ReadBy(n) /\ "Verack" \in Written(n))

\* Two pieces of shared state, each behind its own lock, describe the remote:
\* the Peer and the effective version.  Both come from the first version message
\* that was read, and later ones change neither, so what connection.peer() tells
\* the crawler is what the connection was negotiated with.
FirstVersionCounts ==
  \A n \in Own :
    LET read == {i \in 1..cursor[n] : sent[Remote[n]][i].type = "Version"}
    IN  /\ effective_protocol_version[n] # Unknown <=> peer[n] # 0
        /\ peer[n] # 0 =>
             /\ peer[n] = Min(read)
             /\ effective_protocol_version[n] =
                  Min({local_version(n), sent[Remote[n]][peer[n]].version})
        /\ state[n] = "Complete" => peer[n] # 0

\* ConnectionError::ConnectionLoop: "Detected a connection loop (attempting to
\* connect to ourselves)".  No handshake completes between ends of one process.
LoopIsDetected ==
  \A n \in Own : Process[n] = Process[Remote[n]] => state[n] # "Complete"

\* What the nonces do achieve: between ends with equal nonces, which a socket
\* connected to itself has too, neither handshake completes, in whatever order
\* version and verack messages are read.
EqualNoncesNeverComplete ==
  \A n \in Own :
    /\ Remote[n] \in Own
    /\ our_nonce[n] # Unknown
    /\ our_nonce[n] = our_nonce[Remote[n]]
    => state[n] # "Complete"

\* Whatever fails, neither end waits for ever: its handshake completes, or fails,
\* or ends with ConnectionLoop, which it does only if the nonces are equal.
Settles ==
  \A n \in Own :
    <>(\/ state[n] \in {"Complete", "Failed"}
       \/ state[n] = "ConnectionLoop" /\ our_nonce[n] = our_nonce[Remote[n]])
=============================================================================
