--------------------------- MODULE HandshakeLogs -----------------------------
(***************************************************************************)
(* What the ends of the handshake write, for any versions, nonces and      *)
(* preferences, any ends, own or foreign, and any number of messages of a  *)
(* foreign end: the steps keep the types, logs only grow, and the log of   *)
(* an end of ours is its version and the reply to the remote's.            *)
(***************************************************************************)
EXTENDS Handshake, TLAPS

\* Versions that an end may advertise, or negotiate, are numbers.
LEMMA VersionsAreNumbers ==
  /\ ProtocolVersion \cup {MIN_PROTOCOL_VERSION} \subseteq Nat
  /\ Unknown \notin ProtocolVersion \cup {MIN_PROTOCOL_VERSION}
  /\ Unknown \notin Nonce
<1>1. ProtocolVersion \subseteq Nat /\ Unknown \notin Nat \cup Nonce
  BY NodeAssumption
<1>2. MIN_PROTOCOL_VERSION \in Nat
  BY DEF MIN_PROTOCOL_VERSION
<1> QED
  BY Zenon, <1>1, <1>2

\* The smaller of two versions (the min() of handle_version_message()).
LEMMA MinOfTwo ==
  ASSUME NEW a \in Nat, NEW b \in Nat
  PROVE  Min({a, b}) = IF a <= b THEN a ELSE b
<1> DEFINE m == IF a <= b THEN a ELSE b
<1>1. m \in {a, b} /\ \A y \in {a, b} : m <= y
  OBVIOUS
<1>2. \A x \in {a, b} : (\A y \in {a, b} : x <= y) => x = m
  OBVIOUS
<1> HIDE DEF m
<1>3. Min({a, b}) = m
  BY <1>1, <1>2 DEF Min
<1> QED
  BY <1>3 DEF m

\* The least element of a set of numbers is the one below all others.
LEMMA MinIs ==
  ASSUME NEW S \in SUBSET Nat, NEW a \in S, \A x \in S : a <= x
  PROVE  Min(S) = a
<1>1. \A x \in S : (\A y \in S : x <= y) => x = a
  OBVIOUS
<1> QED
  BY Zenon, <1>1 DEF Min

\* What handle_version_message() writes: offers of features that the end prefers
\* and the effective version supports, each once and none left out, and a verack
\* behind them.
LEMMA ReplyShape ==
  ASSUME NEW n \in Own, NEW v \in Nat
  PROVE  LET r == Reply(n, v) IN
         /\ r \in Seq(Message)
         /\ Len(r) \in Nat /\ Len(r) >= 1 /\ Len(r) <= 4
         /\ r[Len(r)] = Verack
         /\ \A i \in 1..(Len(r) - 1) :
              \E f \in Feature : /\ r[i] = Offer(f)
                                 /\ f \in feature_preferences[n]
                                 /\ v >= FeatureMinVersion[f]
         /\ \A f \in feature_preferences[n] \cap Feature :
              v >= FeatureMinVersion[f] => \E i \in 1..(Len(r) - 1) : r[i] = Offer(f)
         /\ \A i, j \in 1..Len(r) : i < j => r[i].type # r[j].type
<1> DEFINE wanted(f) == f \in feature_preferences[n] /\ v >= FeatureMinVersion[f]
           o(f) == IF wanted(f) THEN <<Offer(f)>> ELSE <<>>
           r == Reply(n, v)
<1>1. r = Append(o("addr_v2") \o o("send_headers") \o o("wtxid_relay"), Verack)
  BY DEF Reply, NegotiationMessages
<1>2. /\ Verack \in Message /\ Verack.type = "Verack"
      /\ \A f \in Feature : Offer(f) \in Message /\ Offer(f).type = f
  BY DEF Message, Verack, Offer, Feature
<1>3. Feature = {"addr_v2", "send_headers", "wtxid_relay"}
  BY DEF Feature
<1> DEFINE a == Offer("addr_v2")
           b == Offer("send_headers")
           c == Offer("wtxid_relay")
<1>4. a \in Message /\ b \in Message /\ c \in Message
  BY <1>2, <1>3
<1>5. \A f : (wanted(f) => o(f) = <<Offer(f)>>) /\ (~wanted(f) => o(f) = <<>>)
  OBVIOUS
<1>6. /\ \A i \in 1..(Len(r) - 1) : \E f \in Feature : r[i] = Offer(f) /\ wanted(f)
      /\ \A f \in Feature : wanted(f) => \E i \in 1..(Len(r) - 1) : r[i] = Offer(f)
      /\ r \in Seq(Message)
      /\ Len(r) \in Nat /\ Len(r) >= 1 /\ Len(r) <= 4
      /\ r[Len(r)] = Verack
      /\ \A i, j \in 1..Len(r) : i < j => r[i].type # r[j].type
  <2> HIDE DEF wanted, o, r
  <2>1. CASE wanted("addr_v2") /\ wanted("send_headers") /\ wanted("wtxid_relay")
    <3>1. r = Append(<<a>> \o <<b>> \o <<c>>, Verack)
      BY Zenon, <1>1, <1>5, <2>1
    <3>2. /\ r \in Seq(Message) /\ Len(r) = 4
          /\ r[1] = a /\ r[2] = b /\ r[3] = c /\ r[4] = Verack
      BY <3>1, <1>4, <1>2
    <3> QED
      BY <3>2, <1>2, <1>3, <2>1
  <2>2. CASE wanted("addr_v2") /\ wanted("send_headers") /\ ~wanted("wtxid_relay")
    <3>1. r = Append(<<a>> \o <<b>> \o <<>>, Verack)
      BY Zenon, <1>1, <1>5, <2>2
    <3>2. /\ r \in Seq(Message) /\ Len(r) = 3
          /\ r[1] = a /\ r[2] = b /\ r[3] = Verack
      BY <3>1, <1>4, <1>2
    <3> QED
      BY <3>2, <1>2, <1>3, <2>2
  <2>3. CASE wanted("addr_v2") /\ ~wanted("send_headers") /\ wanted("wtxid_relay")
    <3>1. r = Append(<<a>> \o <<>> \o <<c>>, Verack)
      BY Zenon, <1>1, <1>5, <2>3
    <3>2. /\ r \in Seq(Message) /\ Len(r) = 3
          /\ r[1] = a /\ r[2] = c /\ r[3] = Verack
      BY <3>1, <1>4, <1>2
    <3> QED
      BY <3>2, <1>2, <1>3, <2>3
  <2>4. CASE wanted("addr_v2") /\ ~wanted("send_headers") /\ ~wanted("wtxid_relay")
    <3>1. r = Append(<<a>> \o <<>> \o <<>>, Verack)
      BY <1>1, <1>5, <2>4
    <3>2. /\ r \in Seq(Message) /\ Len(r) = 2
          /\ r[1] = a /\ r[2] = Verack
      BY <3>1, <1>4, <1>2
    <3> QED
      BY <3>2, <1>2, <1>3, <2>4
  <2>5. CASE ~wanted("addr_v2") /\ wanted("send_headers") /\ wanted("wtxid_relay")
    <3>1. r = Append(<<>> \o <<b>> \o <<c>>, Verack)
      BY Zenon, <1>1, <1>5, <2>5
    <3>2. /\ r \in Seq(Message) /\ Len(r) = 3
          /\ r[1] = b /\ r[2] = c /\ r[3] = Verack
      BY <3>1, <1>4, <1>2
    <3> QED
      BY <3>2, <1>2, <1>3, <2>5
  <2>6. CASE ~wanted("addr_v2") /\ wanted("send_headers") /\ ~wanted("wtxid_relay")
    <3>1. r = Append(<<>> \o <<b>> \o <<>>, Verack)
      BY <1>1, <1>5, <2>6
    <3>2. /\ r \in Seq(Message) /\ Len(r) = 2
          /\ r[1] = b /\ r[2] = Verack
      BY <3>1, <1>4, <1>2
    <3> QED
      BY <3>2, <1>2, <1>3, <2>6
  <2>7. CASE ~wanted("addr_v2") /\ ~wanted("send_headers") /\ wanted("wtxid_relay")
    <3>1. r = Append(<<>> \o <<>> \o <<c>>, Verack)
      BY <1>1, <1>5, <2>7
    <3>2. /\ r \in Seq(Message) /\ Len(r) = 2
          /\ r[1] = c /\ r[2] = Verack
      BY <3>1, <1>4, <1>2
    <3> QED
      BY <3>2, <1>2, <1>3, <2>7
  <2>8. CASE ~wanted("addr_v2") /\ ~wanted("send_headers") /\ ~wanted("wtxid_relay")
    <3>1. r = Append(<<>> \o <<>> \o <<>>, Verack)
      BY Zenon, <1>1, <1>5, <2>8
    <3>2. /\ r \in Seq(Message) /\ Len(r) = 1
          /\ r[1] = Verack
      BY <3>1, <1>4, <1>2
    <3> QED
      BY <3>2, <1>2, <1>3, <2>8
  <2> QED
    BY <2>1, <2>2, <2>3, <2>4, <2>5, <2>6, <2>7, <2>8
<1> QED
  BY <1>6

(***************************************************************************)
(* Steps and what they leave alone.                                        *)
(***************************************************************************)
\* A step of end k.
Step(k) ==
  \/ k \in Own /\ ((\E nonce \in Nonce : SendVersion(k, nonce)) \/ Handle(k))
  \/ Abort(k)
  \/ k \in Foreign /\ \E m \in Message : ForeignWrite(k, m)

\* The variables of end n are as they were.
Same(n) ==
  /\ state'[n] = state[n] /\ peer'[n] = peer[n] /\ todo'[n] = todo[n]
  /\ effective_protocol_version'[n] = effective_protocol_version[n]
  /\ negotiation'[n] = negotiation[n]
  /\ sent'[n] = sent[n] /\ cursor'[n] = cursor[n]
  /\ n \in Own => our_nonce'[n] = our_nonce[n]

\* Every step that changes something is a step of one end.
LEMMA StepOfOne ==
  ASSUME [Next]_vars
  PROVE  UNCHANGED vars \/ \E k \in Node : Step(k)
<1> Own \subseteq Node /\ Foreign \subseteq Node
  BY NodeAssumption DEF Own
<1> QED
  BY DEF Next, Idle, Step

\* A step of one end changes no variable of the other end.
LEMMA OthersStay ==
  ASSUME TypeOK, NEW k \in Node, Step(k), NEW n \in Node, n # k
  PROVE  Same(n)
<1> USE DEF TypeOK, Same, Own
<1>1. ASSUME NEW nonce \in Nonce, SendVersion(k, nonce)
      PROVE  Same(n)
  BY <1>1 DEF SendVersion, Write
<1>2. CASE ReadVersion(k)
  BY <1>2 DEF ReadVersion, Read
<1>3. CASE ReadVerack(k) \/ ReadOffer(k) \/ ReadOther(k) \/ ReadEof(k)
  BY <1>3 DEF ReadVerack, ReadOffer, ReadOther, ReadEof, Read
<1>4. CASE WriteNext(k)
  BY <1>4 DEF WriteNext, Write
<1>5. CASE Abort(k)
  BY <1>5 DEF Abort
<1>6. ASSUME NEW m \in Message, ForeignWrite(k, m)
      PROVE  Same(n)
  BY <1>6 DEF ForeignWrite, Write
<1> QED
  BY Zenon, <1>1, <1>2, <1>3, <1>4, <1>5, <1>6 DEF Step, Handle

\* Configurations never change.
LEMMA ConfigStays ==
  ASSUME NEW k \in Node, Step(k)
  PROVE  protocol_version' = protocol_version /\ feature_preferences' = feature_preferences
BY Zenon DEF Step, Handle, SendVersion, ReadVersion, ReadVerack, ReadOffer, ReadOther, ReadEof,
       WriteNext, Abort, ForeignWrite, configVars

\* What an end advertises is a version.
LEMMA LocalVersion ==
  ASSUME TypeOK, NEW n \in Own
  PROVE  local_version(n) \in ProtocolVersion \cup {MIN_PROTOCOL_VERSION}
BY DEF TypeOK, local_version, unwrap_or

\* The effective version is a version, and the smaller one of the two.
LEMMA EffectiveVersion ==
  ASSUME TypeOK, NEW n \in Own, NEW v \in ProtocolVersion \cup {MIN_PROTOCOL_VERSION}
  PROVE  /\ Min({local_version(n), v}) \in ProtocolVersion \cup {MIN_PROTOCOL_VERSION}
         /\ Min({local_version(n), v}) \in Nat
         /\ local_version(n) \in Nat /\ v \in Nat
         /\ Min({local_version(n), v}) = IF local_version(n) <= v THEN local_version(n) ELSE v
<1>1. local_version(n) \in ProtocolVersion \cup {MIN_PROTOCOL_VERSION}
  BY LocalVersion
<1>2. local_version(n) \in Nat /\ v \in Nat
  BY <1>1, VersionsAreNumbers
<1> QED
  BY <1>1, <1>2, MinOfTwo

\* The first of a sequence of messages, and what is left without it.
LEMMA FirstAndRest ==
  ASSUME NEW q \in Seq(Message), q # <<>>
  PROVE  /\ Head(q) \in Message /\ Head(q) = q[1] /\ Len(q) >= 1
         /\ Tail(q) \in Seq(Message) /\ Len(Tail(q)) = Len(q) - 1
         /\ \A i \in 1..Len(Tail(q)) : Tail(q)[i] = q[i + 1]
OBVIOUS

\* A write puts one message at the end of one log.
LEMMA WriteLog ==
  ASSUME TypeOK, NEW k \in Node, NEW m \in Message, Write(k, m)
  PROVE  /\ sent' \in [Node -> Seq(Message)]
         /\ \A n \in Node : n # k => sent'[n] = sent[n]
         /\ sent'[k] = Append(sent[k], m)
         /\ Len(sent'[k]) = Len(sent[k]) + 1
         /\ sent'[k][Len(sent[k]) + 1] = m
         /\ \A i \in 1..Len(sent[k]) : sent'[k][i] = sent[k][i]
         /\ \A n \in Own : cursor[n] <= Len(sent'[Remote[n]])
<1>1. sent \in [Node -> Seq(Message)]
  BY DEF TypeOK
<1>2. sent' = [sent EXCEPT ![k] = Append(@, m)]
  BY DEF Write
<1>3. sent'[k] = Append(sent[k], m) /\ \A n \in Node : n # k => sent'[n] = sent[n]
  BY <1>1, <1>2
<1>4. /\ Append(sent[k], m) \in Seq(Message)
      /\ Len(Append(sent[k], m)) = Len(sent[k]) + 1
      /\ Append(sent[k], m)[Len(sent[k]) + 1] = m
      /\ \A i \in 1..Len(sent[k]) : Append(sent[k], m)[i] = sent[k][i]
      /\ Len(sent[k]) \in Nat
  BY <1>1
<1>5. \A n \in Node : Len(sent[n]) \in Nat /\ Len(sent[n]) <= Len(sent'[n])
  BY <1>1, <1>3, <1>4
<1>6. \A n \in Own : cursor[n] <= Len(sent'[Remote[n]])
  <2> SUFFICES ASSUME NEW n \in Own
               PROVE  cursor[n] <= Len(sent'[Remote[n]])
    OBVIOUS
  <2>1. Remote[n] \in Node /\ n \in Node
    BY NodeAssumption DEF Own
  <2>2. cursor[n] \in Nat /\ cursor[n] <= Len(sent[Remote[n]])
    BY <2>1 DEF TypeOK
  <2>3. Len(sent[Remote[n]]) \in Nat /\ Len(sent'[Remote[n]]) \in Nat
    BY <1>1, <1>3, <1>4, <2>1
  <2> QED
    BY <1>5, <2>1, <2>2, <2>3
<1> QED
  BY <1>1, <1>2, <1>3, <1>4, <1>6

\* A read moves one cursor past one message.
LEMMA ReadLog ==
  ASSUME TypeOK, NEW k \in Own, Read(k), sent' = sent
  PROVE  /\ cursor' \in [Node -> Nat]
         /\ \A n \in Node : n # k => cursor'[n] = cursor[n]
         /\ cursor'[k] = cursor[k] + 1
         /\ cursor'[k] \in 1..Len(sent[Remote[k]])
         /\ Incoming(k) = sent[Remote[k]][cursor'[k]]
         /\ Incoming(k) \in Message
         /\ \A n \in Own : cursor'[n] <= Len(sent'[Remote[n]])
<1>1. k \in Node /\ Remote[k] \in Node /\ Own \subseteq Node
  BY NodeAssumption DEF Own
<1>2. /\ cursor \in [Node -> Nat]
      /\ cursor' = [cursor EXCEPT ![k] = @ + 1]
      /\ cursor[k] < Len(sent[Remote[k]])
  BY DEF TypeOK, Read
<1>3. sent[Remote[k]] \in Seq(Message) /\ Len(sent[Remote[k]]) \in Nat
  BY <1>1 DEF TypeOK
<1>4. /\ cursor' \in [Node -> Nat]
      /\ \A n \in Node : n # k => cursor'[n] = cursor[n]
      /\ cursor'[k] = cursor[k] + 1
      /\ cursor'[k] \in 1..Len(sent[Remote[k]])
  BY <1>1, <1>2, <1>3
<1>5. \A n \in Own : cursor'[n] <= Len(sent'[Remote[n]])
  <2>1. \A n \in Own : cursor[n] <= Len(sent[Remote[n]])
    BY DEF TypeOK
  <2>2. cursor'[k] <= Len(sent[Remote[k]])
    BY <1>3, <1>4
  <2> QED
    BY <1>1, <1>4, <2>1, <2>2
<1> QED
  BY <1>3, <1>4, <1>5 DEF Incoming

\* TypeOK is inductive: no end of ours reads what was not written.
LEMMA TypeStep ==
  ASSUME TypeOK, NEW k \in Node, Step(k)
  PROVE  TypeOK'
<1> USE DEF TypeOK, EndState, HandshakeState, Gone
<1>1. Own \subseteq Node
  BY DEF Own
<1>2. protocol_version' \in [Own -> ProtocolVersion \cup {Unknown}]
      /\ feature_preferences' \in [Own -> SUBSET Feature]
  BY ConfigStays
<1>3. ASSUME NEW nonce \in Nonce, k \in Own, SendVersion(k, nonce)
      PROVE  TypeOK'
  <2>1. create_version_message(k, nonce) \in Message
    BY <1>3, LocalVersion DEF create_version_message, Version, Message
  <2>2. sent' \in [Node -> Seq(Message)] /\ \A n \in Own : cursor[n] <= Len(sent'[Remote[n]])
    BY <1>3, <2>1, WriteLog DEF SendVersion
  <2> QED
    BY Zenon, <1>2, <1>3, <2>2 DEF SendVersion
<1>4. CASE k \in Own /\ ReadVersion(k)
  <2>1. /\ Incoming(k) \in Message /\ Incoming(k).type = "Version"
        /\ cursor' \in [Node -> Nat] /\ cursor[k] \in Nat
        /\ \A n \in Own : cursor'[n] <= Len(sent'[Remote[n]])
    BY Zenon, <1>1, <1>4, ReadLog DEF ReadVersion
  <2>2. Incoming(k).version \in ProtocolVersion \cup {MIN_PROTOCOL_VERSION}
    BY Zenon, <2>1 DEF Message, Feature
  <2> DEFINE v == Min({local_version(k), Incoming(k).version})
  <2>3. v \in ProtocolVersion \cup {MIN_PROTOCOL_VERSION} /\ v \in Nat
    BY Zenon, <1>4, <2>2, EffectiveVersion
  <2>4. Reply(k, v) \in Seq(Message)
    BY <1>4, <2>3, ReplyShape
  <2>5. /\ state' = state \/ state' = [state EXCEPT ![k] = "ConnectionLoop"]
        /\ peer' = peer \/ peer' = [peer EXCEPT ![k] = cursor[k] + 1]
        /\ todo' = todo \/ todo' = [todo EXCEPT ![k] = Reply(k, v)]
        /\ \/ effective_protocol_version' = effective_protocol_version
           \/ effective_protocol_version' = [effective_protocol_version EXCEPT ![k] = v]
        /\ our_nonce' = our_nonce /\ negotiation' = negotiation /\ sent' = sent
    BY <1>4 DEF ReadVersion
  <2> HIDE DEF v
  <2>6. state' \in [Node -> EndState]
    BY Zenon, <2>5
  <2>7. peer' \in [Node -> Nat]
    <3>1. cursor[k] + 1 \in Nat
      BY <2>1
    <3>2. peer \in [Node -> Nat] /\ (peer' = peer \/ peer' = [peer EXCEPT ![k] = cursor[k] + 1])
      BY <2>5
    <3> HIDE DEF TypeOK
    <3> QED
      BY <3>1, <3>2
  <2>8. todo' \in [Node -> Seq(Message)]
    BY Zenon, <2>4, <2>5
  <2>9. effective_protocol_version' \in
          [Node -> ProtocolVersion \cup {Unknown, MIN_PROTOCOL_VERSION}]
    <3> DEFINE V == ProtocolVersion \cup {Unknown, MIN_PROTOCOL_VERSION}
    <3>1. v \in V
      BY Zenon, <2>3
    <3>2. /\ effective_protocol_version \in [Node -> V]
          /\ \/ effective_protocol_version' = effective_protocol_version
             \/ effective_protocol_version' = [effective_protocol_version EXCEPT ![k] = v]
      BY Zenon, <2>5
    <3> HIDE DEF V
    <3>3. effective_protocol_version' \in [Node -> V]
      BY ONLY <3>1, <3>2
    <3> QED
      BY Zenon, <3>3 DEF V
  <2> QED
    BY <1>2, <2>1, <2>5, <2>6, <2>7, <2>8, <2>9
<1>5. CASE k \in Own /\ ReadVerack(k)
  <2>1. cursor' \in [Node -> Nat] /\ \A n \in Own : cursor'[n] <= Len(sent'[Remote[n]])
    BY Zenon, <1>5, ReadLog DEF ReadVerack
  <2> QED
    BY Zenon, <1>1, <1>2, <1>5, <2>1 DEF ReadVerack, handle_verack_message
<1>6. CASE k \in Own /\ ReadOffer(k)
  <2>1. negotiation' \in [Node -> [Feature -> NegotiationState]]
    BY <1>6 DEF ReadOffer, on_receive, NegotiationState
  <2>2. cursor' \in [Node -> Nat] /\ \A n \in Own : cursor'[n] <= Len(sent'[Remote[n]])
    BY Zenon, <1>6, ReadLog DEF ReadOffer
  <2> QED
    BY <1>2, <1>6, <2>1, <2>2 DEF ReadOffer
<1>7. CASE k \in Own /\ ReadOther(k)
  <2>1. cursor' \in [Node -> Nat] /\ \A n \in Own : cursor'[n] <= Len(sent'[Remote[n]])
    BY Zenon, <1>7, ReadLog DEF ReadOther
  <2> QED
    BY <1>2, <1>7, <2>1 DEF ReadOther
<1>8. CASE k \in Own /\ ReadEof(k)
  BY <1>1, <1>2, <1>8 DEF ReadEof
<1>9. CASE k \in Own /\ WriteNext(k)
  <2>1. Head(todo[k]) \in Message /\ Tail(todo[k]) \in Seq(Message)
    <3>1. todo[k] \in Seq(Message) /\ todo[k] # <<>>
      BY Zenon, <1>9 DEF WriteNext
    <3> QED
      BY Zenon, <3>1, FirstAndRest
  <2>2. negotiation' \in [Node -> [Feature -> NegotiationState]]
    BY <1>9 DEF WriteNext, on_send, NegotiationState
  <2>3. sent' \in [Node -> Seq(Message)] /\ \A n \in Own : cursor[n] <= Len(sent'[Remote[n]])
    BY Zenon, <1>9, <2>1, WriteLog DEF WriteNext
  <2> QED
    BY Zenon, <1>1, <1>2, <1>9, <2>1, <2>2, <2>3 DEF WriteNext
<1>10. CASE Abort(k)
  BY <1>1, <1>2, <1>10 DEF Abort
<1>11. ASSUME NEW m \in Message, ForeignWrite(k, m)
       PROVE  TypeOK'
  <2>1. sent' \in [Node -> Seq(Message)] /\ \A n \in Own : cursor[n] <= Len(sent'[Remote[n]])
    BY Zenon, <1>11, WriteLog DEF ForeignWrite
  <2> QED
    BY <1>2, <1>11, <2>1 DEF ForeignWrite
<1> QED
  BY Zenon, <1>3, <1>4, <1>5, <1>6, <1>7, <1>8, <1>9, <1>10, <1>11 DEF Step, Handle

\* The log of an end is only appended to.
LEMMA LogsGrow ==
  ASSUME TypeOK, NEW k \in Node, Step(k), NEW n \in Node
  PROVE  /\ Len(sent[n]) <= Len(sent'[n])
         /\ \A i \in 1..Len(sent[n]) : sent'[n][i] = sent[n][i]
<1>1. sent' = sent \/ \E m \in Message : Write(k, m)
  <2>1. ASSUME NEW nonce \in Nonce, k \in Own, SendVersion(k, nonce)
        PROVE  \E m \in Message : Write(k, m)
    BY <2>1, LocalVersion DEF SendVersion, create_version_message, Version, Message
  <2>2. CASE WriteNext(k)
    BY <2>2 DEF WriteNext, TypeOK
  <2> QED
    BY Zenon, <2>1, <2>2 DEF Step, Handle, ReadVersion, ReadVerack, ReadOffer, ReadOther, ReadEof,
                      Abort, ForeignWrite
<1>2. Len(sent[n]) \in Nat
  BY DEF TypeOK
<1>3. ASSUME NEW m \in Message, Write(k, m)
      PROVE  /\ Len(sent[n]) <= Len(sent'[n])
             /\ \A i \in 1..Len(sent[n]) : sent'[n][i] = sent[n][i]
  <2>1. CASE n = k
    BY <1>2, <1>3, <2>1, WriteLog
  <2>2. CASE n # k
    BY <1>2, <1>3, <2>2, WriteLog
  <2> QED
    BY <2>1, <2>2
<1> QED
  BY <1>1, <1>2, <1>3

(***************************************************************************)
(* What has been written and read.                                         *)
(***************************************************************************)
\* Only a write of an end changes what it has written.
LEMMA WrittenStays ==
  ASSUME NEW n \in Node, sent'[n] = sent[n]
  PROVE  Written(n)' = Written(n)
BY DEF Written, Range

\* A write adds the type of its message to Written.
LEMMA WrittenAdds ==
  ASSUME TypeOK, NEW k \in Node, NEW m \in Message, Write(k, m)
  PROVE  Written(k)' = Written(k) \cup {m.type}
<1>1. /\ sent[k] \in Seq(Message) /\ sent'[k] \in Seq(Message)
      /\ Len(sent[k]) \in Nat /\ Len(sent'[k]) = Len(sent[k]) + 1
      /\ sent'[k][Len(sent[k]) + 1] = m
      /\ \A i \in 1..Len(sent[k]) : sent'[k][i] = sent[k][i]
  <2>1. sent[k] \in Seq(Message)
    BY Zenon DEF TypeOK
  <2>2. Len(sent[k]) \in Nat
    BY ONLY <2>1
  <2>3. /\ sent' \in [Node -> Seq(Message)]
        /\ Len(sent'[k]) = Len(sent[k]) + 1
        /\ sent'[k][Len(sent[k]) + 1] = m
        /\ \A i \in 1..Len(sent[k]) : sent'[k][i] = sent[k][i]
    BY Zenon, WriteLog
  <2>4. sent'[k] \in Seq(Message)
    BY Zenon, <2>3
  <2> QED
    BY Zenon, <2>1, <2>2, <2>3, <2>4
<1>2. Written(k) = {sent[k][i].type : i \in 1..Len(sent[k])}
  BY <1>1 DEF Written, Range
<1>3. Written(k)' = {sent'[k][i].type : i \in 1..Len(sent'[k])}
  BY <1>1 DEF Written, Range
<1>4. 1..Len(sent'[k]) = 1..Len(sent[k]) \cup {Len(sent[k]) + 1}
  BY <1>1
<1>5. Written(k)' = {sent'[k][i].type : i \in 1..Len(sent[k])} \cup {m.type}
  BY <1>1, <1>3, <1>4
<1> QED
  BY Zenon, <1>1, <1>2, <1>5

\* Only a read of an end changes what it has read.
LEMMA ReadByStays ==
  ASSUME TypeOK, NEW k \in Node, Step(k), NEW n \in Own, cursor'[n] = cursor[n]
  PROVE  ReadBy(n)' = ReadBy(n)
<1>1. Remote[n] \in Node /\ n \in Node
  BY NodeAssumption DEF Own
<1>2. cursor[n] \in Nat /\ Len(sent[Remote[n]]) \in Nat /\ cursor[n] <= Len(sent[Remote[n]])
  BY <1>1 DEF TypeOK
<1>3. \A i \in 1..cursor[n] : sent'[Remote[n]][i] = sent[Remote[n]][i]
  BY <1>1, <1>2, LogsGrow
<1> QED
  BY <1>3 DEF ReadBy

\* A read adds the type of its message to ReadBy.
LEMMA ReadByAdds ==
  ASSUME TypeOK, NEW k \in Own, Read(k), sent' = sent
  PROVE  ReadBy(k)' = ReadBy(k) \cup {Incoming(k).type}
<1>1. cursor[k] \in Nat
  BY DEF TypeOK, Own
<1>2. cursor'[k] = cursor[k] + 1 /\ Incoming(k) = sent[Remote[k]][cursor'[k]]
  BY ReadLog
<1>3. 1..cursor'[k] = 1..cursor[k] \cup {cursor'[k]}
  BY <1>1, <1>2
<1> QED
  BY <1>2, <1>3 DEF ReadBy

(***************************************************************************)
(* The log of an end, a part of the inductive invariant.                   *)
(***************************************************************************)
\* What end n has written and has still to write is its version and, once the
\* remote's version is read, the reply to it.
Log(n) ==
  LET effective == effective_protocol_version[n]
      r == Reply(n, effective)
  IN  /\ state[n] = "Created" => Len(sent[n]) = 0
      /\ state[n] \in HandshakeState => Len(sent[n]) >= 1
      /\ Len(sent[n]) >= 1 => /\ our_nonce[n] \in Nonce
                              /\ sent[n][1] = Version(local_version(n), our_nonce[n])
      /\ effective = Unknown => Len(sent[n]) <= 1 /\ Len(todo[n]) = 0
      /\ effective # Unknown =>
           /\ Len(sent[n]) >= 1
           /\ Len(sent[n]) + Len(todo[n]) <= Len(r) + 1
           /\ state[n] \in HandshakeState => Len(sent[n]) + Len(todo[n]) = Len(r) + 1
           /\ \A i \in 2..Len(sent[n]) : sent[n][i] = r[i - 1]
           /\ \A i \in 1..Len(todo[n]) : todo[n][i] = r[Len(sent[n]) - 1 + i]
      /\ state[n] \in {"VersionSent", "VerackReceived"} =>
           (effective # Unknown => Len(todo[n]) > 0)
      /\ state[n] \in {"VersionReceived", "Complete"} =>
           effective # Unknown /\ Len(todo[n]) = 0

\* The verack is the last message of a reply and the others are offers.
LEMMA ReplyTypes ==
  ASSUME NEW n \in Own, NEW v \in Nat
  PROVE  LET r == Reply(n, v) IN
         /\ Len(r) \in Nat /\ Len(r) >= 1
         /\ \A i \in 1..Len(r) : r[i].type = "Verack" <=> i = Len(r)
         /\ \A i \in 1..(Len(r) - 1) : r[i].type \in Feature
<1> DEFINE r == Reply(n, v)
<1>1. /\ Len(r) \in Nat /\ Len(r) >= 1 /\ r[Len(r)] = Verack
      /\ \A i \in 1..(Len(r) - 1) : \E f \in Feature : r[i] = Offer(f)
  <2>1. /\ Len(r) \in Nat /\ Len(r) >= 1 /\ r[Len(r)] = Verack
        /\ \A i \in 1..(Len(r) - 1) :
             \E f \in Feature : /\ r[i] = Offer(f)
                                /\ f \in feature_preferences[n]
                                /\ v >= FeatureMinVersion[f]
    BY ReplyShape
  <2> HIDE DEF r
  <2> QED
    BY Zenon, <2>1
<1>2. Verack.type = "Verack" /\ \A f \in Feature : Offer(f).type = f /\ f # "Verack"
  BY DEF Verack, Offer, Feature
<1> HIDE DEF r
<1>3. \A i \in 1..(Len(r) - 1) : r[i].type \in Feature /\ r[i].type # "Verack"
  BY <1>1, <1>2
<1>4. \A i \in 1..Len(r) : i # Len(r) => i \in 1..(Len(r) - 1)
  BY <1>1
<1> QED
  BY <1>1, <1>2, <1>3, <1>4 DEF r

\* A reply depends on the configuration only.
LEMMA ReplyStays ==
  ASSUME NEW k \in Node, Step(k), NEW n \in Own,
         effective_protocol_version'[n] = effective_protocol_version[n]
  PROVE  /\ Reply(n, effective_protocol_version[n])' = Reply(n, effective_protocol_version[n])
         /\ local_version(n)' = local_version(n)
BY Zenon, ConfigStays DEF Reply, NegotiationMessages, local_version, unwrap_or

\* Log is kept by the steps of other ends.
LEMMA LogOthers ==
  ASSUME TypeOK, NEW k \in Node, Step(k), NEW n \in Own, n # k, Log(n)
  PROVE  Log(n)'
<1>1. Same(n) /\ n \in Node
  BY OthersStay DEF Own
<1>2. /\ Reply(n, effective_protocol_version[n])' = Reply(n, effective_protocol_version[n])
      /\ local_version(n)' = local_version(n)
  BY <1>1, ReplyStays DEF Same
<1> QED
  BY Zenon, <1>1, <1>2 DEF Log, Same

\* Log is kept by the end's own steps.
LEMMA LogOwn ==
  ASSUME TypeOK, NEW n \in Own, Step(n), Log(n)
  PROVE  Log(n)'
<1> DEFINE effective == effective_protocol_version[n]
           r == Reply(n, effective)
<1>1. n \in Node /\ n \notin Foreign
  BY DEF Own
<1>2. local_version(n)' = local_version(n) /\ feature_preferences' = feature_preferences
  BY <1>1, ConfigStays DEF local_version, unwrap_or
<1>3. /\ Len(sent[n]) \in Nat /\ Len(todo[n]) \in Nat
      /\ sent[n] \in Seq(Message) /\ todo[n] \in Seq(Message)
      /\ effective # Unknown => effective \in Nat
  BY <1>1, VersionsAreNumbers DEF TypeOK
<1>4. effective' = effective => r' = r
  BY <1>1, ReplyStays
<1>5. effective # Unknown => Len(r) \in Nat /\ Len(r) >= 1
  BY <1>3, ReplyTypes
<1>6. ASSUME NEW nonce \in Nonce, SendVersion(n, nonce)
      PROVE  Log(n)'
  <2>1. create_version_message(n, nonce) = Version(local_version(n), nonce)
        /\ create_version_message(n, nonce) \in Message
    BY Zenon, LocalVersion DEF create_version_message, Version, Message
  <2>2. Len(sent[n]) = 0 /\ effective = Unknown /\ Len(todo[n]) = 0
    <3>1. state[n] = "Created"
      BY <1>6 DEF SendVersion
    <3>2. Len(sent[n]) = 0 /\ (effective # Unknown => Len(sent[n]) >= 1)
      BY <3>1, Zenon DEF Log
    <3>3. Len(sent[n]) = 0 /\ effective = Unknown
      BY <3>2
    <3> QED
      BY <3>3 DEF Log
  <2>3. Len(sent'[n]) = 1 /\ sent'[n][1] = Version(local_version(n), nonce)
    <3>1. Write(n, create_version_message(n, nonce))
      BY <1>6 DEF SendVersion
    <3>2. /\ Len(sent'[n]) = Len(sent[n]) + 1
          /\ sent'[n][Len(sent[n]) + 1] = create_version_message(n, nonce)
      BY <1>1, <2>1, <3>1, WriteLog
    <3> QED
      BY <2>1, <2>2, <3>2
  <2>4. /\ state'[n] = "VersionSent" /\ our_nonce'[n] = nonce
        /\ effective' = effective /\ todo'[n] = todo[n]
    BY <1>1, <1>6 DEF SendVersion, TypeOK
  <2>5. /\ Len(sent'[n]) >= 1 /\ Len(sent'[n]) <= 1
        /\ Len(todo'[n]) = 0 /\ effective' = Unknown
    BY <2>2, <2>3, <2>4
  <2> QED
    BY Zenon, <1>2, <2>3, <2>4, <2>5 DEF Log
<1>7. CASE ReadVersion(n)
  <2>1. CASE effective' = effective /\ todo' = todo
    <3>1. state'[n] \in {state[n], "ConnectionLoop"} /\ UNCHANGED <<our_nonce, sent>>
      BY <1>1, <1>7 DEF ReadVersion, TypeOK
    <3> QED
      BY Zenon, <1>2, <1>4, <2>1, <3>1 DEF Log, HandshakeState
  <2>2. CASE ~(effective' = effective /\ todo' = todo)
    <3> DEFINE v == Min({local_version(n), Incoming(n).version})
    <3>1. /\ state[n] \in {"VersionSent", "VerackReceived"} /\ todo[n] = <<>>
          /\ effective' = v /\ todo'[n] = Reply(n, v)
          /\ UNCHANGED <<state, our_nonce, sent>>
      BY <1>1, <1>7, <2>2 DEF ReadVersion, AwaitsVersion, Read, TypeOK
    <3>2. v \in Nat /\ v # Unknown
      <4>1. Incoming(n) \in Message /\ Incoming(n).type = "Version"
        BY Zenon, <1>7, <3>1, ReadLog DEF ReadVersion
      <4>2. Incoming(n).version \in ProtocolVersion \cup {MIN_PROTOCOL_VERSION}
        BY Zenon, <4>1 DEF Message, Feature
      <4> QED
        BY <4>2, EffectiveVersion, VersionsAreNumbers
    <3> HIDE DEF v
    <3>3. r' = Reply(n, v)
      BY Zenon, <1>2, <3>1 DEF Reply, NegotiationMessages
    <3>4. effective = Unknown /\ Len(sent[n]) = 1 /\ Len(todo[n]) = 0
      <4>1. state[n] \in HandshakeState /\ Len(todo[n]) = 0
        BY <3>1 DEF HandshakeState
      <4>2. effective = Unknown
        <5>1. effective # Unknown => Len(todo[n]) > 0
          BY <3>1, Zenon DEF Log
        <5> QED
          BY <4>1, <5>1
      <4> DEFINE ls == Len(sent[n])
      <4>3. ls >= 1 /\ ls <= 1
        BY <4>1, <4>2, Zenon DEF Log
      <4>4. ls \in Nat
        BY <1>3
      <4> HIDE DEF ls
      <4>5. ls = 1
        BY <4>3, <4>4
      <4> QED
        BY <4>1, <4>2, <4>5 DEF ls
    <3>5. Len(Reply(n, v)) \in Nat /\ Len(Reply(n, v)) >= 1
      BY <3>2, ReplyTypes
    <3>6. \A i \in 1..Len(todo'[n]) : todo'[n][i] = Reply(n, v)[Len(sent'[n]) - 1 + i]
      BY <3>1, <3>4, <3>5
    <3>7. /\ Len(sent'[n]) = 1 /\ Len(sent'[n]) >= 1
          /\ Len(todo'[n]) = Len(r') /\ Len(todo'[n]) > 0
          /\ Len(sent'[n]) + Len(todo'[n]) = Len(r') + 1
          /\ Len(sent'[n]) + Len(todo'[n]) <= Len(r') + 1
      <4> DEFINE lr == Len(Reply(n, v))
      <4>1. Len(sent'[n]) = 1 /\ Len(todo'[n]) = lr /\ Len(r') = lr
        BY Zenon, <3>1, <3>3, <3>4
      <4>2. lr \in Nat /\ lr >= 1
        BY Zenon, <3>5
      <4> HIDE DEF lr
      <4> QED
        BY <4>1, <4>2
    <3>8. \A i \in 2..Len(sent'[n]) : FALSE
      BY <3>7
    <3>9. /\ state'[n] \in {"VersionSent", "VerackReceived"}
          /\ effective' # Unknown
          /\ our_nonce'[n] \in Nonce
          /\ sent'[n][1] = Version(local_version(n), our_nonce[n])
      <4>1. Len(sent[n]) >= 1
        BY <3>4
      <4> QED
        BY Zenon, <3>1, <3>2, <4>1 DEF Log
    <3> QED
      BY Zenon, <1>2, <3>1, <3>3, <3>6, <3>7, <3>8, <3>9 DEF Log
  <2> QED
    BY <2>1, <2>2
<1>8. CASE ReadVerack(n)
  <2>1. /\ Len(todo[n]) = 0 /\ state[n] \in HandshakeState
        /\ state'[n] = handle_verack_message(state[n])
        /\ effective' = effective /\ UNCHANGED <<our_nonce, sent, todo>>
    BY <1>1, <1>8 DEF ReadVerack, Read, TypeOK
  <2> QED
    BY Zenon, <1>2, <1>4, <2>1 DEF Log, HandshakeState, handle_verack_message
<1>9. CASE ReadOffer(n) \/ ReadOther(n)
  <2>1. effective' = effective /\ UNCHANGED <<state, our_nonce, sent, todo>>
    BY <1>9 DEF ReadOffer, ReadOther
  <2> QED
    BY Zenon, <1>2, <1>4, <2>1 DEF Log
<1>10. CASE ReadEof(n)
  <2>1. state'[n] = "Failed" /\ effective' = effective /\ UNCHANGED <<our_nonce, sent, todo>>
    BY Zenon, <1>1, <1>10 DEF ReadEof, TypeOK
  <2> QED
    BY Zenon, <1>2, <1>4, <2>1 DEF Log, HandshakeState
<1>11. CASE Abort(n)
  <2>1. /\ state'[n] = "Failed" /\ Len(todo'[n]) = 0
        /\ effective' = effective /\ UNCHANGED <<our_nonce, sent>>
    BY <1>1, <1>11 DEF Abort, TypeOK
  <2> QED
    <3>1. state'[n] # "Created" /\ state'[n] \notin HandshakeState
      BY <2>1 DEF HandshakeState
    <3>2. effective # Unknown => /\ Len(sent[n]) + Len(todo[n]) <= Len(r) + 1
                                 /\ Len(r) \in Nat
      BY <1>5, Zenon DEF Log
    <3>3. effective # Unknown => Len(sent[n]) + Len(todo'[n]) <= Len(r) + 1
      <4> DEFINE ls == Len(sent[n])
                 lt == Len(todo[n])
                 lr == Len(r)
      <4>1. ls \in Nat /\ lt \in Nat /\ Len(todo'[n]) = 0
        BY <1>3, <2>1
      <4>2. effective # Unknown => ls + lt <= lr + 1 /\ lr \in Nat
        BY Zenon, <3>2
      <4> HIDE DEF ls, lt, lr
      <4>3. effective # Unknown => ls + Len(todo'[n]) <= lr + 1
        BY <4>1, <4>2
      <4> QED
        BY Zenon, <4>3 DEF ls, lr
    <3>4. \A i \in 1..Len(todo'[n]) : FALSE
      BY <2>1
    <3> QED
      BY <1>2, <1>4, <2>1, <3>1, <3>3, <3>4, Zenon DEF Log, HandshakeState
<1>12. CASE WriteNext(n)
  <2> DEFINE m == Head(todo[n])
  <2>1. /\ state[n] \in HandshakeState /\ todo[n] # <<>>
        /\ Write(n, m)
        /\ todo'[n] = Tail(todo[n])
        /\ state'[n] = IF m.type # "Verack" THEN state[n]
                       ELSE IF state[n] = "VerackReceived" THEN "Complete" ELSE "VersionReceived"
        /\ our_nonce' = our_nonce /\ effective' = effective
    BY Zenon, <1>1, <1>12 DEF WriteNext, TypeOK
  <2>2. /\ m \in Message /\ m = todo[n][1] /\ Len(todo[n]) >= 1
        /\ Len(todo'[n]) = Len(todo[n]) - 1
        /\ \A i \in 1..Len(todo'[n]) : todo'[n][i] = todo[n][i + 1]
    <3>1. todo[n] \in Seq(Message) /\ todo[n] # <<>>
      BY Zenon, <1>3, <2>1
    <3>2. /\ m \in Message /\ m = todo[n][1] /\ Len(todo[n]) >= 1
          /\ Len(Tail(todo[n])) = Len(todo[n]) - 1
          /\ \A i \in 1..Len(Tail(todo[n])) : Tail(todo[n])[i] = todo[n][i + 1]
      BY ONLY Zenon, <3>1, FirstAndRest
    <3>3. todo'[n] = Tail(todo[n])
      BY Zenon, <2>1
    <3> HIDE DEF m
    <3> QED
      BY Zenon, <3>2, <3>3
  <2>3. /\ Len(sent'[n]) = Len(sent[n]) + 1
        /\ sent'[n][Len(sent[n]) + 1] = m
        /\ \A i \in 1..Len(sent[n]) : sent'[n][i] = sent[n][i]
    BY Zenon, <1>1, <2>1, <2>2, WriteLog
  <2> HIDE DEF m
  <2>4. /\ effective # Unknown
        /\ state[n] \in {"VersionSent", "VerackReceived"}
        /\ Len(sent[n]) >= 1
        /\ Len(sent[n]) + Len(todo[n]) = Len(r) + 1
        /\ our_nonce[n] \in Nonce
        /\ sent[n][1] = Version(local_version(n), our_nonce[n])
        /\ \A i \in 2..Len(sent[n]) : sent[n][i] = r[i - 1]
        /\ \A i \in 1..Len(todo[n]) : todo[n][i] = r[Len(sent[n]) - 1 + i]
    <3>1. Len(todo[n]) # 0
      BY <1>3, <2>2
    <3>2. effective # Unknown
      BY <3>1, Zenon DEF Log
    <3> QED
      BY <2>1, <3>1, <3>2, Zenon DEF Log, HandshakeState
  <2> HIDE DEF r, effective
  <2> DEFINE ls == Len(sent[n])
             lt == Len(todo[n])
             lr == Len(r)
             log == sent'[n]
             rest == todo'[n]
  <2>5. /\ ls \in Nat /\ lt \in Nat /\ lr \in Nat
        /\ ls >= 1 /\ lt >= 1 /\ ls + lt = lr + 1
        /\ Len(log) = ls + 1 /\ Len(rest) = lt - 1
        /\ \A i \in 1..lt : todo[n][i] = r[ls - 1 + i]
        /\ \A i \in 1..Len(rest) : rest[i] = todo[n][i + 1]
        /\ \A i \in 2..ls : sent[n][i] = r[i - 1]
        /\ \A i \in 1..ls : log[i] = sent[n][i]
        /\ log[ls + 1] = m /\ m = todo[n][1]
    BY Zenon, <1>3, <1>5, <2>2, <2>3, <2>4
  <2> HIDE DEF ls, lt, lr, log, rest
  <2>6. m = r[ls] /\ ls \in 1..lr
    <3>1. 1 \in 1..lt /\ ls - 1 + 1 = ls /\ ls \in 1..lr
      BY <2>5
    <3> QED
      BY Zenon, <2>5, <3>1
  <2>7. m.type = "Verack" <=> Len(rest) = 0
    <3>1. m.type = "Verack" <=> ls = lr
      BY <1>3, <2>4, <2>6, ReplyTypes DEF r, lr
    <3>2. ls = lr <=> Len(rest) = 0
      BY <2>5
    <3> QED
      BY <3>1, <3>2
  <2>8. \A i \in 2..Len(log) : log[i] = r[i - 1]
    <3> SUFFICES ASSUME NEW i \in 2..(ls + 1)
                 PROVE  log[i] = r[i - 1]
      BY <2>5
    <3>1. CASE i = ls + 1
      BY <2>5, <2>6, <3>1
    <3>2. CASE i # ls + 1
      <4>1. i \in 2..ls /\ i \in 1..ls
        BY <2>5, <3>2
      <4> QED
        BY <2>5, <4>1
    <3> QED
      BY <3>1, <3>2
  <2>9. \A i \in 1..Len(rest) : rest[i] = r[Len(log) - 1 + i]
    <3> SUFFICES ASSUME NEW i \in 1..Len(rest)
                 PROVE  rest[i] = r[Len(log) - 1 + i]
      OBVIOUS
    <3>1. i + 1 \in 1..lt /\ ls - 1 + (i + 1) = Len(log) - 1 + i
      BY <2>5
    <3> QED
      BY <2>5, <3>1
  <2>10. /\ Len(log) >= 1 /\ Len(log) + Len(rest) = lr + 1 /\ Len(log) + Len(rest) <= lr + 1
         /\ log[1] = sent[n][1] /\ Len(rest) \in Nat
    BY <2>5
  <2>11. /\ state'[n] \in HandshakeState /\ state'[n] # "Created"
         /\ state'[n] \in {"VersionSent", "VerackReceived"} => Len(rest) > 0
         /\ state'[n] \in {"VersionReceived", "Complete"} => Len(rest) = 0
    <3>1. CASE Len(rest) = 0
      <4>1. state'[n] \in {"VersionReceived", "Complete"}
        BY Zenon, <2>1, <2>7, <3>1
      <4> QED
        BY Zenon, <3>1, <4>1 DEF HandshakeState
    <3>2. CASE Len(rest) # 0
      <4>1. state'[n] \in {"VersionSent", "VerackReceived"}
        BY Zenon, <2>1, <2>4, <2>7, <3>2
      <4>2. Len(rest) > 0
        BY <2>10, <3>2
      <4> QED
        BY Zenon, <4>1, <4>2 DEF HandshakeState
    <3> QED
      BY Zenon, <3>1, <3>2
  <2>12. effective' = effective /\ r' = r /\ effective # Unknown
    BY Zenon, <1>4, <2>1, <2>4
  <2> QED
    BY <1>2, <2>1, <2>4, <2>8, <2>9, <2>10, <2>11, <2>12, Zenon
       DEF Log, r, effective, log, rest, lr
<1> QED
  BY <1>1, <1>6, <1>7, <1>8, <1>9, <1>10, <1>11, <1>12 DEF Step, Handle
=============================================================================
