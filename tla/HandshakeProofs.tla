--------------------------- MODULE HandshakeProofs ---------------------------
(***************************************************************************)
(* Proofs about the handshake, in the generality of HandshakeLogs: what an *)
(* end has read and negotiated completes the inductive invariant, and the  *)
(* properties of Handshake follow from it.                                 *)
(***************************************************************************)
EXTENDS HandshakeLogs

\* What end n has read determines its state.
Reads(n) ==
  /\ state[n] = "Created" => cursor[n] = 0
  /\ state[n] \in HandshakeState =>
       (effective_protocol_version[n] # Unknown <=> "Version" \in ReadBy(n))
  /\ state[n] \in {"VersionSent", "VersionReceived"} => "Verack" \notin ReadBy(n)
  /\ state[n] \in {"VerackReceived", "Complete"} => "Verack" \in ReadBy(n)

\* Peer and effective version of end n come from the first version it has read,
\* which had another nonce.
Source(n) ==
  LET log == sent[Remote[n]]
  IN  /\ effective_protocol_version[n] # Unknown <=> peer[n] # 0
      /\ peer[n] # 0 =>
           /\ peer[n] <= cursor[n]
           /\ log[peer[n]].type = "Version"
           /\ log[peer[n]].nonce # our_nonce[n]
           /\ effective_protocol_version[n] = Min({local_version(n), log[peer[n]].version})
           /\ \A i \in 1..(peer[n] - 1) : log[i].type # "Version"

\* The state of a feature at end n says which offers it has written and read.
Features(n) ==
  \A f \in Feature :
    /\ negotiation[n][f] \in {"SentOnly", "Enabled"} <=> f \in Written(n)
    /\ negotiation[n][f] \in {"ReceivedOnly", "Enabled"} <=> f \in ReadBy(n)

\* The inductive invariant.
IInv ==
  /\ TypeOK
  /\ \A n \in Own : Log(n) /\ Reads(n) /\ Source(n) /\ Features(n)

\* What end n needs of its own log, in a form without arithmetic: an end that
\* waits for a version has none, one that writes has one and waits for no verack.
LEMMA LogSays ==
  ASSUME TypeOK, NEW n \in Own, Log(n)
  PROVE  /\ state[n] = "Created" => effective_protocol_version[n] = Unknown
         /\ todo[n] # <<>> => effective_protocol_version[n] # Unknown
         /\ state[n] \in {"VersionSent", "VerackReceived"} /\ todo[n] = <<>> =>
              effective_protocol_version[n] = Unknown
         /\ state[n] \in {"VersionReceived", "Complete"} =>
              effective_protocol_version[n] # Unknown /\ todo[n] = <<>>
<1> DEFINE effective == effective_protocol_version[n]
           ls == Len(sent[n])
           lt == Len(todo[n])
<1>1. /\ state[n] = "Created" => ls = 0
      /\ effective # Unknown => ls >= 1
      /\ effective = Unknown => lt = 0
      /\ state[n] \in {"VersionSent", "VerackReceived"} => (effective # Unknown => lt > 0)
      /\ state[n] \in {"VersionReceived", "Complete"} => effective # Unknown /\ lt = 0
  BY Zenon DEF Log
<1>2. lt = 0 <=> todo[n] = <<>>
  BY DEF TypeOK, Own
<1> HIDE DEF ls, lt
<1> QED
  BY <1>1, <1>2

\* Source is kept where peer and effective version are.
LEMMA SourceStays ==
  ASSUME TypeOK, NEW k \in Node, Step(k), NEW n \in Own, Source(n),
         peer'[n] = peer[n],
         effective_protocol_version'[n] = effective_protocol_version[n],
         cursor'[n] \in {cursor[n], cursor[n] + 1},
         our_nonce'[n] = our_nonce[n] \/ effective_protocol_version[n] = Unknown
  PROVE  Source(n)'
<1>1. Remote[n] \in Node /\ n \in Node
  BY NodeAssumption DEF Own
<1>2. local_version(n)' = local_version(n)
  BY Zenon, ConfigStays DEF local_version, unwrap_or
<1> SUFFICES ASSUME peer[n] # 0
             PROVE  Source(n)'
  BY Zenon DEF Source
<1> DEFINE log == sent[Remote[n]]
<1>3. /\ peer[n] \in Nat /\ cursor[n] \in Nat /\ Len(log) \in Nat
      /\ peer[n] <= cursor[n] /\ cursor[n] <= Len(log)
  BY <1>1 DEF TypeOK, Source
<1>4. \A i \in 1..Len(log) : log'[i] = log[i]
  BY Zenon, <1>1, LogsGrow
<1> DEFINE len == Len(log)
<1> HIDE DEF len
<1>5. \A i \in 1..peer[n] : i \in 1..len
  BY <1>3 DEF len
<1>6. \A i \in 1..peer[n] : log'[i] = log[i]
  BY <1>4, <1>5 DEF len
<1>7. peer[n] \in 1..peer[n] /\ \A i \in 1..(peer[n] - 1) : i \in 1..peer[n]
  BY <1>3
<1>8. peer[n] <= cursor'[n]
  BY <1>3
<1>9. our_nonce'[n] = our_nonce[n]
  BY DEF Source
<1> QED
  BY Zenon, <1>2, <1>6, <1>7, <1>8, <1>9 DEF Source

\* Reads and Source are kept by the steps of other ends.
LEMMA ReadsOthers ==
  ASSUME TypeOK, NEW k \in Node, Step(k), NEW n \in Own, n # k, Reads(n), Source(n)
  PROVE  Reads(n)' /\ Source(n)'
<1>1. Same(n)
  BY OthersStay DEF Own
<1>2. ReadBy(n)' = ReadBy(n)
  BY <1>1, ReadByStays DEF Same
<1>3. Source(n)'
  BY <1>1, SourceStays DEF Same
<1> QED
  BY <1>1, <1>2, <1>3 DEF Reads, Same

\* Reads and Source are kept by the end's own steps.
LEMMA ReadsOwn ==
  ASSUME TypeOK, NEW n \in Own, Step(n), Log(n), Reads(n), Source(n)
  PROVE  Reads(n)' /\ Source(n)'
<1> DEFINE effective == effective_protocol_version[n]
<1>1. n \in Node /\ n \notin Foreign /\ Remote[n] \in Node
  BY NodeAssumption DEF Own
<1>2. /\ state \in [Node -> EndState] /\ our_nonce \in [Own -> Nonce \cup {Unknown}]
      /\ peer \in [Node -> Nat] /\ cursor \in [Node -> Nat]
      /\ effective_protocol_version \in
           [Node -> ProtocolVersion \cup {Unknown, MIN_PROTOCOL_VERSION}]
  BY DEF TypeOK
<1>3. ASSUME NEW nonce \in Nonce, SendVersion(n, nonce)
      PROVE  Reads(n)' /\ Source(n)'
  <2>1. /\ state[n] = "Created" /\ state'[n] = "VersionSent"
        /\ UNCHANGED <<peer, effective_protocol_version, cursor>>
    BY <1>1, <1>2, <1>3 DEF SendVersion
  <2>2. effective = Unknown
    BY <2>1, LogSays
  <2>3. ReadBy(n)' = {}
    <3>1. cursor'[n] = 0
      BY <2>1 DEF Reads
    <3> QED
      BY <3>1 DEF ReadBy
  <2>4. Source(n)'
    BY <1>1, <2>1, <2>2, SourceStays
  <2> QED
    BY <2>1, <2>2, <2>3, <2>4 DEF Reads, HandshakeState
<1>4. CASE ReadVersion(n)
  <2>1. /\ Read(n) /\ sent' = sent /\ our_nonce' = our_nonce
        /\ Incoming(n).type = "Version" /\ todo[n] = <<>> /\ state[n] \in HandshakeState
    BY <1>4 DEF ReadVersion, Read
  <2>2. ReadBy(n)' = ReadBy(n) \cup {"Version"}
    BY <2>1, ReadByAdds
  <2>3. cursor'[n] = cursor[n] + 1 /\ Incoming(n) = sent[Remote[n]][cursor'[n]]
    BY <2>1, ReadLog
  <2>4. CASE state'[n] = "ConnectionLoop" /\ UNCHANGED <<peer, effective_protocol_version>>
    <3>1. Source(n)'
      BY <1>1, <2>1, <2>3, <2>4, SourceStays
    <3> QED
      BY <2>4, <3>1 DEF Reads, HandshakeState
  <2>5. CASE /\ state[n] # "Complete" => ~AwaitsVersion(state[n])
             /\ UNCHANGED <<state, peer, effective_protocol_version>>
    <3>1. state[n] \in {"VersionReceived", "Complete"}
      BY <2>1, <2>5 DEF AwaitsVersion, HandshakeState
    <3>2. effective # Unknown
      BY <3>1, LogSays
    <3>3. Source(n)'
      BY <1>1, <2>1, <2>3, <2>5, SourceStays
    <3> QED
      BY <2>2, <2>5, <3>1, <3>2, <3>3 DEF Reads, HandshakeState
  <2>6. CASE /\ ~IsLoop(n, Incoming(n)) /\ AwaitsVersion(state[n]) /\ state' = state
             /\ peer' = [peer EXCEPT ![n] = cursor[n] + 1]
             /\ effective_protocol_version' =
                  [effective_protocol_version EXCEPT
                     ![n] = Min({local_version(n), Incoming(n).version})]
    <3>1. effective = Unknown
      BY <2>1, <2>6, LogSays DEF AwaitsVersion
    <3>2. "Version" \notin ReadBy(n)
      BY <2>1, <3>1 DEF Reads
    <3>3. peer'[n] = cursor'[n] /\ cursor'[n] # 0 /\ peer'[n] - 1 = cursor[n]
      BY <1>1, <1>2, <2>3, <2>6
    <3>4. effective' = Min({local_version(n), Incoming(n).version})
      BY <1>1, <1>2, <2>6
    <3>5. effective' # Unknown
      <4>1. Incoming(n).version \in ProtocolVersion \cup {MIN_PROTOCOL_VERSION}
        BY <2>1, ReadLog DEF Message, Feature
      <4> QED
        BY <3>4, <4>1, EffectiveVersion, VersionsAreNumbers
    <3>6. \A i \in 1..(peer'[n] - 1) : sent[Remote[n]][i].type # "Version"
      BY <3>2, <3>3 DEF ReadBy
    <3>7. local_version(n)' = local_version(n)
      BY <1>1, ConfigStays DEF local_version, unwrap_or
    <3>8. Source(n)'
      <4>1. sent'[Remote[n]][peer'[n]] = Incoming(n) /\ sent'[Remote[n]] = sent[Remote[n]]
        BY <2>1, <2>3, <3>3
      <4>2. Incoming(n).nonce # our_nonce'[n]
        BY <2>1, <2>6 DEF IsLoop
      <4>3. peer'[n] # 0 /\ peer'[n] <= cursor'[n]
        BY <1>1, <1>2, <2>3, <3>3
      <4> QED
        BY Zenon, <2>1, <3>4, <3>5, <3>6, <3>7, <4>1, <4>2, <4>3 DEF Source
    <3> QED
      BY Zenon, <2>1, <2>2, <2>6, <3>5, <3>8 DEF Reads, AwaitsVersion, HandshakeState
  <2> QED
    BY Zenon, <1>1, <1>2, <1>4, <2>4, <2>5, <2>6 DEF ReadVersion
<1>5. CASE ReadVerack(n)
  <2>1. /\ Read(n) /\ sent' = sent /\ state[n] \in HandshakeState
        /\ UNCHANGED <<peer, effective_protocol_version, our_nonce>>
        /\ state'[n] = handle_verack_message(state[n]) /\ Incoming(n).type = "Verack"
    BY <1>1, <1>2, <1>5 DEF ReadVerack, Read
  <2>2. ReadBy(n)' = ReadBy(n) \cup {"Verack"} /\ cursor'[n] = cursor[n] + 1
    BY <2>1, ReadByAdds, ReadLog
  <2>3. Source(n)'
    BY Zenon, <1>1, <2>1, <2>2, SourceStays
  <2> QED
    BY <2>1, <2>2, <2>3 DEF Reads, HandshakeState, handle_verack_message
<1>6. CASE ReadOffer(n) \/ ReadOther(n)
  <2>1. /\ Read(n) /\ sent' = sent /\ state[n] \in HandshakeState
        /\ UNCHANGED <<state, peer, effective_protocol_version, our_nonce>>
        /\ Incoming(n).type \notin {"Version", "Verack"}
    BY <1>6 DEF ReadOffer, ReadOther, Read, Feature
  <2>2. ReadBy(n)' = ReadBy(n) \cup {Incoming(n).type} /\ cursor'[n] = cursor[n] + 1
    BY <2>1, ReadByAdds, ReadLog
  <2>3. Source(n)'
    BY <1>1, <2>1, <2>2, SourceStays
  <2> QED
    BY Zenon, <2>1, <2>2, <2>3 DEF Reads, HandshakeState
<1>7. CASE ReadEof(n) \/ Abort(n)
  <2>1. /\ state'[n] = "Failed"
        /\ UNCHANGED <<peer, effective_protocol_version, our_nonce, cursor>>
    BY <1>1, <1>2, <1>7 DEF ReadEof, Abort
  <2>2. Source(n)'
    BY <1>1, <2>1, SourceStays
  <2> QED
    BY <2>1, <2>2 DEF Reads, HandshakeState
<1>8. CASE WriteNext(n)
  <2>1. /\ UNCHANGED <<peer, effective_protocol_version, our_nonce, cursor>>
        /\ todo[n] # <<>> /\ state[n] \in HandshakeState
        /\ \/ state'[n] = state[n]
           \/ state'[n] = IF state[n] = "VerackReceived" THEN "Complete" ELSE "VersionReceived"
    BY <1>1, <1>2, <1>8 DEF WriteNext
  <2>2. state[n] \in {"VersionSent", "VerackReceived"}
    BY <2>1, LogSays DEF HandshakeState
  <2>3. ReadBy(n)' = ReadBy(n)
    BY <1>1, <2>1, ReadByStays
  <2>4. Source(n)'
    BY <1>1, <2>1, SourceStays
  <2> QED
    BY <2>1, <2>2, <2>3, <2>4 DEF Reads, HandshakeState
<1> QED
  BY <1>1, <1>3, <1>4, <1>5, <1>6, <1>7, <1>8 DEF Step, Handle

\* Features is kept by the steps of other ends.
LEMMA FeaturesOthers ==
  ASSUME TypeOK, NEW k \in Node, Step(k), NEW n \in Own, n # k, Features(n)
  PROVE  Features(n)'
<1>1. Same(n) /\ n \in Node
  BY OthersStay DEF Own
<1>2. ReadBy(n)' = ReadBy(n) /\ Written(n)' = Written(n)
  BY <1>1, ReadByStays, WrittenStays DEF Same
<1> QED
  BY Zenon, <1>1, <1>2 DEF Features, Same

\* Features is kept where the messages read and written have no feature's type.
LEMMA FeaturesStay ==
  ASSUME NEW n \in Own, Features(n), negotiation' = negotiation,
         \A f \in Feature : (f \in Written(n)' <=> f \in Written(n)),
         \A f \in Feature : (f \in ReadBy(n)' <=> f \in ReadBy(n))
  PROVE  Features(n)'
BY DEF Features

\* Features is kept by the end's own steps.
LEMMA FeaturesOwn ==
  ASSUME TypeOK, NEW n \in Own, Step(n), Features(n)
  PROVE  Features(n)'
<1>1. n \in Node /\ n \notin Foreign
  BY DEF Own
<1>2. negotiation \in [Node -> [Feature -> NegotiationState]]
  BY DEF TypeOK
<1>3. ASSUME NEW nonce \in Nonce, SendVersion(n, nonce)
      PROVE  Features(n)'
  <2> DEFINE m == create_version_message(n, nonce)
  <2>1. Write(n, m) /\ UNCHANGED <<negotiation, cursor>>
    BY <1>3 DEF SendVersion
  <2>2. m \in Message /\ m.type = "Version" /\ "Version" \notin Feature
    BY LocalVersion DEF create_version_message, Version, Message, Feature
  <2> HIDE DEF m
  <2>3. Written(n)' = Written(n) \cup {m.type} /\ ReadBy(n)' = ReadBy(n)
    BY <1>1, <2>1, <2>2, WrittenAdds, ReadByStays
  <2> QED
    BY <2>1, <2>2, <2>3, FeaturesStay
<1>4. CASE ReadVersion(n) \/ ReadVerack(n) \/ ReadOther(n)
  <2>1. /\ Read(n) /\ UNCHANGED <<negotiation, sent>> /\ Incoming(n).type \notin Feature
    BY <1>4 DEF ReadVersion, ReadVerack, ReadOther, Feature
  <2>2. Written(n)' = Written(n) /\ ReadBy(n)' = ReadBy(n) \cup {Incoming(n).type}
    BY <1>1, <2>1, WrittenStays, ReadByAdds
  <2> QED
    BY <2>1, <2>2, FeaturesStay
<1>5. CASE ReadEof(n) \/ Abort(n)
  <2>1. UNCHANGED <<negotiation, sent, cursor>>
    BY <1>5 DEF ReadEof, Abort
  <2>2. Written(n)' = Written(n) /\ ReadBy(n)' = ReadBy(n)
    BY <1>1, <2>1, WrittenStays, ReadByStays
  <2> QED
    BY <2>1, <2>2, FeaturesStay
<1>6. CASE ReadOffer(n)
  <2> DEFINE g == Incoming(n).type
  <2>1. /\ Read(n) /\ sent' = sent /\ g \in Feature
        /\ negotiation' = [negotiation EXCEPT ![n][g] = on_receive(@)]
    BY <1>6 DEF ReadOffer
  <2>2. Written(n)' = Written(n) /\ ReadBy(n)' = ReadBy(n) \cup {g}
    BY <1>1, <2>1, WrittenStays, ReadByAdds
  <2> HIDE DEF g
  <2>3. /\ negotiation'[n][g] = on_receive(negotiation[n][g])
        /\ \A f \in Feature : f # g => negotiation'[n][f] = negotiation[n][f]
    BY <1>1, <1>2, <2>1
  <2>4. negotiation[n][g] \in NegotiationState
    BY <1>1, <1>2, <2>1
  <2>5. /\ on_receive(negotiation[n][g]) \in {"SentOnly", "Enabled"} <=>
             negotiation[n][g] \in {"SentOnly", "Enabled"}
        /\ on_receive(negotiation[n][g]) \in {"ReceivedOnly", "Enabled"}
    BY <2>4 DEF on_receive, NegotiationState
  <2> QED
    BY <2>1, <2>2, <2>3, <2>5 DEF Features
<1>7. CASE WriteNext(n)
  <2> DEFINE m == Head(todo[n])
             g == m.type
  <2>1. /\ Write(n, m) /\ UNCHANGED cursor /\ todo[n] # <<>>
        /\ negotiation' = IF g \in Feature
                          THEN [negotiation EXCEPT ![n][g] = on_send(@)]
                          ELSE negotiation
    BY <1>7 DEF WriteNext
  <2>2. m \in Message
    BY <1>1, <2>1 DEF TypeOK
  <2>3. Written(n)' = Written(n) \cup {g} /\ ReadBy(n)' = ReadBy(n)
    BY <1>1, <2>1, <2>2, WrittenAdds, ReadByStays
  <2> HIDE DEF m, g
  <2>4. CASE g \notin Feature
    BY <2>1, <2>3, <2>4, FeaturesStay
  <2>5. CASE g \in Feature
    <3>1. /\ negotiation'[n][g] = on_send(negotiation[n][g])
          /\ \A f \in Feature : f # g => negotiation'[n][f] = negotiation[n][f]
      BY <1>1, <1>2, <2>1, <2>5
    <3>2. negotiation[n][g] \in NegotiationState
      BY <1>1, <1>2, <2>5
    <3>3. /\ on_send(negotiation[n][g]) \in {"SentOnly", "Enabled"}
          /\ on_send(negotiation[n][g]) \in {"ReceivedOnly", "Enabled"} <=>
               negotiation[n][g] \in {"ReceivedOnly", "Enabled"}
      BY <3>2 DEF on_send, NegotiationState
    <3> QED
      BY <2>3, <2>5, <3>1, <3>3 DEF Features
  <2> QED
    BY <2>4, <2>5
<1> QED
  BY <1>1, <1>3, <1>4, <1>5, <1>6, <1>7 DEF Step, Handle

\* The initial states satisfy the invariant.
LEMMA InitIInv ==
  ASSUME Init
  PROVE  IInv
<1>1. TypeOK
  <2>1. \A n \in Own : n \in Node /\ Remote[n] \in Node
    BY NodeAssumption DEF Own
  <2>2. \A n \in Own : cursor[n] <= Len(sent[Remote[n]])
    BY <2>1 DEF Init
  <2>3. sent \in [Node -> Seq(Message)] /\ todo \in [Node -> Seq(Message)]
    BY DEF Init
  <2> QED
    BY <2>2, <2>3 DEF Init, TypeOK, EndState, NegotiationState
<1> SUFFICES ASSUME NEW n \in Own
             PROVE  Log(n) /\ Reads(n) /\ Source(n) /\ Features(n)
  BY <1>1 DEF IInv
<1>2. /\ n \in Node /\ state[n] = "Created" /\ cursor[n] = 0 /\ peer[n] = 0
      /\ effective_protocol_version[n] = Unknown /\ sent[n] = <<>> /\ todo[n] = <<>>
      /\ \A f \in Feature : negotiation[n][f] = "NotNegotiated"
  BY DEF Init, Own
<1>3. Written(n) = {} /\ ReadBy(n) = {}
  BY <1>2 DEF Written, ReadBy, Range
<1>4. Len(sent[n]) = 0 /\ Len(todo[n]) = 0
  BY <1>2
<1>5. Log(n)
  BY <1>2, <1>4 DEF Log, HandshakeState
<1>6. Reads(n) /\ Source(n)
  BY Zenon, <1>2, <1>3 DEF Reads, Source, HandshakeState
<1>7. Features(n)
  BY <1>2, <1>3 DEF Features
<1> QED
  BY <1>5, <1>6, <1>7

\* Every step keeps the invariant.
LEMMA StepIInv ==
  ASSUME IInv, [Next]_vars
  PROVE  IInv'
<1>1. CASE UNCHANGED vars
  <2>1. /\ UNCHANGED <<protocol_version, feature_preferences, state, our_nonce, peer>>
        /\ UNCHANGED <<todo, effective_protocol_version, negotiation, sent, cursor>>
    BY <1>1 DEF vars
  <2>2. TypeOK'
    BY <2>1 DEF IInv, TypeOK
  <2>3. ASSUME NEW n \in Own
        PROVE  (Log(n) /\ Reads(n) /\ Source(n) /\ Features(n))'
    <3>1. Log(n) /\ Reads(n) /\ Source(n) /\ Features(n)
      BY DEF IInv
    <3>2. local_version(n)' = local_version(n) /\ Written(n)' = Written(n) /\ ReadBy(n)' = ReadBy(n)
      BY <2>1 DEF local_version, unwrap_or, Written, ReadBy
    <3>3. Reply(n, effective_protocol_version[n])' = Reply(n, effective_protocol_version[n])
      BY <2>1 DEF Reply, NegotiationMessages
    <3>4. Log(n)'
      BY Zenon, <2>1, <3>1, <3>2, <3>3 DEF Log
    <3>5. Reads(n)' /\ Source(n)' /\ Features(n)'
      BY Zenon, <2>1, <3>1, <3>2 DEF Reads, Source, Features
    <3> QED
      BY <3>4, <3>5
  <2> QED
    BY <2>2, <2>3 DEF IInv
<1>2. ASSUME NEW k \in Node, Step(k)
      PROVE  IInv'
  <2>1. TypeOK /\ \A n \in Own : Log(n) /\ Reads(n) /\ Source(n) /\ Features(n)
    BY DEF IInv
  <2>2. TypeOK'
    BY <1>2, <2>1, TypeStep
  <2>3. ASSUME NEW n \in Own
        PROVE  (Log(n) /\ Reads(n) /\ Source(n) /\ Features(n))'
    <3>1. CASE n = k
      BY <1>2, <2>1, <3>1, LogOwn, ReadsOwn, FeaturesOwn
    <3>2. CASE n # k
      BY <1>2, <2>1, <3>2, LogOthers, ReadsOthers, FeaturesOthers
    <3> QED
      BY <3>1, <3>2
  <2> QED
    BY <2>2, <2>3 DEF IInv
<1> QED
  BY <1>1, <1>2, StepOfOne

\* The invariant holds at all times.
LEMMA Inductive == Spec => []IInv
<1>1. Init => IInv
  BY InitIInv
<1>2. IInv /\ [Next]_vars => IInv'
  BY StepIInv
<1> QED
  BY <1>1, <1>2, PTL DEF Spec

\* What an end of ours has written: its version, offers of features that it
\* prefers and the effective version supports, and, last, its verack.
LEMMA LogShape ==
  ASSUME TypeOK, NEW n \in Own, Log(n), NEW i \in 1..Len(sent[n])
  PROVE  \/ i = 1 /\ sent[n][i] = Version(local_version(n), our_nonce[n])
         \/ /\ i # 1 /\ effective_protocol_version[n] # Unknown
            /\ \E f \in Feature : /\ sent[n][i] = Offer(f)
                                  /\ f \in feature_preferences[n]
                                  /\ effective_protocol_version[n] >= FeatureMinVersion[f]
         \/ /\ i # 1 /\ effective_protocol_version[n] # Unknown
            /\ sent[n][i] = Verack
            /\ i = Len(sent[n]) /\ todo[n] = <<>>
<1> DEFINE effective == effective_protocol_version[n]
           r == Reply(n, effective)
           ls == Len(sent[n])
           lt == Len(todo[n])
           lr == Len(r)
<1>1. n \in Node
  BY DEF Own
<1>2. ls \in Nat /\ lt \in Nat /\ (lt = 0 <=> todo[n] = <<>>)
  BY <1>1 DEF TypeOK
<1>3. CASE i = 1
  <2>1. ls >= 1
    BY <1>2, <1>3
  <2> QED
    BY <1>3, <2>1 DEF Log
<1>4. CASE i # 1
  <2>1. i \in 2..ls /\ ls > 1 /\ i \in Nat /\ i <= ls /\ i >= 2
    <3> HIDE DEF ls
    <3>1. i \in 1..ls
      BY DEF ls
    <3> QED
      BY <1>2, <1>4, <3>1
  <2>2. effective # Unknown
    <3>1. effective = Unknown => ls <= 1
      BY Zenon DEF Log
    <3> HIDE DEF ls
    <3> QED
      BY <1>2, <2>1, <3>1
  <2>3. ls + lt <= lr + 1 /\ sent[n][i] = r[i - 1]
    BY Zenon, <2>1, <2>2 DEF Log
  <2>4. effective \in Nat
    BY <1>1, <2>2, VersionsAreNumbers DEF TypeOK
  <2>5. /\ lr \in Nat /\ r[lr] = Verack
        /\ \A j \in 1..(lr - 1) : \E f \in Feature : /\ r[j] = Offer(f)
                                                     /\ f \in feature_preferences[n]
                                                     /\ effective >= FeatureMinVersion[f]
    BY Zenon, <2>4, ReplyShape
  <2> HIDE DEF ls, lt, lr, r
  <2>6. CASE i - 1 = lr
    <3>1. i = ls /\ lt = 0
      BY <1>2, <2>1, <2>3, <2>5, <2>6
    <3> QED
      BY <1>2, <1>4, <2>2, <2>3, <2>5, <2>6, <3>1 DEF ls
  <2>7. CASE i - 1 # lr
    <3>1. i - 1 \in 1..(lr - 1)
      BY <1>2, <2>1, <2>3, <2>5, <2>7
    <3> QED
      BY <1>4, <2>2, <2>3, <2>5, <3>1
  <2> QED
    BY <2>6, <2>7
<1> QED
  BY <1>3, <1>4

\* The types in the log, by their place.
LEMMA LogTypes ==
  ASSUME TypeOK, NEW n \in Own, Log(n), NEW i \in 1..Len(sent[n])
  PROVE  /\ sent[n][i].type = "Version" <=> i = 1
         /\ i = 1 => /\ sent[n][i].version = local_version(n)
                     /\ sent[n][i].nonce = our_nonce[n]
         /\ sent[n][i].type = "Verack" =>
              /\ i = Len(sent[n]) /\ todo[n] = <<>>
              /\ effective_protocol_version[n] # Unknown
         /\ sent[n][i].type \in Feature =>
              /\ effective_protocol_version[n] # Unknown
              /\ sent[n][i].type \in feature_preferences[n]
              /\ effective_protocol_version[n] >= FeatureMinVersion[sent[n][i].type]
<1>1. CASE i = 1 /\ sent[n][i] = Version(local_version(n), our_nonce[n])
  BY <1>1 DEF Version, Feature
<1>2. CASE /\ i # 1 /\ effective_protocol_version[n] # Unknown
           /\ \E f \in Feature : /\ sent[n][i] = Offer(f)
                                 /\ f \in feature_preferences[n]
                                 /\ effective_protocol_version[n] >= FeatureMinVersion[f]
  <2>1. PICK f \in Feature : /\ sent[n][i] = Offer(f)
                             /\ f \in feature_preferences[n]
                             /\ effective_protocol_version[n] >= FeatureMinVersion[f]
    BY <1>2
  <2>2. sent[n][i].type = f /\ f \notin {"Version", "Verack"}
    BY <2>1 DEF Offer, Feature
  <2> QED
    BY <1>2, <2>1, <2>2
<1>3. CASE /\ i # 1 /\ effective_protocol_version[n] # Unknown
           /\ sent[n][i] = Verack
           /\ i = Len(sent[n]) /\ todo[n] = <<>>
  BY <1>3 DEF Verack, Feature
<1> QED
  BY Zenon, <1>1, <1>2, <1>3, LogShape

\* Membership in Written is a place in the log.
LEMMA WrittenAt ==
  ASSUME TypeOK, NEW n \in Node, NEW t
  PROVE  t \in Written(n) <=> \E i \in 1..Len(sent[n]) : sent[n][i].type = t
<1>1. DOMAIN sent[n] = 1..Len(sent[n])
  BY DEF TypeOK
<1> QED
  BY <1>1 DEF Written, Range

\* An end that has answered a version has written everything: an offer of each
\* feature that it prefers and the effective version supports, and its verack.
LEMMA AnsweredWrote ==
  ASSUME TypeOK, NEW n \in Own, Log(n), state[n] \in {"VersionReceived", "Complete"}
  PROVE  /\ "Verack" \in Written(n)
         /\ \A f \in Feature : f \in Written(n) <=>
              /\ f \in feature_preferences[n]
              /\ effective_protocol_version[n] >= FeatureMinVersion[f]
<1> DEFINE effective == effective_protocol_version[n]
           r == Reply(n, effective)
           ls == Len(sent[n])
           lt == Len(todo[n])
           lr == Len(r)
<1>1. n \in Node
  BY DEF Own
<1>2. effective # Unknown /\ lt = 0 /\ ls + lt = lr + 1
  <2>1. state[n] \in {"VersionReceived", "Complete"} /\ state[n] \in HandshakeState
    BY DEF HandshakeState
  <2> QED
    BY <2>1, Zenon DEF Log
<1>3. ls \in Nat /\ effective \in Nat
  BY <1>1, <1>2, VersionsAreNumbers DEF TypeOK
<1>4. /\ lr \in Nat /\ lr >= 1 /\ r[lr] = Verack
      /\ \A f \in feature_preferences[n] \cap Feature :
           effective >= FeatureMinVersion[f] => \E j \in 1..(lr - 1) : r[j] = Offer(f)
  BY Zenon, <1>3, ReplyShape
<1>5. \A i \in 2..ls : sent[n][i] = r[i - 1]
  BY <1>2 DEF Log
<1> HIDE DEF ls, lt, lr, r
<1>6. \A j \in 1..lr : j + 1 \in 2..ls /\ j + 1 \in 1..ls /\ (j + 1) - 1 = j
  BY <1>2, <1>3, <1>4
<1>7. \A j \in 1..lr : j + 1 \in 1..ls /\ sent[n][j + 1] = r[j]
  BY <1>5, <1>6
<1>8. "Verack" \in Written(n)
  <2>1. lr \in 1..lr
    BY <1>4
  <2>2. sent[n][lr + 1].type = "Verack" /\ lr + 1 \in 1..ls
    BY <1>4, <1>7, <2>1 DEF Verack
  <2> QED
    BY <1>1, <2>2, WrittenAt DEF ls
<1>9. ASSUME NEW f \in Feature, f \in feature_preferences[n], effective >= FeatureMinVersion[f]
      PROVE  f \in Written(n)
  <2>1. PICK j \in 1..(lr - 1) : r[j] = Offer(f)
    BY <1>4, <1>9
  <2>2. j \in 1..lr
    BY <1>4
  <2>3. j + 1 \in 1..ls /\ sent[n][j + 1].type = f
    BY <1>7, <2>1, <2>2 DEF Offer
  <2> QED
    BY <1>1, <2>3, WrittenAt DEF ls
<1>10. ASSUME NEW f \in Feature, f \in Written(n)
       PROVE  f \in feature_preferences[n] /\ effective >= FeatureMinVersion[f]
  <2>1. PICK i \in 1..Len(sent[n]) : sent[n][i].type = f
    BY <1>1, <1>10, WrittenAt
  <2> QED
    BY <2>1, LogTypes
<1> QED
  BY <1>8, <1>9, <1>10

\* An end that has read the verack of an end of ours has read all it writes.
LEMMA VerackIsLast ==
  ASSUME TypeOK, NEW n \in Own, Remote[n] \in Own, Log(Remote[n]), "Verack" \in ReadBy(n)
  PROVE  cursor[n] = Len(sent[Remote[n]]) /\ ReadBy(n) = Written(Remote[n])
<1> DEFINE log == sent[Remote[n]]
           ls == Len(log)
<1>1. n \in Node /\ Remote[n] \in Node
  BY DEF Own
<1>2. cursor[n] \in Nat /\ ls \in Nat /\ cursor[n] <= ls
  BY <1>1 DEF TypeOK
<1>3. PICK i \in 1..cursor[n] : log[i].type = "Verack"
  BY DEF ReadBy
<1>4. i \in 1..ls
  <2> HIDE DEF ls
  <2> QED
    BY <1>2
<1>5. i = ls
  BY Zenon, <1>3, <1>4, LogTypes
<1>6. cursor[n] = ls
  <2> HIDE DEF ls
  <2> QED
    BY <1>2, <1>5
<1>7. DOMAIN log = 1..ls
  BY <1>1 DEF TypeOK
<1> QED
  BY <1>6, <1>7 DEF ReadBy, Written, Range

\* The version that an end has from an end of ours is the one it advertises.
LEMMA PeerIsRemote ==
  ASSUME TypeOK, NEW n \in Own, Remote[n] \in Own, Log(Remote[n]), Source(n),
         effective_protocol_version[n] # Unknown
  PROVE  /\ effective_protocol_version[n] = Min({local_version(n), local_version(Remote[n])})
         /\ our_nonce[Remote[n]] # our_nonce[n]
<1> DEFINE log == sent[Remote[n]]
           ls == Len(log)
<1>1. n \in Node /\ Remote[n] \in Node
  BY DEF Own
<1>2. /\ peer[n] # 0 /\ peer[n] <= cursor[n] /\ log[peer[n]].type = "Version"
      /\ log[peer[n]].nonce # our_nonce[n]
      /\ effective_protocol_version[n] = Min({local_version(n), log[peer[n]].version})
  BY Zenon DEF Source
<1>3. peer[n] \in Nat /\ cursor[n] \in Nat /\ ls \in Nat /\ cursor[n] <= ls
  BY <1>1 DEF TypeOK
<1>4. peer[n] \in 1..ls
  <2> DEFINE p == peer[n]
             c == cursor[n]
  <2>1. p # 0 /\ p <= c /\ p \in Nat /\ c \in Nat /\ ls \in Nat /\ c <= ls
    BY Zenon, <1>2, <1>3
  <2> HIDE DEF ls, p, c
  <2>2. p \in 1..ls
    BY <2>1
  <2> QED
    BY Zenon, <2>2 DEF p
<1> QED
  BY Zenon, <1>2, <1>4, LogTypes

-----------------------------------------------------------------------------
\* Type correctness: every variable keeps its type, and no end of ours reads what
\* was not written.
THEOREM TypeCorrect == Spec => []TypeOK
<1>1. IInv => TypeOK
  BY DEF IInv
<1> QED
  BY <1>1, Inductive, PTL

\* Whatever the remote sends, a feature is enabled only if this end prefers and
\* has offered it, the remote's offer has been read, and the effective version
\* supports it (send_negotiation_messages(), on_send() and on_receive()).
THEOREM OffersAreEarned == Spec => []EnabledIsEarned
<1>1. ASSUME IInv
      PROVE  EnabledIsEarned
  <2> SUFFICES ASSUME NEW n \in Own, NEW f \in Feature, negotiation[n][f] = "Enabled"
               PROVE  /\ f \in feature_preferences[n] /\ f \in Written(n) /\ f \in ReadBy(n)
                      /\ effective_protocol_version[n] # Unknown
                      /\ effective_protocol_version[n] >= FeatureMinVersion[f]
    BY DEF EnabledIsEarned
  <2>1. TypeOK /\ Log(n) /\ Features(n) /\ n \in Node
    BY <1>1 DEF IInv, Own
  <2>2. f \in Written(n) /\ f \in ReadBy(n)
    BY <2>1 DEF Features
  <2>3. PICK i \in 1..Len(sent[n]) : sent[n][i].type = f
    BY <2>1, <2>2, WrittenAt
  <2> QED
    BY Zenon, <2>1, <2>2, <2>3, LogTypes
<1> QED
  BY <1>1, Inductive, PTL

\* Whatever the remote sends, perform_handshake() writes its version first and
\* once, no message twice and nothing after its verack.
THEOREM WritesAreOrdered == Spec => []WritesInOrder
<1>1. ASSUME IInv
      PROVE  WritesInOrder
  <2> SUFFICES ASSUME NEW n \in Own, NEW i \in 1..Len(sent[n]), NEW j \in 1..Len(sent[n]), i < j
               PROVE  /\ sent[n][1].type = "Version"
                      /\ sent[n][i].type # sent[n][j].type
                      /\ sent[n][i].type # "Verack"
    BY DEF WritesInOrder
  <2> DEFINE effective == effective_protocol_version[n]
             r == Reply(n, effective)
             ls == Len(sent[n])
             lt == Len(todo[n])
             lr == Len(r)
  <2>1. TypeOK /\ Log(n) /\ n \in Node
    BY <1>1 DEF IInv, Own
  <2>2. ls \in Nat /\ lt \in Nat
    BY <2>1 DEF TypeOK
  <2>3. i \in Nat /\ j \in Nat /\ 1 <= i /\ j <= ls /\ i # ls /\ j # 1 /\ j \in 2..ls /\ 1 \in 1..ls
    <3>1. i \in 1..ls /\ j \in 1..ls
      OBVIOUS
    <3> HIDE DEF ls
    <3> QED
      BY <2>2, <3>1
  <2>4. sent[n][1].type = "Version" /\ sent[n][j].type # "Version"
    BY <2>1, <2>3, LogTypes
  <2>5. sent[n][i].type # "Verack"
    BY <2>1, <2>3, LogTypes
  <2>6. CASE i = 1
    BY <2>4, <2>5, <2>6
  <2>7. CASE i # 1
    <3>1. effective # Unknown
      BY <2>1, <2>3, LogShape
    <3>2. ls + lt <= lr + 1 /\ \A x \in 2..ls : sent[n][x] = r[x - 1]
      BY Zenon, <2>1, <3>1 DEF Log
    <3>3. effective \in Nat
      BY <2>1, <3>1, VersionsAreNumbers DEF TypeOK
    <3>4. lr \in Nat /\ \A x, y \in 1..lr : x < y => r[x].type # r[y].type
      BY <3>3, ReplyShape
    <3> HIDE DEF ls, lt, lr, r
    <3>5. i \in 2..ls /\ i - 1 \in 1..lr /\ j - 1 \in 1..lr /\ i - 1 < j - 1
      BY <2>2, <2>3, <2>7, <3>2, <3>4
    <3>6. sent[n][i] = r[i - 1] /\ sent[n][j] = r[j - 1]
      BY <2>3, <3>2, <3>5
    <3> QED
      BY <2>4, <2>5, <3>4, <3>5, <3>6
  <2> QED
    BY <2>6, <2>7
<1> QED
  BY <1>1, Inductive, PTL

\* The handshake is complete exactly when a version and a verack of the remote
\* have been read, in either order, and answered with a verack.
THEOREM CompleteIsExchanged == Spec => []CompleteIffExchanged
<1>1. ASSUME IInv
      PROVE  CompleteIffExchanged
  <2> SUFFICES ASSUME NEW n \in Own, state[n] \in HandshakeState
               PROVE  state[n] = "Complete" <=>
                        {"Version", "Verack"} \subseteq ReadBy(n) /\ "Verack" \in Written(n)
    BY DEF CompleteIffExchanged
  <2>1. TypeOK /\ Log(n) /\ Reads(n) /\ n \in Node
    BY <1>1 DEF IInv, Own
  <2>2. CASE state[n] = "Complete"
    BY <2>1, <2>2, LogSays, AnsweredWrote DEF Reads, HandshakeState
  <2>3. ASSUME {"Version", "Verack"} \subseteq ReadBy(n), "Verack" \in Written(n),
               state[n] # "Complete"
        PROVE  FALSE
    <3>1. state[n] = "VerackReceived" /\ effective_protocol_version[n] # Unknown
      BY <2>1, <2>3 DEF Reads, HandshakeState
    <3>2. todo[n] # <<>>
      BY <2>1, <3>1, LogSays
    <3>3. PICK i \in 1..Len(sent[n]) : sent[n][i].type = "Verack"
      BY <2>1, <2>3, WrittenAt
    <3> QED
      BY <2>1, <3>2, <3>3, LogTypes
  <2> QED
    BY <2>2, <2>3
<1> QED
  BY <1>1, Inductive, PTL

\* The Peer and the effective version both come from the first version message
\* read, however many follow (handle_version_message()).
THEOREM FirstVersion == Spec => []FirstVersionCounts
<1>1. ASSUME IInv
      PROVE  FirstVersionCounts
  <2> SUFFICES ASSUME NEW n \in Own
               PROVE  LET read == {i \in 1..cursor[n] : sent[Remote[n]][i].type = "Version"}
                      IN  /\ effective_protocol_version[n] # Unknown <=> peer[n] # 0
                          /\ peer[n] # 0 =>
                               /\ peer[n] = Min(read)
                               /\ effective_protocol_version[n] =
                                    Min({local_version(n), sent[Remote[n]][peer[n]].version})
                          /\ state[n] = "Complete" => peer[n] # 0
    BY Zenon DEF FirstVersionCounts
  <2> DEFINE read == {i \in 1..cursor[n] : sent[Remote[n]][i].type = "Version"}
  <2>1. TypeOK /\ Log(n) /\ Source(n) /\ n \in Node
    BY <1>1 DEF IInv, Own
  <2>2. peer[n] \in Nat /\ cursor[n] \in Nat
    BY <2>1 DEF TypeOK
  <2>3. ASSUME peer[n] # 0
        PROVE  peer[n] = Min(read)
    <3>1. /\ peer[n] <= cursor[n] /\ sent[Remote[n]][peer[n]].type = "Version"
          /\ \A i \in 1..(peer[n] - 1) : sent[Remote[n]][i].type # "Version"
      BY Zenon, <2>1, <2>3 DEF Source
    <3>2. read \in SUBSET Nat /\ peer[n] \in read
      BY <2>2, <2>3, <3>1
    <3>3. ASSUME NEW x \in read, ~(peer[n] <= x)
          PROVE  FALSE
      <4>1. x \in Nat /\ x >= 1 /\ x \in 1..(peer[n] - 1)
        BY <2>2, <3>3
      <4> QED
        BY Zenon, <3>1, <3>3, <4>1
    <3>4. \A x \in read : peer[n] <= x
      BY <3>3
    <3> HIDE DEF read
    <3> QED
      BY Zenon, <3>2, <3>4, MinIs
  <2>4. state[n] = "Complete" => peer[n] # 0
    BY Zenon, <2>1, LogSays DEF Source
  <2> QED
    BY Zenon, <2>1, <2>3, <2>4 DEF Source
<1> QED
  BY <1>1, Inductive, PTL

\* Between ends with equal nonces no handshake completes, in whatever order the
\* messages are read (the comparison in handle_version_message()).
THEOREM NoncesDiffer == Spec => []EqualNoncesNeverComplete
<1>1. ASSUME IInv
      PROVE  EqualNoncesNeverComplete
  <2> SUFFICES ASSUME NEW n \in Own, Remote[n] \in Own, state[n] = "Complete"
               PROVE  our_nonce[n] # our_nonce[Remote[n]]
    BY DEF EqualNoncesNeverComplete
  <2>1. TypeOK /\ Log(n) /\ Source(n) /\ Log(Remote[n])
    BY <1>1 DEF IInv
  <2> QED
    BY Zenon, <2>1, LogSays, PeerIsRemote
<1> QED
  BY <1>1, Inductive, PTL

\* What holds between two ends that have both completed: each has read all the
\* other wrote, and both have the smaller of the two advertised versions.
LEMMA WhenBothComplete ==
  ASSUME IInv, NEW n \in Own, BothComplete(n)
  PROVE  LET k == Remote[n] IN
         /\ k \in Own /\ Remote[k] = n /\ state[k] = "Complete" /\ state[n] = "Complete"
         /\ TypeOK /\ Log(n) /\ Log(k) /\ Features(n) /\ Features(k)
         /\ ReadBy(n) = Written(k) /\ ReadBy(k) = Written(n)
         /\ effective_protocol_version[n] = Min({local_version(n), local_version(k)})
         /\ effective_protocol_version[k] = effective_protocol_version[n]
<1> DEFINE k == Remote[n]
<1>1. k \in Own /\ state[k] = "Complete" /\ state[n] = "Complete" /\ n \in Node
  BY DEF BothComplete, Own
<1>2. Remote[k] = n
  BY <1>1, NodeAssumption
<1>3. /\ TypeOK /\ Log(n) /\ Log(k) /\ Reads(n) /\ Reads(k) /\ Source(n) /\ Source(k)
      /\ Features(n) /\ Features(k)
  BY <1>1 DEF IInv
<1>4. effective_protocol_version[n] # Unknown /\ effective_protocol_version[k] # Unknown
  BY <1>1, <1>3, LogSays
<1>5. "Verack" \in ReadBy(n) /\ "Verack" \in ReadBy(k)
  BY <1>1, <1>3 DEF Reads
<1> HIDE DEF k
<1>6. Remote[n] = k
  BY DEF k
<1>7. ReadBy(n) = Written(k) /\ ReadBy(k) = Written(n)
  BY <1>1, <1>2, <1>3, <1>5, <1>6, VerackIsLast
<1>8. /\ effective_protocol_version[n] = Min({local_version(n), local_version(k)})
      /\ effective_protocol_version[k] = Min({local_version(k), local_version(n)})
  BY Zenon, <1>1, <1>2, <1>3, <1>4, <1>6, PeerIsRemote
<1>9. {local_version(n), local_version(k)} = {local_version(k), local_version(n)}
  OBVIOUS
<1> QED
  BY Zenon, <1>1, <1>2, <1>3, <1>6, <1>7, <1>8, <1>9

\* When both handshakes have completed, the ends agree on the effective version
\* and on every feature, for any configurations of the two.
THEOREM EndsAgree == Spec => []Agreement
<1>1. ASSUME IInv
      PROVE  Agreement
  <2> SUFFICES ASSUME NEW n \in Own, BothComplete(n), NEW f \in Feature
               PROVE  negotiation[n][f] = Mirror[negotiation[Remote[n]][f]]
    BY Zenon, <1>1, WhenBothComplete DEF Agreement
  <2> DEFINE k == Remote[n]
             s == negotiation[n][f]
             t == negotiation[k][f]
  <2>1. /\ k \in Own /\ Features(n) /\ Features(k) /\ TypeOK
        /\ ReadBy(n) = Written(k) /\ ReadBy(k) = Written(n)
    BY Zenon, <1>1, WhenBothComplete
  <2>2. s \in NegotiationState /\ t \in NegotiationState
    <3>1. n \in Node /\ k \in Node /\ negotiation \in [Node -> [Feature -> NegotiationState]]
      BY Zenon, <2>1 DEF TypeOK, Own
    <3> HIDE DEF k
    <3> QED
      BY <3>1
  <2>3. /\ s \in {"SentOnly", "Enabled"} <=> t \in {"ReceivedOnly", "Enabled"}
        /\ s \in {"ReceivedOnly", "Enabled"} <=> t \in {"SentOnly", "Enabled"}
    BY Zenon, <2>1 DEF Features
  <2> HIDE DEF s, t
  <2>4. s = Mirror[t]
    BY <2>2, <2>3 DEF Mirror, NegotiationState
  <2> QED
    BY <2>4 DEF s, t
<1> QED
  BY <1>1, Inductive, PTL

\* When both handshakes have completed, a feature is enabled exactly when both
\* ends prefer it and both advertised versions support it.
THEOREM EnabledIsWanted == Spec => []EnabledIffWanted
<1>1. ASSUME IInv
      PROVE  EnabledIffWanted
  <2> SUFFICES ASSUME NEW n \in Own, BothComplete(n), NEW f \in Feature
               PROVE  negotiation[n][f] = "Enabled" <=>
                        \A x \in {n, Remote[n]} :
                          f \in feature_preferences[x] /\ local_version(x) >= FeatureMinVersion[f]
    BY DEF EnabledIffWanted
  <2> DEFINE k == Remote[n]
             e == effective_protocol_version[n]
             a == local_version(n)
             b == local_version(k)
             m == FeatureMinVersion[f]
  <2>1. /\ k \in Own /\ Features(n) /\ TypeOK /\ Log(n) /\ Log(k)
        /\ state[k] = "Complete" /\ state[n] = "Complete"
        /\ ReadBy(n) = Written(k)
        /\ e = Min({a, b}) /\ effective_protocol_version[k] = e
    BY Zenon, <1>1, WhenBothComplete
  <2>2. negotiation[n][f] = "Enabled" <=> f \in Written(n) /\ f \in Written(k)
    <3>1. n \in Node /\ negotiation \in [Node -> [Feature -> NegotiationState]]
      BY Zenon, <2>1 DEF TypeOK, Own
    <3>2. negotiation[n][f] \in NegotiationState
      BY <3>1
    <3> QED
      BY Zenon, <2>1, <3>2 DEF Features, NegotiationState
  <2>3. /\ f \in Written(n) <=> f \in feature_preferences[n] /\ e >= m
        /\ f \in Written(k) <=> f \in feature_preferences[k] /\ e >= m
    BY Zenon, <2>1, AnsweredWrote
  <2>4. /\ a \in Nat /\ b \in Nat /\ e = IF a <= b THEN a ELSE b
    BY Zenon, <2>1, LocalVersion, EffectiveVersion
  <2>5. m \in Nat
    BY DEF FeatureMinVersion
  <2> HIDE DEF e, a, b, m
  <2>6. e >= m <=> a >= m /\ b >= m
    BY <2>4, <2>5
  <2> QED
    BY <2>2, <2>3, <2>6 DEF a, b, m
<1> QED
  BY <1>1, Inductive, PTL

\* Between two ends of ours no message read after an end has completed changes
\* what it negotiated: the remote's verack is behind all the remote's offers.
THEOREM CompletionIsFinal == Spec => SettledAtCompletion
<1> DEFINE Settled ==
             \A n \in Own : Remote[n] \in Own /\ state[n] = "Complete" =>
               /\ negotiation'[n] = negotiation[n]
               /\ effective_protocol_version'[n] = effective_protocol_version[n]
<1>1. ASSUME IInv, [Next]_vars
      PROVE  [Settled]_vars
  <2> SUFFICES ASSUME NEW k \in Node, Step(k), NEW n \in Own, Remote[n] \in Own,
                      state[n] = "Complete"
               PROVE  /\ negotiation'[n] = negotiation[n]
                      /\ effective_protocol_version'[n] = effective_protocol_version[n]
    BY Zenon, <1>1, StepOfOne
  <2>1. TypeOK /\ Log(n) /\ Reads(n) /\ Log(Remote[n]) /\ n \in Node /\ n \notin Foreign
    BY Zenon, <1>1 DEF IInv, Own
  <2>2. CASE n # k
    BY <2>1, <2>2, OthersStay DEF Same
  <2>3. CASE n = k
    <3>1. todo[n] = <<>>
      BY <2>1, LogSays
    <3>2. cursor[n] = Len(sent[Remote[n]])
      BY <2>1, VerackIsLast DEF Reads
    <3>3. ~Read(n)
      <4> DEFINE ls == Len(sent[Remote[n]])
      <4>1. cursor[n] \in Nat
        BY Zenon, <2>1 DEF TypeOK
      <4>2. Read(n) => cursor[n] < ls
        BY DEF Read
      <4>3. cursor[n] = ls
        BY <3>2
      <4> HIDE DEF ls
      <4> QED
        BY <4>1, <4>2, <4>3
    <3>4. \A nonce \in Nonce : ~SendVersion(n, nonce)
      BY DEF SendVersion
    <3>5. Abort(n) \/ ReadEof(n)
      BY Zenon, <2>1, <2>3, <3>1, <3>3, <3>4
         DEF Step, Handle, ReadVersion, ReadVerack, ReadOffer, ReadOther, WriteNext
    <3> QED
      BY <3>5 DEF Abort, ReadEof
  <2> QED
    BY <2>2, <2>3
<1> QED
  BY <1>1, Inductive, PTL DEF Spec, SettledAtCompletion

\* End n waits for its remote: it has written all it has to write, and has read
\* all there is to read.
Waits(n) ==
  /\ state[n] \in HandshakeState \ {"Complete"}
  /\ todo[n] = <<>>
  /\ cursor[n] = Len(sent[Remote[n]])

\* Where two ends of ours wait in perform_handshake(), one of them does not wait
\* for long: a remote that is waited for is gone, which ends the wait, or has its
\* version to send, a reply to write or a message to read.
NobodyWaitsForNothing ==
  \A n \in Own : Remote[n] \in Own /\ Waits(n) =>
    \/ state[Remote[n]] \in Gone \cup {"Created"}
    \/ todo[Remote[n]] # <<>>
    \/ cursor[Remote[n]] < Len(sent[n])

\* An end that waits for nothing new has read the version its remote begins with.
LEMMA HasReadVersion ==
  ASSUME TypeOK, NEW n \in Own, Remote[n] \in Own, Log(Remote[n]), Reads(n),
         state[n] \in HandshakeState, state[Remote[n]] \in HandshakeState,
         cursor[n] = Len(sent[Remote[n]])
  PROVE  effective_protocol_version[n] # Unknown
<1> DEFINE ls == Len(sent[Remote[n]])
<1>1. ls \in Nat
  <2>1. sent[Remote[n]] \in Seq(Message)
    BY Zenon DEF TypeOK, Own
  <2> QED
    BY ONLY <2>1
<1>2. ls >= 1
  BY Zenon DEF Log
<1> HIDE DEF ls
<1>3. 1 \in 1..ls
  BY <1>1, <1>2
<1>4. 1 \in 1..Len(sent[Remote[n]])
  BY Zenon, <1>3 DEF ls
<1>5. sent[Remote[n]][1].type = "Version"
  BY Zenon, <1>4, LogTypes
<1>6. "Version" \in ReadBy(n)
  BY Zenon, <1>4, <1>5 DEF ReadBy
<1> QED
  BY Zenon, <1>6 DEF Reads

\* For all configurations, nonces and failures: two ends of ours never wait for
\* each other, and none waits for one that has nothing left to do.
THEOREM NoMutualWait == Spec => []NobodyWaitsForNothing
<1>1. ASSUME IInv
      PROVE  NobodyWaitsForNothing
  <2> SUFFICES ASSUME NEW n \in Own, Remote[n] \in Own, Waits(n),
                      state[Remote[n]] \notin Gone \cup {"Created"},
                      todo[Remote[n]] = <<>>,
                      ~(cursor[Remote[n]] < Len(sent[n]))
               PROVE  FALSE
    BY Zenon DEF NobodyWaitsForNothing
  <2> DEFINE m == Remote[n]
  <2>1. /\ TypeOK /\ n \in Node /\ m \in Node /\ m \in Own /\ Remote[m] = n
        /\ Log(n) /\ Reads(n) /\ Log(m) /\ Reads(m)
    BY Zenon, <1>1, NodeAssumption DEF IInv, Own
  <2>2. state[m] \in HandshakeState
    BY Zenon, <2>1 DEF TypeOK, EndState
  <2>3. cursor[m] = Len(sent[n])
    <3> DEFINE c == cursor[m]
               ls == Len(sent[n])
    <3>1. c \in Nat /\ c <= ls /\ ~(c < ls) /\ sent[n] \in Seq(Message)
      BY Zenon, <2>1 DEF TypeOK
    <3>2. ls \in Nat
      BY ONLY <3>1
    <3> HIDE DEF c, ls
    <3>3. c = ls
      BY <3>1, <3>2
    <3> QED
      BY Zenon, <3>3 DEF c, ls
  <2>4. /\ state[n] \in HandshakeState /\ state[n] # "Complete"
        /\ todo[n] = <<>> /\ cursor[n] = Len(sent[m])
    BY Zenon DEF Waits
  <2> HIDE DEF m
  <2>5. effective_protocol_version[n] # Unknown
    BY Zenon, <2>1, <2>2, <2>4, HasReadVersion DEF m
  <2>6. effective_protocol_version[m] # Unknown
    BY Zenon, <2>1, <2>2, <2>3, <2>4, HasReadVersion
  <2>7. state[n] = "VersionReceived"
    BY Zenon, <2>1, <2>4, <2>5, LogSays DEF HandshakeState
  <2>8. state[m] \in {"VersionReceived", "Complete"}
    BY Zenon, <2>1, <2>2, <2>6, LogSays DEF HandshakeState, m
  <2>9. "Verack" \in Written(m)
    BY Zenon, <2>1, <2>8, AnsweredWrote
  <2>10. PICK i \in 1..Len(sent[m]) : sent[m][i].type = "Verack"
    BY Zenon, <2>1, <2>9, WrittenAt
  <2>11. "Verack" \in ReadBy(n)
    BY Zenon, <2>4, <2>10 DEF ReadBy, m
  <2> QED
    BY Zenon, <2>1, <2>7, <2>11 DEF Reads
<1> QED
  BY <1>1, Inductive, PTL

\* An end of ours writes five messages at most, its version, three offers and
\* its verack, however many versions, veracks and offers it is sent.
WritesAreFew ==
  \A n \in Own : Len(sent[n]) <= 5

\* What a remote sends never makes an end write more.
THEOREM WritesAreBounded == Spec => []WritesAreFew
<1>1. ASSUME IInv
      PROVE  WritesAreFew
  <2> SUFFICES ASSUME NEW n \in Own
               PROVE  Len(sent[n]) <= 5
    BY Zenon DEF WritesAreFew
  <2> DEFINE effective == effective_protocol_version[n]
             ls == Len(sent[n])
             lt == Len(todo[n])
             lr == Len(Reply(n, effective))
  <2>1. TypeOK /\ Log(n) /\ n \in Node
    BY Zenon, <1>1 DEF IInv, Own
  <2>2. ls \in Nat /\ lt \in Nat
    BY <2>1 DEF TypeOK
  <2>3. CASE effective = Unknown
    <3>1. ls <= 1
      BY Zenon, <2>1, <2>3 DEF Log
    <3> HIDE DEF ls
    <3>2. ls <= 5
      BY <2>2, <3>1
    <3> QED
      BY Zenon, <3>2 DEF ls
  <2>4. CASE effective # Unknown
    <3>1. ls + lt <= lr + 1
      BY Zenon, <2>1, <2>4 DEF Log
    <3>2. effective \in Nat
      BY <2>1, <2>4, VersionsAreNumbers DEF TypeOK
    <3>3. lr \in Nat /\ lr <= 4
      BY Zenon, <3>2, ReplyShape
    <3> HIDE DEF ls, lt, lr
    <3>4. ls <= 5
      BY <2>2, <3>1, <3>3
    <3> QED
      BY Zenon, <3>4 DEF ls
  <2> QED
    BY Zenon, <2>3, <2>4
<1> QED
  BY <1>1, Inductive, PTL
=============================================================================
