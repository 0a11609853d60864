---------------------------- MODULE GetPeersProofs ----------------------------
(***************************************************************************)
(* Proofs about get_peers() for all timeouts and any number of messages.   *)
(***************************************************************************)
EXTENDS GetPeers, TLAPS

\* The timeout of a read is at most each of the two it is the minimum of, and
\* is a natural number.
LEMMA MinOfTwo ==
  ASSUME NEW a \in Nat, NEW b \in Nat
  PROVE  /\ Min({a, b}) \in Nat
         /\ Min({a, b}) <= a
         /\ Min({a, b}) <= b
<1> DEFINE P(x) == x \in {a, b} /\ \A y \in {a, b} : x <= y
<1>1. \E x \in {a, b} : \A y \in {a, b} : x <= y
  <2>1. CASE a <= b
    BY <2>1
  <2>2. CASE b <= a
    BY <2>2
  <2> QED
    BY <2>1, <2>2
<1>2. /\ Min({a, b}) \in {a, b}
      /\ \A y \in {a, b} : Min({a, b}) <= y
  BY <1>1 DEF Min
<1> QED
  BY <1>2

\* What is known of the clocks.  Before start_time all time was untimed; a
\* deadline is never beyond what peer_timeout and the untimed steps allow, and
\* time does not run past the deadline of the read in progress.
Clocks ==
  /\ peer_timeout \in Nat
  /\ pc \in Step
  /\ now \in Nat
  /\ untimed \in Nat
  /\ start_time \in Nat
  /\ deadline \in Nat
  /\ start_time <= now
  /\ start_time <= untimed
  /\ pc = "write_getaddr" => now <= untimed
  /\ pc = "read" => deadline <= peer_timeout + untimed
  /\ now <= peer_timeout + untimed

\* Every step keeps the clocks within their bounds.
LEMMA ClocksStep == Clocks /\ [Next]_vars => Clocks'
<1> SUFFICES ASSUME Clocks, [Next]_vars
             PROVE  Clocks'
  OBVIOUS
<1> USE TimeAssumption DEF Clocks, Step, Writing, Done
<1>1. CASE WriteGetAddr
  BY <1>1 DEF WriteGetAddr, ReturnErr
<1>2. CASE CheckElapsed
  BY <1>2 DEF CheckElapsed
<1>3. CASE EnterRead
  <2> DEFINE left == saturating_sub(peer_timeout, elapsed)
  <2>1. /\ left \in Nat
        /\ now + left <= peer_timeout + untimed
    BY DEF saturating_sub, elapsed
  <2>2. /\ Min({READ_TIMEOUT, left}) \in Nat
        /\ Min({READ_TIMEOUT, left}) <= left
    BY <2>1, MinOfTwo
  <2> HIDE DEF left
  <2>3. /\ deadline' = now + Min({READ_TIMEOUT, left})
        /\ pc' = "read"
        /\ UNCHANGED <<peer_timeout, now, untimed, start_time>>
    BY <1>3 DEF EnterRead, left
  <2> HIDE DEF Clocks
  <2>4. deadline' \in Nat /\ deadline' <= peer_timeout + untimed
    BY <2>1, <2>2, <2>3 DEF Clocks
  <2> QED
    BY <2>3, <2>4 DEF Clocks
<1>4. CASE ReadMessage
  BY <1>4 DEF ReadMessage
<1>5. CASE ReadError
  BY <1>5 DEF ReadError, ReturnErr
<1>6. CASE ReadTimeout
  BY <1>6 DEF ReadTimeout
<1>7. CASE WritePong
  BY <1>7 DEF WritePong, ReturnErr
<1>8. CASE Tick
  BY <1>8 DEF Tick
<1>9. ASSUME NEW m \in Message, RemoteSend(m)
      PROVE  Clocks'
  BY <1>9 DEF RemoteSend
<1>10. CASE RemoteClose
  BY <1>10 DEF RemoteClose
<1>11. CASE UNCHANGED vars
  BY <1>11 DEF vars
<1> QED
  BY <1>1, <1>2, <1>3, <1>4, <1>5, <1>6, <1>7, <1>8, <1>9, <1>10, <1>11
     DEF Next, Compute, Returned

\* For every peer_timeout and READ_TIMEOUT, the reads of get_peers() together
\* take no longer than peer_timeout.
THEOREM ReadTimeIsBounded == Spec => []ReadsWithinTimeout
<1>1. Init => Clocks
  BY TimeAssumption DEF Init, Clocks, Step, Writing, Done
<1>2. Clocks => ReadsWithinTimeout
  BY DEF Clocks, ReadsWithinTimeout
<1> QED
  BY <1>1, <1>2, ClocksStep, PTL DEF Spec

\* What the result holds: the numbers of the address messages among those read,
\* in increasing order, or nothing after an error.
Results ==
  /\ sent \in Seq(Message)
  /\ cursor \in Nat
  /\ cursor <= Len(sent)
  /\ all_peers \in Seq(1..cursor)
  /\ \A k \in 1..Len(all_peers) : sent[all_peers[k]] = "addr"
  /\ pc # "error" =>
       \A i \in 1..cursor :
         sent[i] = "addr" => \E k \in 1..Len(all_peers) : all_peers[k] = i
  /\ pc = "error" => all_peers = <<>>
  /\ \A i, j \in 1..Len(all_peers) : i < j => all_peers[i] < all_peers[j]

\* A call that returns Ok before its time is up has read all that has arrived.
AllRead ==
  pc = "ok" /\ elapsed < peer_timeout => cursor = Len(sent)

\* A message that is read is collected if it has addresses, and what was
\* collected before is kept.
LEMMA ReadMessageResults == Results /\ ReadMessage => Results'
<1> SUFFICES ASSUME Results, ReadMessage
             PROVE  Results'
  OBVIOUS
<1>1. /\ cursor < Len(sent)
      /\ cursor' = cursor + 1
      /\ sent' = sent
      /\ all_peers' = IF sent[cursor + 1] = "addr" THEN Append(all_peers, cursor + 1)
                      ELSE all_peers
      /\ pc # "error"
      /\ pc' # "error"
  BY DEF ReadMessage, Incoming
<1>2. /\ cursor \in Nat
      /\ Len(sent) \in Nat
      /\ cursor + 1 \in 1..Len(sent)
      /\ \A k \in 1..Len(all_peers) : all_peers[k] \in 1..cursor
      /\ Len(all_peers) \in Nat
  BY <1>1 DEF Results
<1>3. CASE sent[cursor + 1] = "addr"
  <2>1. all_peers' = Append(all_peers, cursor + 1)
    BY <1>1, <1>3
  <2>2. all_peers \in Seq(1..(cursor + 1))
    BY <1>2 DEF Results
  <2>3. /\ all_peers' \in Seq(1..(cursor + 1))
        /\ Len(all_peers') = Len(all_peers) + 1
        /\ \A k \in 1..Len(all_peers) : all_peers'[k] = all_peers[k]
        /\ all_peers'[Len(all_peers) + 1] = cursor + 1
    BY <1>2, <2>1, <2>2
  <2> DEFINE n == Len(all_peers)
             new == all_peers'
  <2>4. /\ \A k \in 1..n : sent[all_peers[k]] = "addr"
        /\ \A i \in 1..cursor :
             sent[i] = "addr" => \E k \in 1..n : all_peers[k] = i
        /\ \A i, j \in 1..n : i < j => all_peers[i] < all_peers[j]
    BY <1>1 DEF Results
  <2>5. /\ n \in Nat
        /\ new \in Seq(1..(cursor + 1))
        /\ Len(new) = n + 1
        /\ \A k \in 1..n : new[k] = all_peers[k]
        /\ new[n + 1] = cursor + 1
    BY <1>2, <2>3
  <2> HIDE DEF n, new
  <2>6. ASSUME NEW k \in 1..Len(new)
        PROVE  sent[new[k]] = "addr"
    <3>1. CASE k \in 1..n
      BY <2>4, <2>5, <3>1
    <3>2. CASE k = n + 1
      BY <1>3, <2>5, <3>2
    <3> QED
      BY <2>5, <3>1, <3>2
  <2>7. ASSUME NEW i \in 1..(cursor + 1), sent[i] = "addr"
        PROVE  \E k \in 1..Len(new) : new[k] = i
    <3>1. CASE i \in 1..cursor
      <4>1. PICK k \in 1..n : all_peers[k] = i
        BY <2>4, <2>7, <3>1
      <4>2. k \in 1..Len(new) /\ new[k] = i
        BY <2>5, <4>1
      <4> QED
        BY <4>2
    <3>2. CASE i = cursor + 1
      <4>1. n + 1 \in 1..Len(new) /\ new[n + 1] = i
        BY <2>5, <3>2
      <4> QED
        BY <4>1
    <3> QED
      BY <1>2, <3>1, <3>2
  <2>8. ASSUME NEW i \in 1..Len(new), NEW j \in 1..Len(new), i < j
        PROVE  new[i] < new[j]
    <3>1. i \in 1..n
      BY <2>5, <2>8
    <3>2. all_peers[i] \in 1..cursor
      BY <1>2, <3>1 DEF n
    <3>3. CASE j \in 1..n
      BY <2>4, <2>5, <2>8, <3>1, <3>3
    <3>4. CASE j = n + 1
      BY <1>2, <2>5, <3>1, <3>2, <3>4
    <3> QED
      BY <2>5, <3>3, <3>4
  <2>9. /\ sent' \in Seq(Message)
        /\ cursor' \in Nat
        /\ cursor' <= Len(sent')
    BY <1>1, <1>2 DEF Results
  <2> QED
    BY Zenon, <1>1, <2>5, <2>6, <2>7, <2>8, <2>9 DEF Results, new
<1>4. CASE sent[cursor + 1] # "addr"
  <2>1. all_peers' = all_peers
    BY <1>1, <1>4
  <2>2. all_peers \in Seq(1..(cursor + 1))
    BY <1>2 DEF Results
  <2>3. \A i \in 1..(cursor + 1) :
          sent[i] = "addr" => \E k \in 1..Len(all_peers) : all_peers[k] = i
    BY <1>1, <1>2, <1>4 DEF Results
  <2>4. /\ sent' \in Seq(Message)
        /\ cursor' \in Nat
        /\ cursor' <= Len(sent')
    BY <1>1, <1>2 DEF Results
  <2>5. \A i \in 1..cursor' :
          sent'[i] = "addr" => \E k \in 1..Len(all_peers') : all_peers'[k] = i
    BY Zenon, <1>1, <2>1, <2>3
  <2>6. all_peers' \in Seq(1..cursor')
    BY Zenon, <1>1, <2>1, <2>2
  <2>7. \A k \in 1..Len(all_peers') : sent'[all_peers'[k]] = "addr"
    BY Zenon, <1>1, <2>1 DEF Results
  <2>8. \A i, j \in 1..Len(all_peers') : i < j => all_peers'[i] < all_peers'[j]
    BY Zenon, <2>1 DEF Results
  <2> QED
    BY Zenon, <1>1, <2>4, <2>5, <2>6, <2>7, <2>8 DEF Results
<1> QED
  BY <1>3, <1>4

\* The remote's next message does not change what was read.
LEMMA RemoteSendResults ==
  ASSUME Results, NEW m \in Message, RemoteSend(m)
  PROVE  Results'
<1>1. /\ sent' = Append(sent, m)
      /\ cursor' = cursor
      /\ all_peers' = all_peers
      /\ pc' = pc
  BY DEF RemoteSend
<1>2. /\ sent' \in Seq(Message)
      /\ Len(sent') = Len(sent) + 1
      /\ Len(sent) \in Nat
      /\ \A i \in 1..Len(sent) : sent'[i] = sent[i]
  BY <1>1 DEF Results
<1>3. \A i \in 1..cursor : sent'[i] = sent[i]
  BY <1>2 DEF Results
<1>4. \A k \in 1..Len(all_peers) : all_peers[k] \in 1..cursor
  BY DEF Results
<1> QED
  BY <1>1, <1>2, <1>3, <1>4 DEF Results

\* Every step keeps the result in line with what was read.
LEMMA ResultsStep == Results /\ [Next]_vars => Results'
<1> SUFFICES ASSUME Results, [Next]_vars
             PROVE  Results'
  OBVIOUS
<1>1. CASE UNCHANGED <<all_peers, sent, cursor>> /\ (pc' = "error" <=> pc = "error")
  BY Zenon, <1>1 DEF Results
<1>2. CASE ReadMessage
  BY <1>2, ReadMessageResults
<1>3. ASSUME NEW m \in Message, RemoteSend(m)
      PROVE  Results'
  BY <1>3, RemoteSendResults
<1>4. CASE ReturnErr /\ UNCHANGED <<sent, cursor>>
  <2>1. /\ all_peers' = <<>>
        /\ pc' = "error"
        /\ sent' = sent
        /\ cursor' = cursor
    BY Zenon, <1>4 DEF ReturnErr
  <2> QED
    BY <2>1 DEF Results
<1>5. \/ UNCHANGED <<all_peers, sent, cursor>> /\ (pc' = "error" <=> pc = "error")
      \/ ReadMessage
      \/ \E m \in Message : RemoteSend(m)
      \/ ReturnErr /\ UNCHANGED <<sent, cursor>>
  BY DEF Next, Compute, vars, WriteGetAddr, CheckElapsed, EnterRead, ReadError,
         ReadTimeout, WritePong, Tick, RemoteClose, Returned
<1> QED
  BY Zenon, <1>1, <1>2, <1>3, <1>4, <1>5

\* No step makes a call return with something left unread, unless its time is up.
LEMMA AllReadStep == AllRead /\ [Next]_vars => AllRead'
<1> SUFFICES ASSUME AllRead, [Next]_vars, pc' = "ok"
             PROVE  (elapsed < peer_timeout => cursor = Len(sent))'
  BY DEF AllRead
<1>1. CASE CheckElapsed
  BY Zenon, <1>1 DEF CheckElapsed, elapsed
<1>2. CASE ReadTimeout
  BY Zenon, <1>2 DEF ReadTimeout
<1>3. CASE UNCHANGED vars
  BY Zenon, <1>3 DEF AllRead, elapsed, vars
<1>4. CheckElapsed \/ ReadTimeout \/ UNCHANGED vars
  BY DEF Next, Compute, WriteGetAddr, ReturnErr, EnterRead, ReadMessage, ReadError,
         WritePong, Tick, RemoteSend, RemoteClose, Returned, Writing, Done
<1> QED
  BY Zenon, <1>1, <1>2, <1>3, <1>4

\* Whatever the remote sends and however the timeouts fall, Ok has the peers of
\* all that was read, which is all that had arrived unless the time was up, and
\* Err has none.
THEOREM ResultIsExact == Spec => []ReturnsWhatArrived
<1>1. Init => Results /\ AllRead
  BY DEF Init, Results, AllRead
<1>2. Results /\ AllRead => ReturnsWhatArrived
  <2> SUFFICES ASSUME Results, pc # "error"
               PROVE  Range(all_peers) = {i \in 1..cursor : sent[i] = "addr"}
    BY DEF Results, AllRead, ReturnsWhatArrived
  <2>1. /\ DOMAIN all_peers = 1..Len(all_peers)
        /\ \A k \in 1..Len(all_peers) : all_peers[k] \in 1..cursor
    BY DEF Results
  <2>2. ASSUME NEW x \in Range(all_peers)
        PROVE  x \in 1..cursor /\ sent[x] = "addr"
    <3>1. PICK k \in 1..Len(all_peers) : all_peers[k] = x
      BY <2>1, <2>2 DEF Range
    <3> QED
      BY <2>1, <3>1 DEF Results
  <2>3. ASSUME NEW x \in 1..cursor, sent[x] = "addr"
        PROVE  x \in Range(all_peers)
    <3>1. PICK k \in 1..Len(all_peers) : all_peers[k] = x
      BY <2>3 DEF Results
    <3> QED
      BY <2>1, <3>1 DEF Range
  <2> QED
    BY <2>2, <2>3
<1> QED
  BY <1>1, <1>2, ResultsStep, AllReadStep, PTL DEF Spec

\* get_peers() returns early only with peers in hand and nothing left unread.
THEOREM EarlyReturnIsEarned == Spec => EarlyReturnHasPeers
<1>1. Clocks /\ [Next]_vars =>
        [pc' = "ok" /\ pc # "ok" =>
           \/ elapsed >= peer_timeout
           \/ all_peers # <<>> /\ cursor = Len(sent)]_vars
  <2> SUFFICES ASSUME Clocks, [Next]_vars, pc' = "ok", pc # "ok"
               PROVE  \/ elapsed >= peer_timeout
                      \/ all_peers # <<>> /\ cursor = Len(sent)
    BY DEF vars
  <2>1. CheckElapsed \/ ReadTimeout
    BY DEF Next, Compute, vars, WriteGetAddr, EnterRead, ReadMessage, ReadError,
           ReturnErr, WritePong, Tick, RemoteSend, RemoteClose, Returned
  <2>2. CASE CheckElapsed
    BY <2>2 DEF CheckElapsed, Clocks, elapsed
  <2>3. CASE ReadTimeout
    BY <2>3 DEF ReadTimeout
  <2> QED
    BY <2>1, <2>2, <2>3
<1>2. Init => Clocks
  BY TimeAssumption DEF Init, Clocks, Step, Writing, Done
<1> QED
  BY <1>1, <1>2, ClocksStep, PTL DEF Spec, EarlyReturnHasPeers

\* The bounds within which the model keeps time and messages, and the deadline
\* of a read, which is at most READ_TIMEOUT away when it is set.
Bounds ==
  /\ peer_timeout \in PeerTimeout
  /\ untimed <= MaxUntimed
  /\ deadline <= now + READ_TIMEOUT
  /\ Len(sent) <= MaxMessages
  /\ closed \in BOOLEAN

\* Every step keeps them.
LEMMA BoundsStep == Clocks /\ Results /\ Bounds /\ [Next]_vars => Bounds'
<1> SUFFICES ASSUME Clocks, Results, Bounds, [Next]_vars
             PROVE  Bounds'
  OBVIOUS
<1> USE TimeAssumption
<1>1. peer_timeout' \in PeerTimeout /\ closed' \in BOOLEAN
  BY Zenon DEF Bounds, Next, Compute, vars, WriteGetAddr, CheckElapsed, EnterRead, ReadMessage,
               ReadError, ReturnErr, ReadTimeout, WritePong, Tick, RemoteSend, RemoteClose, Returned
<1>2. untimed' <= MaxUntimed
  <2>1. untimed' = untimed \/ (untimed < MaxUntimed /\ untimed' = untimed + 1)
    BY Zenon DEF Next, Compute, vars, WriteGetAddr, CheckElapsed, EnterRead, ReadMessage,
                 ReadError, ReturnErr, ReadTimeout, WritePong, Tick, RemoteSend, RemoteClose, Returned
  <2>2. untimed \in Nat /\ untimed <= MaxUntimed
    BY Zenon DEF Clocks, Bounds
  <2> QED
    BY <2>1, <2>2
<1>3. deadline' <= now' + READ_TIMEOUT
  <2>1. now \in Nat /\ deadline \in Nat /\ deadline <= now + READ_TIMEOUT
    BY Zenon DEF Clocks, Bounds
  <2>2. CASE EnterRead
    <3> DEFINE left == saturating_sub(peer_timeout, elapsed)
    <3>1. left \in Nat
      BY DEF saturating_sub, elapsed, Clocks
    <3>2. Min({READ_TIMEOUT, left}) \in Nat /\ Min({READ_TIMEOUT, left}) <= READ_TIMEOUT
      BY <3>1, MinOfTwo
    <3>3. deadline' = now + Min({READ_TIMEOUT, left}) /\ now' = now
      BY Zenon, <2>2 DEF EnterRead
    <3> HIDE DEF left
    <3> QED
      BY <2>1, <3>2, <3>3
  <2>3. CASE deadline' = deadline /\ now' \in {now, now + 1}
    <3>1. now' \in Nat /\ now <= now'
      BY <2>1, <2>3
    <3> DEFINE later == now'
               due == deadline
    <3>2. /\ later \in Nat /\ now \in Nat /\ due \in Nat /\ now <= later
          /\ due <= now + READ_TIMEOUT /\ READ_TIMEOUT \in Nat
      BY Zenon, <2>1, <3>1
    <3> HIDE DEF later, due
    <3>3. due <= later + READ_TIMEOUT
      BY ONLY <3>2
    <3> QED
      BY Zenon, <2>3, <3>3 DEF later, due
  <2>4. EnterRead \/ (deadline' = deadline /\ now' \in {now, now + 1})
    BY Zenon DEF Next, Compute, vars, WriteGetAddr, CheckElapsed, ReadMessage, ReadError,
                 ReturnErr, ReadTimeout, WritePong, Tick, RemoteSend, RemoteClose, Returned
  <2> QED
    BY Zenon, <2>2, <2>3, <2>4
<1>4. Len(sent') <= MaxMessages
  <2>1. CASE sent' = sent
    BY Zenon, <2>1 DEF Bounds
  <2>2. ASSUME NEW m \in Message, RemoteSend(m)
        PROVE  Len(sent') <= MaxMessages
    <3>1. Len(sent) < MaxMessages /\ sent' = Append(sent, m) /\ sent \in Seq(Message)
      BY Zenon, <2>2 DEF RemoteSend, Results
    <3>2. Len(sent) \in Nat /\ Len(Append(sent, m)) = Len(sent) + 1
      BY ONLY <3>1
    <3> DEFINE ls == Len(sent)
    <3>3. ls \in Nat /\ ls < MaxMessages /\ Len(sent') = ls + 1
      BY Zenon, <3>1, <3>2
    <3> HIDE DEF ls
    <3> QED
      BY <3>3
  <2>3. sent' = sent \/ \E m \in Message : RemoteSend(m)
    BY Zenon DEF Next, Compute, vars, WriteGetAddr, CheckElapsed, EnterRead, ReadMessage,
                 ReadError, ReturnErr, ReadTimeout, WritePong, Tick, RemoteClose, Returned
  <2> QED
    BY Zenon, <2>1, <2>2, <2>3
<1> QED
  BY Zenon, <1>1, <1>2, <1>3, <1>4 DEF Bounds

\* The types of the variables: among them, the result names messages that were
\* read, and the deadline of a read lies within READ_TIMEOUT.
THEOREM TypeCorrect == Spec => []TypeOK
<1>1. Init => Clocks /\ Results /\ Bounds
  <2>1. Init => Clocks
    BY TimeAssumption DEF Init, Clocks, Step, Writing, Done
  <2>2. Init => Results
    BY DEF Init, Results
  <2>3. Init => Bounds
    <3>1. Init => untimed <= MaxUntimed /\ deadline <= now + READ_TIMEOUT /\ Len(sent) <= MaxMessages
      BY TimeAssumption DEF Init
    <3> QED
      BY Zenon, <3>1 DEF Init, Bounds
  <2> QED
    BY <2>1, <2>2, <2>3
<1>2. Clocks /\ Results /\ Bounds => TypeOK
  <2> SUFFICES ASSUME Clocks, Results, Bounds
               PROVE  TypeOK
    OBVIOUS
  <2>1. /\ cursor \in Nat /\ cursor <= Len(sent) /\ Len(sent) \in Nat
        /\ Len(sent) <= MaxMessages
    BY DEF Results, Bounds
  <2>2. cursor \in 0..Len(sent) /\ 1..cursor \subseteq 1..MaxMessages
    <3> DEFINE ls == Len(sent)
    <3>1. cursor \in Nat /\ cursor <= ls /\ ls \in Nat /\ ls <= MaxMessages
      BY Zenon, <2>1
    <3> HIDE DEF ls
    <3>2. cursor \in 0..ls /\ 1..cursor \subseteq 1..MaxMessages
      BY <3>1, TimeAssumption
    <3> QED
      BY Zenon, <3>2 DEF ls
  <2>3. all_peers \in Seq(1..MaxMessages)
    <3>1. all_peers \in Seq(1..cursor)
      BY Zenon DEF Results
    <3> DEFINE A == 1..cursor
               B == 1..MaxMessages
    <3>2. all_peers \in Seq(A) /\ A \subseteq B
      BY Zenon, <2>2, <3>1
    <3> HIDE DEF A, B
    <3>3. all_peers \in Seq(B)
      BY ONLY <3>2
    <3> QED
      BY Zenon, <3>3 DEF B
  <2>4. /\ untimed \in 0..MaxUntimed /\ start_time \in 0..now
        /\ deadline \in 0..(now + READ_TIMEOUT)
    BY TimeAssumption DEF Clocks, Bounds
  <2> QED
    BY Zenon, <2>2, <2>3, <2>4 DEF TypeOK, Clocks, Results, Bounds
<1> QED
  BY <1>1, <1>2, ClocksStep, ResultsStep, BoundsStep, PTL DEF Spec
===============================================================================
