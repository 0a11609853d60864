---------------------------- MODULE PingPongProofs ----------------------------
(***************************************************************************)
(* Proofs about the two tasks on a split connection for channels and       *)
(* sockets of any capacity and any number of messages.                     *)
(***************************************************************************)
EXTENDS PingPong, TLAPS

\* TypeOK is inductive: the ping channel never holds more than its capacity.
LEMMA TypeStep == TypeOK /\ [Next]_vars => TypeOK'
<1> SUFFICES ASSUME TypeOK, [Next]_vars
             PROVE  TypeOK'
  OBVIOUS
<1> USE CapacityAssumption DEF TypeOK, Message, Writing, remoteVars, taskVars
<1>1. CASE Connect
  BY <1>1 DEF Connect
<1>2. CASE CtrlC
  BY <1>2 DEF CtrlC
<1>3. CASE Join
  BY <1>3 DEF Join
<1>4. CASE ReceiverShutdown
  BY <1>4 DEF ReceiverShutdown
<1>5. CASE ReadMessage
  BY <1>5 DEF ReadMessage
<1>6. CASE ReadError
  BY <1>6 DEF ReadError
<1>7. CASE SendNonce
  <2>1. CASE channel' = channel
    BY <1>7, <2>1 DEF SendNonce
  <2>2. CASE Len(channel) < PingCapacity /\ channel' = Append(channel, asked)
    <3>1. channel' \in Seq(Nat) /\ Len(channel') = Len(channel) + 1
      BY <2>2
    <3> QED
      BY <1>7, <2>2, <3>1 DEF SendNonce
  <2> QED
    BY <1>7, <2>1, <2>2 DEF SendNonce
<1>8. CASE SenderShutdown
  BY <1>8 DEF SenderShutdown, EndSender
<1>9. CASE TakeNonce
  BY <1>9 DEF TakeNonce
<1>10. CASE Tick
  BY <1>10 DEF Tick
<1>11. CASE Write
  BY <1>11 DEF Write
<1>12. CASE WriteError
  BY <1>12 DEF WriteError, EndSender
<1>13. ASSUME NEW m \in Message, RemoteSend(m)
       PROVE  TypeOK'
  BY <1>13 DEF RemoteSend
<1>14. CASE RemoteRead
  BY <1>14 DEF RemoteRead
<1>15. CASE RemoteLeaves
  BY <1>15 DEF RemoteLeaves
<1>16. CASE Reset
  BY <1>16 DEF Reset
<1>17. CASE UNCHANGED vars
  BY <1>17 DEF vars
<1> QED
  BY <1>1, <1>2, <1>3, <1>4, <1>5, <1>6, <1>7, <1>8, <1>9, <1>10, <1>11, <1>12,
     <1>13, <1>14, <1>15, <1>16, <1>17
     DEF Next, Receiver, Sender, Returned

\* For every capacity, the variables keep their types and the ping channel its
\* bound.
THEOREM TypeCorrect == Spec => []TypeOK
<1>1. Init => TypeOK
  <2> SUFFICES ASSUME Init
               PROVE  TypeOK
    OBVIOUS
  <2>1. /\ channel \in Seq(Nat) /\ Len(channel) <= PingCapacity
        /\ pongs \in Seq(Nat)
        /\ sent \in Seq(Message)
        /\ cursor \in 0..Len(sent)
        /\ outbox \in 0..SocketCapacity
    BY CapacityAssumption DEF Init
  <2> QED
    BY Zenon, <2>1 DEF Init, TypeOK, Writing
<1> QED
  BY <1>1, TypeStep, PTL DEF Spec

\* Where every nonce is.  The pongs carry 1, 2, ... in this order, the sender
\* task has the next one, the channel the ones after it, and the receiver task
\* the last one asked.  The tasks are not spawned before the connection stands.
Pipeline ==
  /\ main = "connect" => recv = "unspawned" /\ send = "unspawned"
  /\ \A i \in 1..Len(pongs) : pongs[i] = i
  /\ send = "write_pong" => hand = Len(pongs) + 1
  /\ \A i \in 1..Len(channel) : channel[i] = Len(pongs) + InSender + i
  /\ NoPingLost
  /\ Len(pongs) <= asked

\* A nonce that is forwarded joins the channel behind the others.
LEMMA SendNonceKeeps == TypeOK /\ Pipeline /\ SendNonce => Pipeline'
<1> SUFFICES ASSUME TypeOK, Pipeline, SendNonce
             PROVE  Pipeline'
  OBVIOUS
<1> USE DEF Pipeline, NoPingLost
<1>1. /\ UNCHANGED <<main, send, hand, asked, pongs>>
      /\ recv = "send_nonce"
      /\ InReceiver = 1 /\ InReceiver' = 0
      /\ InSender \in Nat /\ InSender' = InSender
  BY DEF SendNonce, InReceiver, InSender
<1>2. /\ channel \in Seq(Nat) /\ Len(channel) \in Nat
      /\ pongs \in Seq(Nat) /\ Len(pongs) \in Nat
      /\ asked \in Nat
  BY DEF TypeOK
<1>3. CASE send = "ended"
  <2>1. channel' = channel
    BY <1>3 DEF SendNonce
  <2> QED
    BY <1>1, <1>3, <2>1
<1>4. CASE send # "ended"
  <2>1. channel' = Append(channel, asked)
    BY <1>4 DEF SendNonce
  <2>2. asked = Len(pongs) + InSender + Len(channel) + 1
    BY <1>1, <1>4
  <2>3. Len(channel') = Len(channel) + 1
    BY <1>2, <2>1
  <2>4. ASSUME NEW i \in 1..Len(channel')
        PROVE  channel'[i] = Len(pongs) + InSender + i
    <3>1. CASE i \in 1..Len(channel)
      <4>1. channel'[i] = channel[i]
        BY <1>2, <2>1, <3>1
      <4> QED
        BY <3>1, <4>1
    <3>2. CASE i = Len(channel) + 1
      <4>1. channel'[i] = asked
        BY <1>2, <2>1, <3>2
      <4> QED
        BY <1>1, <1>2, <2>2, <3>2, <4>1
    <3> QED
      BY <1>2, <2>3, <2>4, <3>1, <3>2
  <2> QED
    BY <1>1, <1>2, <1>4, <2>2, <2>3, <2>4
<1> QED
  BY <1>3, <1>4

\* The sender task takes the nonce that is due.
LEMMA TakeNonceKeeps == TypeOK /\ Pipeline /\ TakeNonce => Pipeline'
<1> SUFFICES ASSUME TypeOK, Pipeline, TakeNonce
             PROVE  Pipeline'
  OBVIOUS
<1> USE DEF TypeOK, Pipeline, NoPingLost, InSender, InReceiver, Writing
<1>1. /\ UNCHANGED <<main, recv, asked, pongs>>
      /\ send = "select" /\ send' = "write_pong"
      /\ channel # <<>>
      /\ channel' = Tail(channel) /\ hand' = Head(channel)
  BY DEF TakeNonce
<1>2. /\ Len(channel) >= 1
      /\ Len(channel') = Len(channel) - 1
      /\ hand' = channel[1]
      /\ \A i \in 1..Len(channel') : channel'[i] = channel[i + 1]
  BY <1>1
<1>3. hand' = Len(pongs) + 1
  BY <1>1, <1>2
<1>4. \A i \in 1..Len(channel') : channel'[i] = Len(pongs) + 1 + i
  BY <1>1, <1>2
<1> QED
  BY <1>1, <1>2, <1>3, <1>4

\* A pong that is written is the next one; a ping of ours changes nothing here.
LEMMA WriteKeeps ==
  TypeOK /\ Pipeline /\ Write =>
    /\ Pipeline'
    /\ pongs' # pongs => Service!Answer
<1> SUFFICES ASSUME TypeOK, Pipeline, Write
             PROVE  /\ Pipeline'
                    /\ pongs' # pongs => Service!Answer
  OBVIOUS
<1> USE DEF TypeOK, Pipeline, NoPingLost, InSender, InReceiver, Writing
<1>1. /\ UNCHANGED <<main, recv, channel, hand, asked>>
      /\ send \in Writing /\ send' = "select"
  BY DEF Write
<1>2. CASE send = "write_pong"
  <2>1. /\ hand = Len(pongs) + 1
        /\ Len(pongs) + 1 <= asked
    BY <1>2
  <2>2. pongs' = Append(pongs, Len(pongs) + 1)
    BY <1>2, <2>1 DEF Write
  <2>3. Len(pongs') = Len(pongs) + 1
    BY <2>2
  <2>4. ASSUME NEW i \in 1..Len(pongs')
        PROVE  pongs'[i] = i
    BY <2>2, <2>4
  <2> QED
    BY <1>1, <1>2, <2>1, <2>2, <2>3, <2>4 DEF Service!Answer
<1>3. CASE send = "write_ping"
  <2>1. pongs' = pongs
    BY <1>3 DEF Write
  <2> QED
    BY <1>1, <1>3, <2>1
<1> QED
  BY <1>1, <1>2, <1>3

\* A ping that is read puts one more nonce into the receiver task's hand.
LEMMA ReadMessageKeeps ==
  TypeOK /\ Pipeline /\ ReadMessage =>
    /\ Pipeline'
    /\ asked' # asked => Service!Ask
<1> SUFFICES ASSUME TypeOK, Pipeline, ReadMessage
             PROVE  /\ Pipeline'
                    /\ asked' # asked => Service!Ask
  OBVIOUS
<1> USE DEF Pipeline, NoPingLost
<1>1. /\ UNCHANGED <<main, send, channel, hand, pongs>>
      /\ recv = "select"
      /\ InSender \in Nat /\ InSender' = InSender
      /\ InReceiver = 0
      /\ \/ InReceiver' = 1 /\ asked' = asked + 1
         \/ InReceiver' = 0 /\ asked' = asked
  BY DEF ReadMessage, InSender, InReceiver
<1>2. Len(channel) \in Nat /\ Len(pongs) \in Nat /\ asked \in Nat
  BY DEF TypeOK
<1> QED
  BY <1>1, <1>2 DEF Service!Ask

\* Every step keeps the pipeline and is a step of the service or changes
\* nothing that the service shows.
LEMMA PipelineStep ==
  TypeOK /\ Pipeline /\ [Next]_vars =>
    Pipeline' /\ [Service!Next]_<<asked, pongs>>
<1> SUFFICES ASSUME TypeOK, Pipeline, [Next]_vars
             PROVE  Pipeline' /\ [Service!Next]_<<asked, pongs>>
  OBVIOUS
<1>1. CASE ReadMessage
  BY <1>1, ReadMessageKeeps DEF ReadMessage, Service!Next
<1>2. CASE SendNonce
  BY <1>2, SendNonceKeeps DEF SendNonce
<1>3. CASE TakeNonce
  BY <1>3, TakeNonceKeeps DEF TakeNonce
<1>4. CASE Write
  BY <1>4, WriteKeeps DEF Write, Service!Next
<1> USE DEF TypeOK, Pipeline, NoPingLost, InSender, InReceiver, Writing,
            taskVars, remoteVars
<1>5. CASE Connect
  <2>1. /\ UNCHANGED <<channel, hand, asked, pongs>>
        /\ recv = "unspawned" /\ send = "unspawned"
        /\ main' # "connect"
    BY <1>5 DEF Connect
  <2>2. CASE recv' = "select" /\ send' = "select"
    BY <2>1, <2>2, <1>5 DEF Connect
  <2>3. CASE UNCHANGED <<recv, send>>
    BY <2>1, <2>3
  <2> QED
    BY Zenon, <1>5, <2>2, <2>3 DEF Connect
<1>6. CASE CtrlC \/ Join
  BY Zenon, <1>6 DEF CtrlC, Join
<1>7. CASE ReceiverShutdown \/ ReadError
  <2>1. /\ recv = "select" /\ recv' = "ended"
        /\ UNCHANGED <<main, send, channel, hand, asked, pongs>>
    BY <1>7 DEF ReceiverShutdown, ReadError
  <2> QED
    BY <2>1
<1>8. CASE SenderShutdown \/ WriteError
  <2>1. /\ send \in {"select"} \cup Writing
        /\ send' = "ended" /\ channel' = <<>>
        /\ UNCHANGED <<main, recv, hand, asked, pongs>>
    BY <1>8 DEF SenderShutdown, WriteError, EndSender
  <2> QED
    BY <2>1
<1>9. CASE Tick
  BY <1>9 DEF Tick
<1>10. ASSUME NEW m \in Message, RemoteSend(m)
       PROVE  Pipeline' /\ [Service!Next]_<<asked, pongs>>
  BY Zenon, <1>10 DEF RemoteSend
<1>11. CASE RemoteRead \/ RemoteLeaves \/ Reset
  BY Zenon, <1>11 DEF RemoteRead, RemoteLeaves, Reset
<1>12. CASE UNCHANGED vars
  BY Zenon, <1>12 DEF vars
<1> QED
  BY Zenon, <1>1, <1>2, <1>3, <1>4, <1>5, <1>6, <1>7, <1>8, <1>9, <1>10, <1>11, <1>12
     DEF Next, Receiver, Sender, Returned

\* The initial state has an empty pipeline.
LEMMA PipelineInit == Init => Pipeline
BY DEF Init, Pipeline, NoPingLost, InSender, InReceiver

\* While the sender task runs, no ping that was read is lost, for channels of
\* every capacity.
THEOREM NoPingIsLost == Spec => []NoPingLost
<1>1. Pipeline => NoPingLost
  BY DEF Pipeline
<1>2. TypeOK /\ Pipeline /\ [Next]_vars => Pipeline'
  BY PipelineStep
<1> QED
  BY <1>1, <1>2, TypeCorrect, PipelineInit, PTL DEF Spec

\* Back-pressure: the pings that were read and wait for their pong fill the
\* channel and the hands of the two tasks, and never more.
BackPressure ==
  send # "ended" => asked <= Len(pongs) + PingCapacity + 2

\* A remote that pings faster than pongs can be written holds up the receiver
\* task; it never makes the program store more, for channels of every capacity.
THEOREM PingsHoldUpTheReader == Spec => []BackPressure
<1>1. ASSUME TypeOK, NoPingLost
      PROVE  BackPressure
  <2>1. /\ Len(pongs) \in Nat /\ Len(channel) \in Nat /\ asked \in Nat
        /\ Len(channel) <= PingCapacity /\ PingCapacity \in Nat
    BY <1>1, CapacityAssumption DEF TypeOK
  <2>2. InSender \in {0, 1} /\ InReceiver \in {0, 1}
    BY Zenon DEF InSender, InReceiver
  <2>3. send # "ended" => asked = Len(pongs) + InSender + Len(channel) + InReceiver
    BY <1>1 DEF NoPingLost
  <2> QED
    BY <2>1, <2>2, <2>3 DEF BackPressure
<1> QED
  BY <1>1, TypeCorrect, NoPingIsLost, PTL

\* The two tasks implement the pong service: every pong answers the oldest ping
\* that has no answer yet, with its nonce.
THEOREM ImplementsPongService == Spec => PongPromise
<1>1. Init => Service!Init
  BY DEF Init, Service!Init
<1> QED
  BY <1>1, PipelineStep, TypeCorrect, PipelineInit, PTL
     DEF Spec, PongPromise, Service!Spec
=============================================================================
