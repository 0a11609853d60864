------------------------- MODULE CrawlSessionProofs -------------------------
(***************************************************************************)
(* Proofs of the safety properties of CrawlSession, for every network,     *)
(* every max_concurrent_tasks and every channel capacity.                  *)
(***************************************************************************)
EXTENDS CrawlSession, FiniteSetTheorems, TLAPS

(***************************************************************************)
(* Facts about sequences used as channels.                                 *)
(***************************************************************************)
\* A send to a channel adds the message, and nothing else, to its contents.
LEMMA RangeOfAppend ==
  ASSUME NEW S, NEW s \in Seq(S), NEW e \in S
  PROVE  /\ Range(Append(s, e)) = Range(s) \cup {e}
         /\ Append(s, e) \in Seq(S)
         /\ Len(Append(s, e)) = Len(s) + 1
         /\ Append(s, e) # << >>
<1>1. /\ DOMAIN s = 1..Len(s)
      /\ DOMAIN Append(s, e) = 1..(Len(s) + 1)
      /\ Append(s, e)[Len(s) + 1] = e
      /\ \A i \in 1..Len(s) : Append(s, e)[i] = s[i]
      /\ Len(s) \in Nat
      /\ Append(s, e) \in Seq(S)
      /\ Len(Append(s, e)) = Len(s) + 1
  OBVIOUS
<1>2. Range(Append(s, e)) \subseteq Range(s) \cup {e}
  BY <1>1 DEF Range
<1>3. ASSUME NEW x \in Range(s) \cup {e}
      PROVE  x \in Range(Append(s, e))
  <2>1. CASE x = e
    <3>1. Len(s) + 1 \in DOMAIN Append(s, e)
      BY <1>1
    <3>. QED  BY <1>1, <2>1, <3>1 DEF Range
  <2>2. CASE x \in Range(s)
    <3>1. PICK i \in 1..Len(s) : s[i] = x
      BY <1>1, <2>2 DEF Range
    <3>2. i \in DOMAIN Append(s, e) /\ Append(s, e)[i] = x
      BY <1>1, <3>1
    <3>. QED  BY <3>2 DEF Range
  <2>. QED  BY <1>3, <2>1, <2>2
<1>4. Append(s, e) # << >>
  BY <1>1
<1>. QED  BY <1>1, <1>2, <1>3, <1>4

\* A receive removes the oldest message, and nothing else, from a channel.
LEMMA RangeOfTail ==
  ASSUME NEW S, NEW s \in Seq(S), s # << >>
  PROVE  /\ Range(s) = {Head(s)} \cup Range(Tail(s))
         /\ Tail(s) \in Seq(S)
         /\ Len(Tail(s)) = Len(s) - 1
         /\ Head(s) \in S
<1>1. /\ DOMAIN s = 1..Len(s)
      /\ DOMAIN Tail(s) = 1..(Len(s) - 1)
      /\ Len(s) \in Nat \ {0}
      /\ Head(s) = s[1]
      /\ \A i \in 1..(Len(s) - 1) : Tail(s)[i] = s[i + 1]
      /\ Tail(s) \in Seq(S)
      /\ Len(Tail(s)) = Len(s) - 1
      /\ Head(s) \in S
  OBVIOUS
<1>2. ASSUME NEW x \in Range(s)
      PROVE  x \in {Head(s)} \cup Range(Tail(s))
  <2>1. PICK i \in 1..Len(s) : s[i] = x
    BY <1>1, <1>2 DEF Range
  <2>2. CASE i = 1
    BY <1>1, <2>1, <2>2
  <2>3. CASE i # 1
    <3>1. i - 1 \in DOMAIN Tail(s) /\ Tail(s)[i - 1] = x
      BY <1>1, <2>1, <2>3
    <3>. QED  BY Zenon, <3>1 DEF Range
  <2>. QED  BY <2>2, <2>3
<1>3. ASSUME NEW x \in {Head(s)} \cup Range(Tail(s))
      PROVE  x \in Range(s)
  <2>1. CASE x = Head(s)
    <3>1. 1 \in DOMAIN s
      BY <1>1
    <3>. QED  BY <1>1, <2>1, <3>1 DEF Range
  <2>2. CASE x \in Range(Tail(s))
    <3>1. PICK i \in 1..(Len(s) - 1) : Tail(s)[i] = x
      BY <1>1, <2>2 DEF Range
    <3>2. i + 1 \in DOMAIN s /\ s[i + 1] = x
      BY <1>1, <3>1
    <3>. QED  BY <3>2 DEF Range
  <2>. QED  BY <1>3, <2>1, <2>2
<1>. QED  BY <1>1, <1>2, <1>3

\* A message sent appears at the end of the stream, and one received stays where
\* it is: sequences \o, Append, Head and Tail.
LEMMA ConcatSteps ==
  ASSUME NEW S, NEW s \in Seq(S), NEW t \in Seq(S)
  PROVE  /\ s \o t \in Seq(S)
         /\ \A e \in S : s \o Append(t, e) = Append(s \o t, e)
         /\ t # << >> => Append(s, Head(t)) \o Tail(t) = s \o t
<1>1. s \o t \in Seq(S)
  OBVIOUS
<1>2. ASSUME NEW e \in S
      PROVE  s \o Append(t, e) = Append(s \o t, e)
  OBVIOUS
<1>3. ASSUME t # << >>
      PROVE  Append(s, Head(t)) \o Tail(t) = s \o t
  BY <1>3
<1>. QED  BY Zenon, <1>1, <1>2, <1>3

\* A message appended to a sequence of messages is one more about its endpoint
\* and none about the others.
LEMMA AboutAppend ==
  ASSUME NEW s \in Seq(Message), NEW m \in Message, NEW a
  PROVE  /\ IsFiniteSet(About(a, s))
         /\ AddrOf[m.peer] = a =>
              Cardinality(About(a, Append(s, m))) = Cardinality(About(a, s)) + 1
         /\ AddrOf[m.peer] # a => About(a, Append(s, m)) = About(a, s)
<1>1. /\ DOMAIN s = 1..Len(s)
      /\ Len(s) \in Nat
      /\ DOMAIN Append(s, m) = 1..(Len(s) + 1)
      /\ \A i \in 1..Len(s) : Append(s, m)[i] = s[i]
      /\ Append(s, m)[Len(s) + 1] = m
  OBVIOUS
<1>2. IsFiniteSet(About(a, s))
  <2>1. IsFiniteSet(1..Len(s))
    BY <1>1, FS_Interval
  <2>2. About(a, s) \subseteq 1..Len(s)
    BY <1>1 DEF About
  <2>. QED  BY <2>1, <2>2, FS_Subset
<1>3. ASSUME AddrOf[m.peer] = a
      PROVE  Cardinality(About(a, Append(s, m))) = Cardinality(About(a, s)) + 1
  <2>1. Len(s) + 1 \notin About(a, s)
    BY <1>1 DEF About
  <2>2. About(a, Append(s, m)) = About(a, s) \cup {Len(s) + 1}
    BY <1>1, <1>3 DEF About
  <2>. QED  BY Zenon, <1>2, <2>1, <2>2, FS_AddElement
<1>4. ASSUME AddrOf[m.peer] # a
      PROVE  About(a, Append(s, m)) = About(a, s)
  BY <1>1, <1>4 DEF About
<1>. QED  BY <1>2, <1>3, <1>4

(***************************************************************************)
(* The inductive invariant.                                                *)
(***************************************************************************)
\* The tasks that are past the send of their message.
Sent == {"get_peers", "send_peers", "done", "ended", "panicked"}
SentTasks == {p \in Peer : task[p] \in Sent}

\* The tasks that have sent their peers and not yet their completion.
DoneTasks == {p \in Peer : task[p] = "done"}

\* A peer is in tested_peers exactly when its task has been spawned, except
\* for the one peer the coordinator has inserted and is about to spawn.
Inserted ==
  /\ \A p \in Peer : task[p] # "none" => p \in tested_peers
  /\ \A p \in tested_peers : task[p] = "none" => coord = "capacity" /\ p = current
  /\ coord = "capacity" => current \in tested_peers /\ task[current] = "none"

\* The count of active tasks, and what each way of leaving the loop says of it.
Accounting ==
  /\ ActiveTasksExact
  /\ coord \in {"start", "panicked"} => tested_peers = {}
  /\ coord = "start" => peer_discovery = << >>
  /\ coord = "panicked" => max_concurrent_tasks = 0
  /\ coord \notin {"start", "panicked"} => max_concurrent_tasks > 0
  /\ coord = "exhausted" => RunningTasks = {}

\* The loop goes round only with a task in flight or with the seed queued, and
\* no task is in flight before the seed is tested.
Progress ==
  /\ coord \in {"top", "poll_discovery"} =>
       active_tasks > 0 \/ (tested_peers = {} /\ peer_discovery = <<{Seed}>>)
  /\ coord \in {"poll_done", "parked"} => active_tasks > 0
  /\ coord = "batch" =>
       active_tasks > 0 \/ (tested_peers = {} /\ batch = {Seed})
  /\ active_tasks > 0 \/ coord \in {"capacity", "exhausted"} => Seed \in tested_peers

\* After the poll of an empty peer_discovery channel, each batch in it comes
\* from a task whose completion the coordinator has not read.
Polled ==
  /\ coord = "poll_done" =>
       /\ Len(peer_discovery) <= Cardinality(DoneTasks) + task_done
       /\ runtime = "current_thread" => peer_discovery = << >>
  /\ LostBatchBound

\* Only a dropped receiver stops the coordinator while tasks run.
Hangup ==
  /\ coord = "stopped" => caller = "dropped"
  /\ NoPanicWhileReceiving

\* A task that asks for addresses has reported its endpoint Listening, a task
\* that has reported its peer NonListening is done, and as long as the caller
\* keeps the receiver the stream has, for each endpoint, one message for every
\* task of that endpoint past its send.
Reporting ==
  /\ \A p \in Peer : task[p] \in {"get_peers", "send_peers"} =>
       \E m \in Range(Stream) : m.kind = "Listening" /\ AddrOf[m.peer] = AddrOf[p]
  /\ \A p \in Peer : NonListening(p) \in Range(Stream) =>
       task[p] \in {"done", "ended", "panicked"}
  /\ caller # "dropped" =>
       \A a \in Addr : Cardinality(About(a, Stream)) = Cardinality(At(a, SentTasks))

\* A closed channel stays closed and empty.
Ended ==
  caller = "ended" => SendersGone /\ crawl = << >>

\* Every peer anyone holds is the seed or was advertised by an endpoint whose
\* Listening message is in the stream.
Sourced ==
  /\ \A p \in tested_peers \cup batch : Promise!Known(p)
  /\ \A peers \in Range(peer_discovery) : \A p \in peers : Promise!Known(p)
  /\ \A q \in Peer : \A p \in filtered[q] : Promise!Known(p)

IInv ==
  /\ TypeOK
  /\ Inserted
  /\ Accounting
  /\ Progress
  /\ Polled
  /\ Hangup
  /\ Reporting
  /\ Ended
  /\ Sourced

USE DEF vars, coordVars, taskVars, callerVars

(***************************************************************************)
(* Type correctness.                                                       *)
(***************************************************************************)
\* No step changes the runtime the session runs on.
LEMMA RuntimeStays ==
  ASSUME [Next]_vars
  PROVE  UNCHANGED runtime
BY DEF Next, Coordinate, TaskStep, Recv, RecvNone, DropReceiver, Finished

\* A step keeps the types, given that active_tasks counts what task_done holds:
\* the coordinator never subtracts from a zero count.
LEMMA TypeStep ==
  ASSUME TypeOK, ActiveTasksExact, [Next]_vars
  PROVE  TypeOK'
<1>0. UNCHANGED runtime
  BY RuntimeStays
<1>. USE <1>0, PeerAssumption, ConfigAssumption
<1>1. ASSUME Coordinate
      PROVE  TypeOK'
  <2>0. /\ IsFiniteSet(RunningTasks)
        /\ Cardinality(RunningTasks) \in Nat
    BY FS_Subset, FS_CardinalityType DEF RunningTasks
  <2>. USE DEF TypeOK, CoordState, CoordGone
  <2>1. CASE Start
    <3>1. Append(peer_discovery, {Seed}) \in Seq(SUBSET Peer)
      <4>1. peer_discovery \in Seq(SUBSET Peer) /\ {Seed} \in SUBSET Peer
        OBVIOUS
      <4>. QED  BY ONLY Zenon, <4>1, RangeOfAppend
    <3>2. peer_discovery' \in Seq(SUBSET Peer)
      BY Zenon, <2>1, <3>1 DEF Start
    <3>. QED  BY <2>1, <3>2 DEF Start
  <2>2. CASE CheckClosed
    BY <2>2 DEF CheckClosed
  <2>3. CASE PollDiscovery
    <3>1. peer_discovery # << >> =>
            /\ Tail(peer_discovery) \in Seq(SUBSET Peer)
            /\ Head(peer_discovery) \in SUBSET Peer
      BY RangeOfTail
    <3>. QED  BY Zenon, <2>3, <3>1 DEF PollDiscovery
  <2>4. CASE PollDone
    BY <2>0, <2>4 DEF PollDone, ActiveTasksExact
  <2>5. CASE Wake
    BY <2>5 DEF Wake
  <2>6. CASE InsertPeer
    BY <2>6 DEF InsertPeer
  <2>7. CASE AwaitCapacity
    BY <2>0, <2>7 DEF AwaitCapacity, ActiveTasksExact
  <2>8. CASE Spawn
    BY <2>8 DEF Spawn, TaskState, Running
  <2>. QED  BY Zenon, <1>1, <2>1, <2>2, <2>3, <2>4, <2>5, <2>6, <2>7, <2>8 DEF Coordinate
<1>2. ASSUME NEW p \in Peer, TaskStep(p)
      PROVE  TypeOK'
  <2>. USE DEF TypeOK, TaskState, Running
  <2>1. CASE Connect(p)
    BY <2>1 DEF Connect
  <2>2. CASE SendNonListening(p)
    <3>1. NonListening(p) \in Message
      BY DEF NonListening, Message
    <3>2. Append(crawl, NonListening(p)) \in Seq(Message)
      BY <3>1, RangeOfAppend
    <3>3. task' \in [Peer -> TaskState]
      BY <2>2 DEF SendNonListening, SendMessage
    <3>. QED  BY Zenon, <2>2, <3>2, <3>3 DEF SendNonListening, SendMessage
  <2>3. CASE SendListening(p)
    <3>0. PICK q \in Handshaken[AddrOf[p]] : SendMessage(p, Listening(q), "get_peers")
      BY Zenon, <2>3 DEF SendListening
    <3>1. Listening(q) \in Message
      BY HandshakeAssumption DEF Listening, Message
    <3>2. Append(crawl, Listening(q)) \in Seq(Message)
      BY <3>1, RangeOfAppend
    <3>3. task' \in [Peer -> TaskState]
      <4>1. \/ task' = [task EXCEPT ![p] = "done"]
            \/ task' = [task EXCEPT ![p] = "get_peers"]
        BY Zenon, <3>0 DEF SendMessage
      <4>. QED  BY <4>1
    <3>. QED  BY Zenon, <3>0, <3>2, <3>3 DEF SendMessage
  <2>4. CASE GetPeers(p)
    <3>1. \A d \in Gossip[AddrOf[p]] \cup {{}} : d \ tested_peers \in SUBSET Peer
      OBVIOUS
    <3>. QED  BY <2>4, <3>1 DEF GetPeers
  <2>5. CASE SendPeers(p)
    BY <2>5 DEF SendPeers
  <2>6. CASE TaskDone(p)
    <3>1. task_done' \in Nat
      BY <2>6 DEF TaskDone
    <3>2. task' \in [Peer -> TaskState]
      BY <2>6 DEF TaskDone
    <3>. QED  BY <2>6, <3>1, <3>2 DEF TaskDone
  <2>. QED  BY <1>2, <2>1, <2>2, <2>3, <2>4, <2>5, <2>6 DEF TaskStep
<1>3. CASE Recv
  <2>1. /\ Tail(crawl) \in Seq(Message)
        /\ Head(crawl) \in Message
    BY <1>3, RangeOfTail DEF Recv, TypeOK
  <2>2. Append(received, Head(crawl)) \in Seq(Message)
    BY <2>1, RangeOfAppend DEF TypeOK
  <2>. QED  BY Zenon, <1>3, <2>1, <2>2 DEF Recv, TypeOK
<1>4. CASE RecvNone \/ DropReceiver
  BY <1>4 DEF RecvNone, DropReceiver, TypeOK
<1>5. CASE UNCHANGED vars
  BY <1>5 DEF TypeOK
<1>. QED  BY <1>1, <1>2, <1>3, <1>4, <1>5 DEF Next, Finished

(***************************************************************************)
(* Init establishes the invariant.                                         *)
(***************************************************************************)
\* The invariant holds when crawl() has just spawned the coordinator.
LEMMA InitIInv ==
  ASSUME Init
  PROVE  IInv
<1>. USE PeerAssumption, ConfigAssumption DEF Init
<1>1. TypeOK
  BY DEF TypeOK, CoordState, TaskState
<1>2. RunningTasks = {} /\ Cardinality(RunningTasks) = 0
  <2>1. RunningTasks = {}
    BY DEF RunningTasks, Running
  <2>. QED  BY <2>1, FS_EmptySet
<1>3. Stream = << >> /\ Range(Stream) = {}
  <2>1. Stream = << >>
    BY DEF Stream
  <2>. QED  BY <2>1 DEF Range
<1>4. Inserted
  BY DEF Inserted
<1>5. Accounting
  BY <1>2 DEF Accounting, ActiveTasksExact
<1>6. Progress /\ Polled /\ Hangup /\ Ended
  BY DEF Progress, Polled, LostBatchBound, Hangup, NoPanicWhileReceiving, Ended
<1>7. Reporting
  <2>1. SentTasks = {}
    BY DEF SentTasks, Sent
  <2>2. ASSUME NEW a \in Addr
        PROVE  About(a, Stream) = At(a, SentTasks)
    BY <1>3, <2>1 DEF About, At
  <2>. QED  BY <1>3, <2>2 DEF Reporting
<1>8. Sourced
  BY DEF Sourced, Range
<1>. QED  BY <1>1, <1>4, <1>5, <1>6, <1>7, <1>8 DEF IInv

(***************************************************************************)
(* What a step of a task leaves alone.                                     *)
(***************************************************************************)
\* A task step moves its own task, from a running state to a running state or,
\* when it sends its completion, out of them; it never touches the coordinator
\* or the caller.
LEMMA TaskFrame ==
  ASSUME TypeOK, NEW p \in Peer, TaskStep(p)
  PROVE  /\ UNCHANGED <<runtime, coordVars, callerVars>>
         /\ task[p] \in Running
         /\ task'[p] \in TaskState \ {"none", "connect"}
         /\ \A q \in Peer \ {p} : task'[q] = task[q] /\ filtered'[q] = filtered[q]
         /\ (task'[p] \in Running /\ task_done' = task_done) \/ TaskDone(p)
<1>0. UNCHANGED runtime
  BY DEF TaskStep
<1>. USE <1>0 DEF TypeOK, Running, TaskState
<1>1. CASE Connect(p)
  BY <1>1 DEF Connect
<1>2. CASE SendNonListening(p)
  BY <1>2 DEF SendNonListening, SendMessage
<1>3. CASE SendListening(p)
  <2>1. PICK q : SendMessage(p, Listening(q), "get_peers")
    BY Zenon, <1>3 DEF SendListening
  <2>. QED  BY <1>3, <2>1 DEF SendListening, SendMessage
<1>4. CASE GetPeers(p)
  <2>1. PICK fresh : /\ filtered' = [filtered EXCEPT ![p] = fresh]
                     /\ task' = [task EXCEPT ![p] = IF fresh = {} THEN "done" ELSE "send_peers"]
    BY Zenon, <1>4 DEF GetPeers
  <2>. QED  BY <1>4, <2>1 DEF GetPeers
<1>5. CASE SendPeers(p)
  BY <1>5 DEF SendPeers
<1>6. CASE TaskDone(p)
  BY <1>6 DEF TaskDone
<1>. QED  BY Zenon, <1>1, <1>2, <1>3, <1>4, <1>5, <1>6 DEF TaskStep

\* The caller's steps touch nothing but its own end of the result channel, and
\* no message is lost or invented between the channel and the caller.
LEMMA CallerFrame ==
  ASSUME TypeOK, Recv \/ RecvNone \/ DropReceiver \/ Finished \/ UNCHANGED vars
  PROVE  /\ UNCHANGED <<runtime, coordVars, peer_discovery, task_done, taskVars>>
         /\ Stream' = Stream
<1>1. CASE Recv
  <2>1. Append(received, Head(crawl)) \o Tail(crawl) = received \o crawl
    BY <1>1, ConcatSteps DEF Recv, TypeOK
  <2>. QED  BY Zenon, <1>1, <2>1 DEF Recv, Stream
<1>2. CASE RecvNone \/ DropReceiver \/ Finished \/ UNCHANGED vars
  BY <1>2 DEF RecvNone, DropReceiver, Finished, Stream
<1>. QED  BY <1>1, <1>2

(***************************************************************************)
(* Each conjunct is preserved.                                             *)
(***************************************************************************)
\* Every step keeps tested_peers in line with the tasks spawned.
LEMMA InsertedStep ==
  ASSUME TypeOK, Inserted, [Next]_vars
  PROVE  Inserted'
<1>1. ASSUME Coordinate
      PROVE  Inserted'
  <2>. USE DEF Inserted, TypeOK
  <2>1. CASE Start \/ CheckClosed \/ PollDiscovery \/ PollDone \/ Wake \/ AwaitCapacity
    BY <2>1 DEF Start, CheckClosed, PollDiscovery, PollDone, Wake, AwaitCapacity
  <2>2. CASE InsertPeer
    BY <2>2 DEF InsertPeer
  <2>3. CASE Spawn
    BY <2>3 DEF Spawn
  <2>. QED  BY <1>1, <2>1, <2>2, <2>3 DEF Coordinate
<1>2. ASSUME NEW p \in Peer, TaskStep(p)
      PROVE  Inserted'
  <2>1. \A q \in Peer : task'[q] = "none" <=> task[q] = "none"
    BY Zenon, <1>2, TaskFrame DEF Running
  <2>. QED  BY <1>2, <2>1, TaskFrame DEF Inserted, TypeOK
<1>3. CASE Recv \/ RecvNone \/ DropReceiver \/ Finished \/ UNCHANGED vars
  BY <1>3, CallerFrame DEF Inserted
<1>. QED  BY <1>1, <1>2, <1>3 DEF Next

\* Only finitely many tasks run, so that they can be counted.
LEMMA RunningIsFinite ==
  ASSUME TypeOK
  PROVE  /\ IsFiniteSet(RunningTasks)
         /\ Cardinality(RunningTasks) \in Nat
         /\ RunningTasks = {} <=> Cardinality(RunningTasks) = 0
<1>1. IsFiniteSet(RunningTasks)
  BY PeerAssumption, FS_Subset DEF RunningTasks
<1>. QED  BY <1>1, FS_CardinalityType, FS_EmptySet

\* Every spawn, completion and receive keeps active_tasks exact.
LEMMA AccountingStep ==
  ASSUME TypeOK, Inserted, Accounting, [Next]_vars
  PROVE  Accounting'
<1>. USE PeerAssumption, ConfigAssumption
<1>0. /\ IsFiniteSet(RunningTasks)
      /\ Cardinality(RunningTasks) \in Nat
      /\ RunningTasks = {} <=> Cardinality(RunningTasks) = 0
  BY RunningIsFinite
<1>1. ASSUME Coordinate
      PROVE  Accounting'
  <2>. USE DEF Accounting, ActiveTasksExact, CoordGone, TypeOK
  <2>1. CASE Start \/ CheckClosed \/ PollDiscovery \/ Wake \/ InsertPeer
    <3>1. RunningTasks' = RunningTasks
      BY <2>1 DEF RunningTasks, Start, CheckClosed, PollDiscovery, Wake, InsertPeer
    <3>2. CASE Start
      <4>1. /\ coord = "start"
            /\ \/ coord' = "panicked" /\ max_concurrent_tasks = 0
               \/ coord' = "top" /\ max_concurrent_tasks # 0
            /\ UNCHANGED <<tested_peers, active_tasks, task_done>>
        BY Zenon, <3>2 DEF Start
      <4>. QED  BY <1>0, <3>1, <4>1
    <3>3. CASE CheckClosed \/ Wake
      BY <1>0, <3>1, <3>3 DEF CheckClosed, Wake
    <3>4. CASE PollDiscovery \/ InsertPeer
      BY <1>0, <3>1, <3>4 DEF PollDiscovery, InsertPeer
    <3>. QED  BY Zenon, <2>1, <3>2, <3>3, <3>4
  <2>2. CASE PollDone \/ AwaitCapacity
    <3>1. RunningTasks' = RunningTasks
      BY <2>2 DEF RunningTasks, PollDone, AwaitCapacity
    <3>2. CASE PollDone
      BY <1>0, <3>1, <3>2 DEF PollDone
    <3>3. CASE AwaitCapacity
      BY <1>0, <3>1, <3>3 DEF AwaitCapacity
    <3>. QED  BY <2>2, <3>2, <3>3
  <2>3. CASE Spawn
    <3>0. /\ current \in Peer
          /\ task[current] = "none"
          /\ task' = [task EXCEPT ![current] = "connect"]
      BY <2>3 DEF Spawn, Inserted
    <3>1. current \notin RunningTasks /\ RunningTasks' = RunningTasks \cup {current}
      BY <3>0 DEF RunningTasks, Running
    <3>2. Cardinality(RunningTasks') = Cardinality(RunningTasks) + 1
      BY Zenon, <1>0, <3>1, FS_AddElement
    <3>3. /\ coord = "capacity"
          /\ coord' = "batch"
          /\ active_tasks < max_concurrent_tasks
          /\ active_tasks' = active_tasks + 1
          /\ UNCHANGED <<tested_peers, peer_discovery, task_done>>
      BY <2>3 DEF Spawn
    <3>4. ActiveTasksExact'
      BY <1>0, <3>2, <3>3
    <3>5. max_concurrent_tasks > 0
      BY <3>3
    <3>. QED  BY <3>3, <3>4, <3>5
  <2>. QED  BY <1>1, <2>1, <2>2, <2>3 DEF Coordinate
<1>2. ASSUME NEW p \in Peer, TaskStep(p)
      PROVE  Accounting'
  <2>0. /\ p \in RunningTasks
        /\ coord \notin {"start", "panicked"}
    BY <1>2, TaskFrame DEF RunningTasks, Running, Accounting, Inserted
  <2>1. CASE task'[p] \in Running /\ task_done' = task_done
    <3>1. RunningTasks' = RunningTasks
      BY Zenon, <1>2, <2>0, <2>1, TaskFrame DEF RunningTasks
    <3>. QED
      BY <1>2, <2>0, <2>1, <3>1, TaskFrame DEF Accounting, ActiveTasksExact
  <2>2. CASE TaskDone(p)
    <3>1. RunningTasks' = RunningTasks \ {p}
      BY <2>2 DEF TaskDone, RunningTasks, Running, TypeOK
    <3>2. Cardinality(RunningTasks') = Cardinality(RunningTasks) - 1
      BY Zenon, <1>0, <2>0, <3>1, FS_RemoveElement
    <3>. QED
      BY <1>0, <2>0, <2>2, <3>2 DEF TaskDone, Accounting, ActiveTasksExact, TypeOK
  <2>. QED  BY <1>2, <2>1, <2>2, TaskFrame
<1>3. CASE Recv \/ RecvNone \/ DropReceiver \/ Finished \/ UNCHANGED vars
  BY Zenon, <1>3, CallerFrame DEF Accounting, ActiveTasksExact, RunningTasks
<1>. QED  BY <1>1, <1>2, <1>3 DEF Next

\* The loop goes round only with a task in flight or with the seed queued.
LEMMA ProgressStep ==
  ASSUME TypeOK, Inserted, Accounting, Progress, [Next]_vars
  PROVE  Progress'
<1>. USE PeerAssumption, ConfigAssumption
<1>1. ASSUME Coordinate
      PROVE  Progress'
  <2>. USE DEF Progress, TypeOK
  <2>1. CASE Start
    BY <2>1 DEF Start, Accounting
  <2>2. CASE CheckClosed \/ Wake
    BY <2>2 DEF CheckClosed, Wake
  <2>3. CASE PollDiscovery
    <3>1. peer_discovery = <<{Seed}>> => Head(peer_discovery) = {Seed}
      OBVIOUS
    <3>2. peer_discovery = << >> => active_tasks > 0
      BY <2>3 DEF PollDiscovery
    <3>. QED  BY <2>3, <3>1, <3>2 DEF PollDiscovery
  <2>4. CASE PollDone
    BY <2>4 DEF PollDone
  <2>5. CASE InsertPeer
    BY Zenon, <2>5 DEF InsertPeer
  <2>6. CASE AwaitCapacity \/ Spawn
    BY <2>6 DEF AwaitCapacity, Spawn
  <2>. QED  BY <1>1, <2>1, <2>2, <2>3, <2>4, <2>5, <2>6 DEF Coordinate
<1>2. ASSUME NEW p \in Peer, TaskStep(p)
      PROVE  Progress'
  <2>1. tested_peers # {}
    BY Zenon, <1>2, TaskFrame DEF Running, Inserted
  <2>. QED  BY Zenon, <1>2, <2>1, TaskFrame DEF Progress
<1>3. CASE Recv \/ RecvNone \/ DropReceiver \/ Finished \/ UNCHANGED vars
  BY <1>3, CallerFrame DEF Progress
<1>. QED  BY <1>1, <1>2, <1>3 DEF Next

\* Only finitely many tasks are about to complete, so that they can be counted.
LEMMA DoneIsFinite ==
  ASSUME TypeOK
  PROVE  /\ IsFiniteSet(DoneTasks)
         /\ Cardinality(DoneTasks) \in Nat
         /\ Cardinality(DoneTasks) <= Cardinality(RunningTasks)
<1>1. DoneTasks \subseteq RunningTasks
  BY DEF DoneTasks, RunningTasks, Running
<1>. QED  BY <1>1, RunningIsFinite, FS_Subset, FS_CardinalityType

\* A batch queued after the first poll comes from a task about to complete.
LEMMA PolledStep ==
  ASSUME TypeOK, Accounting, Polled, [Next]_vars
  PROVE  Polled'
<1>. USE PeerAssumption, ConfigAssumption
<1>0. /\ IsFiniteSet(DoneTasks)
      /\ Cardinality(DoneTasks) \in Nat
      /\ Cardinality(DoneTasks) <= Cardinality(RunningTasks)
      /\ Cardinality(RunningTasks) \in Nat
      /\ RunningTasks = {} <=> Cardinality(RunningTasks) = 0
  BY DoneIsFinite, RunningIsFinite
<1>1. ASSUME Coordinate
      PROVE  Polled'
  <2>0. UNCHANGED runtime
    BY <1>1 DEF Coordinate
  <2>. USE <2>0 DEF Polled, LostBatchBound
  <2>1. CASE Start \/ CheckClosed \/ Wake \/ InsertPeer \/ AwaitCapacity \/ Spawn
    BY Zenon, <2>1 DEF Start, CheckClosed, Wake, InsertPeer, AwaitCapacity, Spawn
  <2>2. CASE PollDiscovery
    <3>1. DoneTasks' = DoneTasks
      BY <2>2 DEF PollDiscovery, DoneTasks
    <3>2. coord' = "poll_done" => Len(peer_discovery') = 0 /\ peer_discovery' = << >>
      BY <2>2 DEF PollDiscovery
    <3>. QED  BY <1>0, <2>2, <3>1, <3>2 DEF PollDiscovery, TypeOK
  <2>3. CASE PollDone
    <3>1. RunningTasks' = RunningTasks
      BY <2>3 DEF PollDone, RunningTasks
    <3>2. SUFFICES ASSUME coord' = "exhausted"
                   PROVE  LostBatchBound'
      BY <2>3 DEF PollDone
    <3>3. Cardinality(RunningTasks) + task_done = 1 /\ task_done > 0
      BY <1>0, <2>3, <3>2 DEF PollDone, Accounting, ActiveTasksExact, CoordGone, TypeOK
    <3>4. RunningTasks = {} /\ Len(peer_discovery) <= 1
      BY <1>0, <2>3, <3>3 DEF PollDone, TypeOK
    <3>5. runtime = "current_thread" => Len(peer_discovery) = 0
      BY <2>3 DEF PollDone
    <3>. QED  BY <2>3, <3>1, <3>4, <3>5 DEF PollDone, TypeOK
  <2>. QED  BY <1>1, <2>1, <2>2, <2>3 DEF Coordinate
<1>2. ASSUME NEW p \in Peer, TaskStep(p)
      PROVE  Polled'
  <2>0. UNCHANGED <<coord, runtime>> /\ p \in RunningTasks /\ coord # "exhausted"
    BY Zenon, <1>2, TaskFrame DEF RunningTasks, Accounting
  <2>1. SUFFICES ASSUME coord = "poll_done"
                 PROVE  /\ Len(peer_discovery') <= Cardinality(DoneTasks') + task_done'
                        /\ runtime # "current_thread"
    BY <2>0 DEF Polled, LostBatchBound
  <2>2. runtime # "current_thread" /\ Len(peer_discovery) <= Cardinality(DoneTasks) + task_done
    BY <1>2, <2>1 DEF TaskStep, Polled
  <2>3. /\ IsFiniteSet(DoneTasks')
        /\ Cardinality(DoneTasks') \in Nat
    <3>1. DoneTasks' \subseteq Peer
      BY DEF DoneTasks
    <3>. QED  BY <3>1, FS_Subset, FS_CardinalityType
  <2>4. CASE Connect(p) \/ SendNonListening(p) \/ SendListening(p) \/ GetPeers(p)
    <3>1. DoneTasks \subseteq DoneTasks'
      <4>1. task[p] # "done"
        BY Zenon, <2>4 DEF Connect, SendNonListening, SendListening, GetPeers
      <4>. QED  BY Zenon, <1>2, <4>1, TaskFrame DEF DoneTasks
    <3>2. UNCHANGED <<peer_discovery, task_done>>
      BY Zenon, <2>4 DEF Connect, SendNonListening, SendListening, SendMessage, GetPeers
    <3>3. Cardinality(DoneTasks) <= Cardinality(DoneTasks')
      BY <2>3, <3>1, FS_Subset
    <3>. QED  BY <1>0, <2>2, <2>3, <3>2, <3>3 DEF TypeOK
  <2>5. CASE SendPeers(p)
    <3>1. p \notin DoneTasks /\ DoneTasks' = DoneTasks \cup {p}
      BY <2>5 DEF SendPeers, DoneTasks, TypeOK
    <3>2. Cardinality(DoneTasks') = Cardinality(DoneTasks) + 1
      BY Zenon, <1>0, <3>1, FS_AddElement
    <3>3. Len(peer_discovery') = Len(peer_discovery) + 1 /\ task_done' = task_done
      <4>1. filtered[p] \in SUBSET Peer
        BY DEF TypeOK
      <4>2. Len(Append(peer_discovery, filtered[p])) = Len(peer_discovery) + 1
        BY <4>1, RangeOfAppend DEF TypeOK
      <4>. QED  BY <2>1, <2>5, <4>2 DEF SendPeers, CoordGone
    <3>. QED  BY <1>0, <2>2, <3>2, <3>3 DEF TypeOK
  <2>6. CASE TaskDone(p)
    <3>1. p \in DoneTasks /\ DoneTasks' = DoneTasks \ {p}
      BY <2>6 DEF TaskDone, DoneTasks, TypeOK
    <3>2. Cardinality(DoneTasks') = Cardinality(DoneTasks) - 1
      BY Zenon, <1>0, <3>1, FS_RemoveElement
    <3>3. task_done' = task_done + 1 /\ UNCHANGED peer_discovery
      BY <2>1, <2>6 DEF TaskDone, CoordGone
    <3>. QED  BY <1>0, <2>2, <3>2, <3>3 DEF TypeOK
  <2>. QED  BY <1>2, <2>4, <2>5, <2>6 DEF TaskStep
<1>3. CASE Recv \/ RecvNone \/ DropReceiver \/ Finished \/ UNCHANGED vars
  BY Zenon, <1>3, CallerFrame DEF Polled, LostBatchBound, DoneTasks, RunningTasks
<1>. QED  BY <1>1, <1>2, <1>3 DEF Next

\* Only a dropped receiver stops the coordinator while tasks run.
LEMMA HangupStep ==
  ASSUME TypeOK, Inserted, Accounting, Hangup, [Next]_vars
  PROVE  Hangup'
<1>. USE DEF Hangup, NoPanicWhileReceiving
<1>1. ASSUME Coordinate
      PROVE  Hangup'
  <2>1. CASE Start \/ CheckClosed \/ PollDiscovery \/ PollDone \/ Wake \/ InsertPeer
             \/ AwaitCapacity
    BY Zenon, <2>1 DEF Start, CheckClosed, PollDiscovery, PollDone, Wake, InsertPeer,
                AwaitCapacity, CrawlClosed
  <2>2. CASE Spawn
    BY <2>2 DEF Spawn, TypeOK
  <2>. QED  BY <1>1, <2>1, <2>2 DEF Coordinate
<1>2. ASSUME NEW p \in Peer, TaskStep(p)
      PROVE  Hangup'
  <2>1. coord \in CoordGone => coord = "stopped"
    BY Zenon, <1>2, TaskFrame DEF CoordGone, RunningTasks, Running, Accounting, Inserted
  <2>2. task'[p] = "panicked" => coord \in CoordGone
    BY Zenon, <1>2, TaskFrame DEF TaskDone, Running, TypeOK
  <2>. QED  BY Zenon, <1>2, <2>1, <2>2, TaskFrame
<1>3. CASE Recv \/ RecvNone \/ DropReceiver \/ Finished \/ UNCHANGED vars
  BY <1>3 DEF Recv, RecvNone, DropReceiver, Finished
<1>. QED  BY <1>1, <1>2, <1>3 DEF Next

\* Once the caller has seen the channel close it stays closed and empty.
LEMMA EndedStep ==
  ASSUME TypeOK, Ended, [Next]_vars
  PROVE  Ended'
<1>. USE DEF Ended, SendersGone
<1>1. ASSUME Coordinate
      PROVE  Ended'
  <2>1. coord \notin CoordGone /\ UNCHANGED caller
    BY Zenon, <1>1 DEF Coordinate, Start, CheckClosed, PollDiscovery, PollDone, Wake,
                InsertPeer, AwaitCapacity, Spawn, CoordGone
  <2>. QED  BY <2>1
<1>2. ASSUME NEW p \in Peer, TaskStep(p)
      PROVE  Ended'
  BY Zenon, <1>2, TaskFrame
<1>3. CASE Recv \/ RecvNone \/ DropReceiver \/ Finished \/ UNCHANGED vars
  BY <1>3 DEF Recv, RecvNone, DropReceiver, Finished
<1>. QED  BY <1>1, <1>2, <1>3 DEF Next

\* The effect of a task step on the stream: nothing, or the message of a task
\* that was waiting to send it and that now has sent it.
LEMMA TaskStream ==
  ASSUME TypeOK, NEW p \in Peer, TaskStep(p)
  PROVE  \/ /\ Stream' = Stream
            /\ (task'[p] \in Sent <=> task[p] \in Sent) \/ caller = "dropped"
            /\ task'[p] # "get_peers"
            /\ task'[p] = "send_peers" => task[p] = "get_peers"
            /\ task[p] \in {"done", "ended", "panicked"} =>
                 task'[p] \in {"done", "ended", "panicked"}
         \/ /\ task[p] = "listening"
            /\ task'[p] = "get_peers"
            /\ \E q \in Handshaken[AddrOf[p]] : Stream' = Append(Stream, Listening(q))
            /\ caller # "dropped"
         \/ /\ task[p] = "non_listening"
            /\ task'[p] = "done"
            /\ Stream' = Append(Stream, NonListening(p))
            /\ caller # "dropped"
<1>. USE DEF TypeOK, Sent
<1>0. \A m \in Message : received \o Append(crawl, m) = Append(received \o crawl, m)
  BY ConcatSteps
<1>1. CASE Connect(p)
  <2>1. /\ task[p] = "connect"
        /\ task'[p] \in {"listening", "non_listening"}
    BY <1>1 DEF Connect
  <2>2. Stream' = Stream
    BY Zenon, <1>1 DEF Connect, Stream
  <2>. QED  BY Zenon, <2>1, <2>2
<1>2. CASE SendNonListening(p)
  <2>1. NonListening(p) \in Message
    BY DEF NonListening, Message
  <2>2. CASE CrawlClosed
    <3>1. task'[p] = "done" /\ caller = "dropped"
      BY <1>2, <2>2 DEF SendNonListening, SendMessage, CrawlClosed
    <3>2. Stream' = Stream
      BY Zenon, <1>2, <2>2 DEF SendNonListening, SendMessage, CrawlClosed, Stream
    <3>. QED  BY Zenon, <3>1, <3>2
  <2>3. CASE ~CrawlClosed
    <3>1. /\ crawl' = Append(crawl, NonListening(p))
          /\ received' = received
          /\ caller # "dropped"
      BY Zenon, <1>2, <2>3 DEF SendNonListening, SendMessage, CrawlClosed
    <3>2. Stream' = Append(Stream, NonListening(p))
      BY Zenon, <1>0, <2>1, <3>1 DEF Stream
    <3>3. task[p] = "non_listening" /\ task'[p] = "done"
      BY <1>2 DEF SendNonListening, SendMessage
    <3>. QED  BY Zenon, <3>1, <3>2, <3>3
  <2>. QED  BY Zenon, <2>2, <2>3
<1>3. CASE SendListening(p)
  <2>0. PICK q \in Handshaken[AddrOf[p]] : SendMessage(p, Listening(q), "get_peers")
    BY Zenon, <1>3 DEF SendListening
  <2>1. Listening(q) \in Message
    BY PeerAssumption, HandshakeAssumption DEF Listening, Message
  <2>2. CASE CrawlClosed
    <3>1. task' = [task EXCEPT ![p] = "done"] /\ caller = "dropped"
      BY Zenon, <2>0, <2>2 DEF SendMessage, CrawlClosed
    <3>2. Stream' = Stream
      BY Zenon, <2>0, <2>2 DEF SendMessage, CrawlClosed, Stream
    <3>3. task'[p] = "done"
      BY ONLY <3>1, TypeOK, p \in Peer DEF TypeOK
    <3>. QED  BY Zenon, <3>1, <3>2, <3>3
  <2>3. CASE ~CrawlClosed
    <3>1. /\ crawl' = Append(crawl, Listening(q))
          /\ received' = received
          /\ caller # "dropped"
      BY Zenon, <2>0, <2>3 DEF SendMessage, CrawlClosed
    <3>2. Stream' = Append(Stream, Listening(q))
      BY Zenon, <1>0, <2>1, <3>1 DEF Stream
    <3>3. task[p] = "listening" /\ task'[p] = "get_peers"
      <4>1. task[p] = "listening" /\ task' = [task EXCEPT ![p] = "get_peers"]
        BY Zenon, <1>3, <2>0, <2>3 DEF SendListening, SendMessage
      <4>. QED  BY ONLY <4>1, TypeOK, p \in Peer DEF TypeOK
    <3>. QED  BY Zenon, <3>1, <3>2, <3>3
  <2>. QED  BY Zenon, <2>2, <2>3
<1>4. CASE GetPeers(p)
  <2>1. /\ task[p] = "get_peers"
        /\ task'[p] \in {"done", "send_peers"}
    <3>1. PICK fresh :
            task' = [task EXCEPT ![p] = IF fresh = {} THEN "done" ELSE "send_peers"]
      BY Zenon, <1>4 DEF GetPeers
    <3>. QED  BY <1>4, <3>1 DEF GetPeers
  <2>2. Stream' = Stream
    BY Zenon, <1>4 DEF GetPeers, Stream
  <2>. QED  BY Zenon, <2>1, <2>2
<1>5. CASE SendPeers(p)
  <2>1. task[p] = "send_peers" /\ task'[p] = "done"
    BY <1>5 DEF SendPeers
  <2>2. Stream' = Stream
    BY Zenon, <1>5 DEF SendPeers, Stream
  <2>. QED  BY Zenon, <2>1, <2>2
<1>6. CASE TaskDone(p)
  <2>1. task[p] = "done" /\ task'[p] \in {"ended", "panicked"}
    BY <1>6 DEF TaskDone
  <2>2. Stream' = Stream
    BY Zenon, <1>6 DEF TaskDone, Stream
  <2>. QED  BY Zenon, <2>1, <2>2
<1>. QED  BY Zenon, <1>1, <1>2, <1>3, <1>4, <1>5, <1>6 DEF TaskStep

\* The coordinator does not write to the stream.
LEMMA CoordinateFrame ==
  ASSUME Coordinate
  PROVE  /\ UNCHANGED <<filtered, crawl, callerVars>>
         /\ Stream' = Stream
         /\ ~Spawn => UNCHANGED task
BY Zenon DEF Coordinate, Start, CheckClosed, PollDiscovery, PollDone, Wake, InsertPeer,
       AwaitCapacity, Spawn, Stream

\* What is in the stream are messages, and only finitely many tasks have sent
\* theirs, so that both can be counted.
LEMMA StreamType ==
  ASSUME TypeOK
  PROVE  /\ Stream \in Seq(Message)
         /\ \A m \in Message : Range(Append(Stream, m)) = Range(Stream) \cup {m}
         /\ IsFiniteSet(SentTasks)
         /\ \A a : IsFiniteSet(At(a, SentTasks))
<1>1. Stream \in Seq(Message)
  BY ConcatSteps DEF Stream, TypeOK
<1>2. \A m \in Message : Range(Append(Stream, m)) = Range(Stream) \cup {m}
  BY ONLY <1>1, RangeOfAppend
<1>3. IsFiniteSet(SentTasks)
  BY PeerAssumption, FS_Subset DEF SentTasks
<1>4. \A a : At(a, SentTasks) \subseteq SentTasks
  BY DEF At
<1>. QED  BY Zenon, <1>1, <1>2, <1>3, <1>4, FS_Subset

\* A message about the endpoint of a task, sent by that task, keeps the numbers
\* of messages and of tasks past their send equal at every endpoint.
LEMMA OneMoreReport ==
  ASSUME TypeOK, NEW p \in Peer, p \notin SentTasks, SentTasks' = SentTasks \cup {p},
         NEW m \in Message, AddrOf[m.peer] = AddrOf[p], Stream' = Append(Stream, m),
         NEW a \in Addr, Cardinality(About(a, Stream)) = Cardinality(At(a, SentTasks))
  PROVE  Cardinality(About(a, Stream')) = Cardinality(At(a, SentTasks'))
<1>0. Stream \in Seq(Message) /\ IsFiniteSet(At(a, SentTasks))
  BY Zenon, StreamType
<1>1. CASE AddrOf[p] = a
  <2>1. Cardinality(About(a, Append(Stream, m))) = Cardinality(About(a, Stream)) + 1
    BY Zenon, <1>0, <1>1, AboutAppend
  <2>2. p \notin At(a, SentTasks) /\ At(a, SentTasks \cup {p}) = At(a, SentTasks) \cup {p}
    BY <1>1 DEF At
  <2>3. Cardinality(At(a, SentTasks \cup {p})) = Cardinality(At(a, SentTasks)) + 1
    BY Zenon, <1>0, <2>2, FS_AddElement
  <2>. QED  BY Zenon, <2>1, <2>3
<1>2. CASE AddrOf[p] # a
  <2>1. About(a, Append(Stream, m)) = About(a, Stream)
    BY Zenon, <1>0, <1>2, AboutAppend
  <2>2. At(a, SentTasks \cup {p}) = At(a, SentTasks)
    BY <1>2 DEF At
  <2>. QED  BY Zenon, <2>1, <2>2
<1>. QED  BY Zenon, <1>1, <1>2

\* The stream has one message for every task past its send.
LEMMA ReportingStep ==
  ASSUME TypeOK, Inserted, Reporting, [Next]_vars
  PROVE  Reporting'
<1>1. ASSUME Coordinate
      PROVE  Reporting'
  <2>1. CASE ~Spawn
    BY Zenon, <1>1, <2>1, CoordinateFrame DEF Reporting, SentTasks
  <2>2. CASE Spawn
    <3>1. /\ task[current] = "none"
          /\ task' = [task EXCEPT ![current] = "connect"]
          /\ current \in Peer
          /\ task \in [Peer -> TaskState]
      BY <2>2 DEF Spawn, Inserted, TypeOK
    <3>2. /\ SentTasks' = SentTasks
          /\ \A p \in Peer : task'[p] = task[p] \/ (task[p] = "none" /\ task'[p] = "connect")
      BY <3>1 DEF SentTasks, Sent
    <3>. QED  BY Zenon, <1>1, <3>2, CoordinateFrame DEF Reporting
  <2>. QED  BY <2>1, <2>2
<1>2. ASSUME NEW p \in Peer, TaskStep(p)
      PROVE  Reporting'
  <2>0. /\ \A q \in Peer \ {p} : task'[q] = task[q]
        /\ caller' = caller
        /\ Stream \in Seq(Message)
    BY Zenon, <1>2, TaskFrame, StreamType
  <2>1. CASE /\ Stream' = Stream
             /\ (task'[p] \in Sent <=> task[p] \in Sent) \/ caller = "dropped"
             /\ task'[p] # "get_peers"
             /\ task'[p] = "send_peers" => task[p] = "get_peers"
             /\ task[p] \in {"done", "ended", "panicked"} =>
                  task'[p] \in {"done", "ended", "panicked"}
    <3>1. caller # "dropped" => SentTasks' = SentTasks
      BY Zenon, <2>0, <2>1 DEF SentTasks
    <3>. QED  BY Zenon, <2>0, <2>1, <3>1 DEF Reporting
  <2>2. ASSUME NEW m \in Message, AddrOf[m.peer] = AddrOf[p], Stream' = Append(Stream, m),
               \/ task[p] = "listening" /\ task'[p] = "get_peers" /\ m.kind = "Listening"
               \/ task[p] = "non_listening" /\ task'[p] = "done" /\ m = NonListening(p)
        PROVE  Reporting'
    <3>1. Range(Stream') = Range(Stream) \cup {m}
      BY Zenon, <2>2, StreamType
    <3>2. p \notin SentTasks /\ SentTasks' = SentTasks \cup {p}
      BY Zenon, <2>0, <2>2 DEF SentTasks, Sent
    <3>3. caller # "dropped" =>
            \A a \in Addr : Cardinality(About(a, Stream')) = Cardinality(At(a, SentTasks'))
      BY Zenon, <2>2, <3>2, OneMoreReport DEF Reporting
    <3>4. \A q \in Peer : task'[q] \in {"get_peers", "send_peers"} =>
            \E n \in Range(Stream') : n.kind = "Listening" /\ AddrOf[n.peer] = AddrOf[q]
      BY Zenon, <2>0, <2>2, <3>1 DEF Reporting
    <3>5. \A q \in Peer : m = NonListening(q) => q = p /\ task'[p] = "done"
      BY <2>2 DEF NonListening
    <3>6. \A q \in Peer : NonListening(q) \in Range(Stream') =>
            task'[q] \in {"done", "ended", "panicked"}
      BY Zenon, <2>0, <2>2, <3>1, <3>5 DEF Reporting
    <3>. QED  BY Zenon, <2>0, <3>3, <3>4, <3>6 DEF Reporting
  <2>3. ASSUME NEW q \in Handshaken[AddrOf[p]], Stream' = Append(Stream, Listening(q)),
               task[p] = "listening", task'[p] = "get_peers"
        PROVE  Reporting'
    <3>1. /\ Listening(q) \in Message
          /\ Listening(q).kind = "Listening"
          /\ AddrOf[Listening(q).peer] = AddrOf[p]
      BY PeerAssumption, HandshakeAssumption DEF Listening, Message
    <3>. QED  BY Zenon, <2>2, <2>3, <3>1
  <2>4. ASSUME Stream' = Append(Stream, NonListening(p)),
               task[p] = "non_listening", task'[p] = "done"
        PROVE  Reporting'
    <3>1. NonListening(p) \in Message /\ NonListening(p).peer = p
      BY DEF NonListening, Message
    <3>. QED  BY Zenon, <2>2, <2>4, <3>1
  <2>. QED  BY Zenon, <1>2, <2>1, <2>3, <2>4, TaskStream
<1>3. CASE Recv \/ RecvNone \/ DropReceiver \/ Finished \/ UNCHANGED vars
  <2>1. caller' # "dropped" => caller # "dropped"
    BY <1>3 DEF Recv, RecvNone, DropReceiver, Finished
  <2>. QED  BY Zenon, <1>3, <2>1, CallerFrame DEF Reporting, SentTasks
<1>. QED  BY <1>1, <1>2, <1>3 DEF Next

\* No message leaves the stream, so a peer once known stays known.
LEMMA StreamGrows ==
  ASSUME TypeOK, [Next]_vars
  PROVE  /\ Range(Stream) \subseteq Range(Stream')
         /\ \A p : Promise!Known(p) => Promise!Known(p)'
<1>1. \A m \in Message : Range(Append(Stream, m)) = Range(Stream) \cup {m}
  BY Zenon, StreamType
<1>2. ASSUME NEW p \in Peer
      PROVE  /\ NonListening(p) \in Message
             /\ \A q \in Handshaken[AddrOf[p]] : Listening(q) \in Message
  BY PeerAssumption, HandshakeAssumption DEF NonListening, Listening, Message
<1>3. Range(Stream) \subseteq Range(Stream')
  <2>1. ASSUME NEW p \in Peer, TaskStep(p)
        PROVE  Range(Stream) \subseteq Range(Stream')
    BY Zenon, <1>1, <1>2, <2>1, TaskStream
  <2>. QED  BY Zenon, <2>1, CoordinateFrame, CallerFrame DEF Next
<1>. QED  BY Zenon, <1>3 DEF Promise!Known, Promise!Range, Range

\* Every peer queued or tested is the seed or was gossiped by a reported peer.
LEMMA SourcedStep ==
  ASSUME TypeOK, Accounting, Reporting, Sourced, [Next]_vars
  PROVE  Sourced'
<1>. USE PeerAssumption
<1>0. \A p : Promise!Known(p) => Promise!Known(p)'
  BY StreamGrows
<1>1. ASSUME Coordinate
      PROVE  Sourced'
  <2>0. filtered' = filtered
    BY <1>1, CoordinateFrame
  <2>. USE DEF Sourced
  <2>1. CASE Start
    <3>1. \A peers \in SUBSET Peer :
            Range(Append(peer_discovery, peers)) = Range(peer_discovery) \cup {peers}
      BY RangeOfAppend DEF TypeOK
    <3>2. /\ \/ peer_discovery' = peer_discovery
             \/ peer_discovery' = Append(peer_discovery, {Seed})
          /\ UNCHANGED <<tested_peers, batch>>
      BY Zenon, <2>1 DEF Start
    <3>3. Range(peer_discovery') \subseteq Range(peer_discovery) \cup {{Seed}}
      BY Zenon, <3>1, <3>2
    <3>4. \A p \in {Seed} : Promise!Known(p)
      BY Zenon DEF Promise!Known
    <3>5. \A peers \in Range(peer_discovery') : \A p \in peers : Promise!Known(p)
      BY Zenon, <3>3, <3>4
    <3>. QED  BY Zenon, <1>0, <2>0, <3>2, <3>5
  <2>2. CASE CheckClosed \/ PollDone \/ Wake \/ AwaitCapacity \/ Spawn
    BY Zenon, <1>0, <2>0, <2>2 DEF CheckClosed, PollDone, Wake, AwaitCapacity, Spawn
  <2>3. CASE PollDiscovery
    <3>1. peer_discovery # << >> =>
            Range(peer_discovery) = {Head(peer_discovery)} \cup Range(Tail(peer_discovery))
      BY RangeOfTail DEF TypeOK
    <3>. QED  BY Zenon, <1>0, <2>0, <2>3, <3>1 DEF PollDiscovery
  <2>4. CASE InsertPeer
    BY Zenon, <1>0, <2>0, <2>4 DEF InsertPeer
  <2>. QED  BY Zenon, <1>1, <2>1, <2>2, <2>3, <2>4 DEF Coordinate
<1>2. ASSUME NEW p \in Peer, TaskStep(p)
      PROVE  Sourced'
  <2>0. UNCHANGED <<tested_peers, batch>>
    BY Zenon, <1>2, TaskFrame
  <2>. USE DEF Sourced
  <2>1. CASE Connect(p) \/ SendNonListening(p) \/ SendListening(p) \/ TaskDone(p)
    BY Zenon, <1>0, <2>0, <2>1 DEF Connect, SendNonListening, SendListening, SendMessage, TaskDone
  <2>2. CASE GetPeers(p)
    <3>1. PICK discovered_peers \in Gossip[AddrOf[p]] \cup {{}} :
            filtered' = [filtered EXCEPT ![p] = discovered_peers \ tested_peers]
      BY Zenon, <2>2 DEF GetPeers
    <3>2. PICK m \in Range(Stream) : m.kind = "Listening" /\ AddrOf[m.peer] = AddrOf[p]
      BY Zenon, <2>2 DEF GetPeers, Reporting
    <3>3. \A q \in discovered_peers : Promise!Known(q)
      <4>1. AddrOf[p] \in Addr
        BY ONLY PeerAssumption, p \in Peer
      <4>. QED  BY Zenon, <3>1, <3>2, <4>1 DEF Promise!Known, Promise!Range, Range
    <3>4. UNCHANGED peer_discovery
      BY Zenon, <2>2 DEF GetPeers
    <3>5. \A q \in Peer : filtered'[q] \subseteq filtered[q] \cup discovered_peers
      BY <3>1 DEF TypeOK
    <3>. QED  BY Zenon, <1>0, <2>0, <3>3, <3>4, <3>5
  <2>3. CASE SendPeers(p)
    <3>1. filtered[p] \in SUBSET Peer
      BY DEF TypeOK
    <3>2. Range(Append(peer_discovery, filtered[p])) = Range(peer_discovery) \cup {filtered[p]}
      BY <3>1, RangeOfAppend DEF TypeOK
    <3>3. /\ filtered' = [filtered EXCEPT ![p] = {}]
          /\ \/ peer_discovery' = peer_discovery
             \/ peer_discovery' = Append(peer_discovery, filtered[p])
      BY Zenon, <2>3 DEF SendPeers
    <3>4. Range(peer_discovery') \subseteq Range(peer_discovery) \cup {filtered[p]}
      BY Zenon, <3>2, <3>3
    <3>5. \A peers \in Range(peer_discovery') : \A q \in peers : Promise!Known(q)
      BY Zenon, <3>4
    <3>6. \A q \in Peer : filtered'[q] \subseteq filtered[q]
      BY <3>3 DEF TypeOK
    <3>. QED  BY Zenon, <1>0, <2>0, <3>5, <3>6
  <2>. QED  BY Zenon, <1>2, <2>1, <2>2, <2>3 DEF TaskStep
<1>3. CASE Recv \/ RecvNone \/ DropReceiver \/ Finished \/ UNCHANGED vars
  BY Zenon, <1>0, <1>3, CallerFrame DEF Sourced
<1>. QED  BY <1>1, <1>2, <1>3 DEF Next

\* IInv is inductive.
THEOREM Inductive == Spec => []IInv
<1>1. IInv /\ [Next]_vars => IInv'
  BY Zenon, TypeStep, InsertedStep, AccountingStep, ProgressStep, PolledStep, HangupStep,
     ReportingStep, EndedStep, SourcedStep
     DEF IInv, Accounting
<1>. QED  BY <1>1, InitIInv, PTL DEF Spec

(***************************************************************************)
(* The theorems.                                                           *)
(***************************************************************************)
\* Types, and with them: the unchecked `active_tasks -= 1' never underflows.
THEOREM TypeCorrect == Spec => []TypeOK
BY Inductive, PTL DEF IInv

\* The coordinator's count is exact and bounded by max_concurrent_tasks.
THEOREM CountIsExact == Spec => []ActiveTasksExact
BY Inductive, PTL DEF IInv, Accounting

\* The send of a completion never waits: its sender is one of the tasks the
\* coordinator counts, and the channel holds as many as it may count.
LEMMA DoneHasRoom == Spec => []DoneNeverBlocks
<1>1. IInv => DoneNeverBlocks
  <2>1. SUFFICES ASSUME IInv, NEW p \in Peer, task[p] = "done", coord \notin CoordGone
                 PROVE  task_done < max_concurrent_tasks
    BY DEF DoneNeverBlocks
  <2>2. p \in RunningTasks
    BY <2>1 DEF RunningTasks, Running
  <2>3. Cardinality(RunningTasks) \in Nat \ {0}
    BY <2>1, <2>2, RunningIsFinite DEF IInv
  <2>. QED
    BY <2>1, <2>3, ConfigAssumption DEF IInv, Accounting, ActiveTasksExact, TypeOK
<1>. QED  BY <1>1, Inductive, PTL

\* A waiting coordinator is always waiting for a task that still runs.
LEMMA NoOrphanedWait == Spec => []WaitIsAnswered
<1>1. IInv => WaitIsAnswered
  <2>1. SUFFICES ASSUME IInv,
                        task_done = 0,
                        \/ coord = "parked"
                        \/ coord = "capacity" /\ active_tasks >= max_concurrent_tasks
                 PROVE  RunningTasks # {}
    BY DEF WaitIsAnswered
  <2>2. active_tasks > 0
    BY <2>1, ConfigAssumption DEF IInv, Progress, Accounting, TypeOK
  <2>3. active_tasks = Cardinality(RunningTasks)
    BY <2>1, RunningIsFinite DEF IInv, Accounting, ActiveTasksExact, CoordGone
  <2>. QED  BY <2>1, <2>2, <2>3, RunningIsFinite DEF IInv
<1>. QED  BY <1>1, Inductive, PTL

\* Coordinator and tasks do not deadlock.
THEOREM NoDeadlock == Spec => []NoMutualWait
BY DoneHasRoom, NoOrphanedWait, PTL DEF NoMutualWait

\* No peer is tested twice.
THEOREM NoSecondTest == Spec => TestedOnce
<1>1. ASSUME IInv, [Next]_vars, NEW p \in Peer, task[p] # "none", task'[p] = "connect"
      PROVE  task[p] = "connect"
  <2>1. CASE Coordinate
    <3>1. Spawn => task[current] = "none" /\ task' = [task EXCEPT ![current] = "connect"]
      BY <1>1 DEF Spawn, IInv, Inserted
    <3>. QED  BY <1>1, <2>1, <3>1, CoordinateFrame DEF IInv, TypeOK
  <2>2. CASE \E q \in Peer : TaskStep(q)
    BY <1>1, <2>2, TaskFrame DEF IInv
  <2>3. CASE Recv \/ RecvNone \/ DropReceiver \/ Finished \/ UNCHANGED vars
    BY <1>1, <2>3, CallerFrame DEF IInv
  <2>. QED  BY <1>1, <2>1, <2>2, <2>3 DEF Next
<1>2. IInv /\ [Next]_vars =>
        [\A p \in Peer : task[p] # "none" => (task'[p] = "connect" => task[p] = "connect")]_vars
  BY <1>1
<1>. QED  BY <1>2, Inductive, PTL DEF Spec, TestedOnce

\* The race between the two polls of the select loses one batch at most.
THEOREM AtMostOneBatchLost == Spec => []LostBatchBound
BY Inductive, PTL DEF IInv, Polled

\* On a current_thread runtime the crawl ends only when every discovered peer
\* has been tested.
THEOREM CurrentThreadIsComplete == Spec => [](runtime = "current_thread" => NaturalCompletion)
<1>1. IInv => (runtime = "current_thread" => NaturalCompletion)
  <2>1. SUFFICES ASSUME IInv, runtime = "current_thread", coord = "exhausted"
                 PROVE  Len(peer_discovery) = 0
    BY DEF NaturalCompletion
  <2>2. Len(peer_discovery) \in Nat
    BY <2>1 DEF IInv, TypeOK
  <2>. QED  BY <2>1, <2>2 DEF IInv, Polled, LostBatchBound
<1>. QED  BY <1>1, Inductive, PTL

\* The expect() of a task holds as long as the caller keeps the receiver.
THEOREM NoPanic == Spec => []NoPanicWhileReceiving
BY Inductive, PTL DEF IInv, Hangup

\* A caller that sees the channel close has a report on every tested peer.
THEOREM ReportsAreComplete == Spec => []EndIsComplete
<1>1. IInv => EndIsComplete
  <2>1. SUFFICES ASSUME IInv, caller = "ended"
                 PROVE  /\ SendersGone
                        /\ crawl = << >>
                        /\ coord # "panicked" => coord = "exhausted"
                        /\ \A a \in Addr :
                             Cardinality(About(a, received)) = Cardinality(At(a, tested_peers))
    BY DEF EndIsComplete
  <2>2. SendersGone /\ crawl = << >>
    BY <2>1 DEF IInv, Ended
  <2>3. coord # "panicked" => coord = "exhausted"
    BY <2>1, <2>2 DEF IInv, Hangup, SendersGone, CoordGone
  <2>4. Stream = received
    BY <2>1, <2>2 DEF Stream, IInv, TypeOK
  <2>5. tested_peers = SentTasks
    BY <2>1, <2>2 DEF IInv, Inserted, SendersGone, CoordGone, TypeOK, TaskState, Running,
                      SentTasks, Sent
  <2>6. \A a \in Addr : Cardinality(About(a, received)) = Cardinality(At(a, tested_peers))
    BY Zenon, <2>1, <2>4, <2>5 DEF IInv, Reporting
  <2>. QED  BY <2>2, <2>3, <2>6
<1>. QED  BY <1>1, Inductive, PTL

\* A task that has not sent its message yet is for a known peer, so that its
\* endpoint has fewer messages than known peers.
LEMMA RoomForReport ==
  ASSUME IInv, caller # "dropped",
         NEW p \in Peer, task[p] # "none", task[p] \notin Sent
  PROVE  Cardinality(Promise!About(AddrOf[p])) < Cardinality(Promise!KnownAt(AddrOf[p]))
<1>. DEFINE a == AddrOf[p]
<1>0. a \in Addr
  BY PeerAssumption
<1>1. \A q \in SentTasks \cup {p} : q \in Peer /\ Promise!Known(q)
  BY Zenon DEF IInv, Inserted, Sourced, SentTasks, Sent
<1>2. At(a, SentTasks) \cup {p} \subseteq Promise!KnownAt(a)
  BY Zenon, <1>1 DEF At, Promise!KnownAt
<1>3. p \notin At(a, SentTasks)
  BY DEF At, SentTasks
<1>4. IsFiniteSet(At(a, SentTasks))
  BY Zenon, StreamType DEF IInv
<1>5. Cardinality(At(a, SentTasks) \cup {p}) = Cardinality(At(a, SentTasks)) + 1
  BY Zenon, <1>3, <1>4, FS_AddElement
<1>6. IsFiniteSet(Promise!KnownAt(a))
  BY PeerAssumption, FS_Subset DEF Promise!KnownAt
<1>7. Cardinality(At(a, SentTasks) \cup {p}) <= Cardinality(Promise!KnownAt(a))
  BY Zenon, <1>2, <1>6, FS_Subset
<1>8. Cardinality(Promise!About(a)) = Cardinality(At(a, SentTasks))
  BY Zenon, <1>0 DEF Promise!About, About, IInv, Reporting
<1>9. /\ Cardinality(At(a, SentTasks)) \in Nat
      /\ Cardinality(Promise!KnownAt(a)) \in Nat
  BY Zenon, <1>4, <1>6, FS_CardinalityType
<1>. HIDE DEF a
<1>10. Cardinality(Promise!About(a)) < Cardinality(Promise!KnownAt(a))
  BY <1>5, <1>7, <1>8, <1>9
<1>. QED  BY <1>10 DEF a

\* A step of the session is a step of the promised stream, or leaves it alone.
LEMMA StreamStep ==
  ASSUME max_concurrent_tasks > 0, IInv, [Next]_vars
  PROVE  [Promise!Next]_<<Stream, caller>>
<1>1. CASE Coordinate
  BY <1>1, CoordinateFrame
<1>2. ASSUME NEW p \in Peer, TaskStep(p)
      PROVE  [Promise!Next]_<<Stream, caller>>
  <2>0. /\ p \in tested_peers
        /\ Promise!Known(p)
        /\ caller' = caller
    BY Zenon, <1>2, TaskFrame DEF IInv, Inserted, Sourced, Running
  <2>1. ASSUME NEW m \in Message, AddrOf[m.peer] = AddrOf[p],
               task[p] \in {"listening", "non_listening"},
               m.kind = "Listening" => m.peer \in Handshaken[AddrOf[p]],
               m.kind = "NonListening" => task[p] = "non_listening" /\ m = NonListening(p),
               Stream' = Append(Stream, m),
               caller # "dropped"
        PROVE  Promise!Next
    <3>1. caller = "receiving"
      BY Zenon, <1>2, <2>1, TaskFrame DEF IInv, Ended, SendersGone, TypeOK
    <3>2. Cardinality(Promise!About(AddrOf[p])) < Cardinality(Promise!KnownAt(AddrOf[p]))
      BY Zenon, <2>1, RoomForReport DEF Sent
    <3>3. m.kind = "NonListening" => Promise!Known(m.peer) /\ m \notin Range(Stream)
      <4>1. NonListening(p) \notin Range(Stream)  \/ task[p] # "non_listening"
        BY Zenon DEF IInv, Reporting
      <4>2. NonListening(p).peer = p
        BY DEF NonListening
      <4>. QED  BY Zenon, <2>0, <2>1, <4>1, <4>2
    <3>4. Promise!Report(m)
      <4>1. Cardinality(Promise!About(AddrOf[m.peer])) <
              Cardinality(Promise!KnownAt(AddrOf[m.peer]))
        BY ONLY Zenon, <2>1, <3>2
      <4>2. m.kind = "Listening" => m.peer \in Handshaken[AddrOf[m.peer]]
        BY ONLY Zenon, <2>1
      <4>3. Range(Stream) = Promise!Range(Stream)
        BY Zenon DEF Range, Promise!Range
      <4>4. \A S : Promise!Cardinality(S) = Cardinality(S)
        BY Zenon DEF Cardinality, Promise!Cardinality
      <4>. QED  BY Zenon, <2>0, <2>1, <3>1, <3>3, <4>1, <4>2, <4>3, <4>4 DEF Promise!Report
    <3>5. m \in Promise!Message
      BY Zenon, <2>1 DEF Message, Promise!Message
    <3>. QED  BY Zenon, <3>4, <3>5 DEF Promise!Next
  <2>2. ASSUME NEW q \in Handshaken[AddrOf[p]]
        PROVE  /\ Listening(q) \in Message
               /\ Listening(q).peer = q
               /\ Listening(q).kind = "Listening"
               /\ AddrOf[q] = AddrOf[p]
    BY ONLY PeerAssumption, HandshakeAssumption, p \in Peer, <2>2 DEF Listening, Message
  <2>3. /\ NonListening(p) \in Message
        /\ NonListening(p).peer = p
        /\ NonListening(p).kind = "NonListening"
    BY DEF NonListening, Message
  <2>4. CASE Stream' = Stream
    BY <2>0, <2>4
  <2>5. ASSUME NEW q \in Handshaken[AddrOf[p]], Stream' = Append(Stream, Listening(q)),
               task[p] = "listening", caller # "dropped"
        PROVE  Promise!Next
    BY Zenon, <2>1, <2>2, <2>5
  <2>6. ASSUME Stream' = Append(Stream, NonListening(p)),
               task[p] = "non_listening", caller # "dropped"
        PROVE  Promise!Next
    BY Zenon, <2>1, <2>3, <2>6
  <2>. QED  BY Zenon, <1>2, <2>4, <2>5, <2>6, TaskStream DEF IInv
<1>3. CASE RecvNone
  <2>1. caller = "receiving" /\ caller' = "ended" /\ Stream' = Stream
    BY Zenon, <1>3, CallerFrame DEF RecvNone, IInv
  <2>2. coord = "exhausted"
    BY <1>3, <2>1 DEF RecvNone, SendersGone, CoordGone, IInv, Hangup, Accounting
  <2>3. Promise!About(AddrOf[Seed]) # {}
    <3>1. Seed \in tested_peers /\ Seed \in Peer /\ AddrOf[Seed] \in Addr
      BY <2>2, PeerAssumption DEF IInv, Progress
    <3>2. task[Seed] \in {"ended", "panicked"}
      BY Zenon, <1>3, <2>2, <3>1 DEF RecvNone, SendersGone, IInv, Inserted, TypeOK, TaskState, Running
    <3>3. Seed \in At(AddrOf[Seed], SentTasks)
      BY <3>1, <3>2 DEF At, SentTasks, Sent
    <3>4. Cardinality(At(AddrOf[Seed], SentTasks)) # 0
      BY <3>3, StreamType, FS_EmptySet DEF IInv
    <3>5. Cardinality(About(AddrOf[Seed], Stream)) # 0
      BY Zenon, <2>1, <3>1, <3>4 DEF IInv, Reporting
    <3>6. Promise!About(AddrOf[Seed]) = About(AddrOf[Seed], Stream)
      BY Zenon DEF Promise!About, About
    <3>. QED  BY <3>5, <3>6, FS_EmptySet
  <2>4. Promise!End
    BY Zenon, <2>1, <2>3 DEF Promise!End
  <2>. QED  BY Zenon, <2>4 DEF Promise!Next
<1>4. CASE DropReceiver
  <2>1. Promise!Drop
    BY Zenon, <1>4, CallerFrame DEF DropReceiver, Promise!Drop, IInv
  <2>. QED  BY <2>1 DEF Promise!Next
<1>5. CASE Recv \/ Finished \/ UNCHANGED vars
  BY Zenon, <1>5, CallerFrame DEF Recv, Finished, IInv
<1>. QED  BY <1>1, <1>2, <1>3, <1>4, <1>5 DEF Next

\* The session implements PeerStream: what the caller receives is the stream
\* that Crawler::crawl() promises, whatever the network answers and whenever
\* the receiver is dropped.
THEOREM SessionImplementsStream ==
  ASSUME max_concurrent_tasks > 0
  PROVE  Spec => StreamPromise
<1>1. Init => Promise!Init
  BY DEF Init, Promise!Init, Stream
<1>2. IInv /\ [Next]_vars => [Promise!Next]_<<Stream, caller>>
  BY StreamStep
<1>. QED  BY <1>1, <1>2, Inductive, PTL DEF Spec, StreamPromise, Promise!Spec
=============================================================================
