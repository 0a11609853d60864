---------------------------- MODULE CrawlSession ----------------------------
(***************************************************************************)
(* The crawl session of the crawler crate (crawler/src/session.rs): one    *)
(* coordinator, coordinate(), a task per tested peer that runs process(),  *)
(* and the caller of Crawler::crawl(), who holds the receiving end of the  *)
(* result channel.                                                         *)
(*                                                                         *)
(* Three channels connect them:                                            *)
(*   crawl           tasks -> caller, bounded (CrawlCapacity);             *)
(*   peer_discovery  tasks -> coordinator, unbounded;                      *)
(*   task_done       tasks -> coordinator, bounded (max_concurrent_tasks). *)
(*                                                                         *)
(* An action is the code one actor runs between two points at which the    *)
(* others can observe it.  In particular the biased select! of the         *)
(* coordinator is two steps, the poll of the first branch and the poll of  *)
(* the second: on a multi-threaded runtime a task runs between them.       *)
(*                                                                         *)
(* Abstractions.  A Vec<Peer> on its way to the coordinator is a set: the  *)
(* coordinator may meet its peers in any order, and the second of two      *)
(* equal entries takes the same `continue' as an entry tested before.  A   *)
(* TaskResult is only logged, so the task_done channel is the number of    *)
(* results in it.                                                          *)
(*                                                                         *)
(* A Peer is compared as a whole: the same endpoint with other services or *)
(* another version is another Peer.  A task is started for a Peer that was *)
(* gossiped, or for the seed; what it reports as Listening is the Peer of  *)
(* the connection, whose services and version the handshake has replaced.  *)
(***************************************************************************)
EXTENDS Naturals, Sequences, FiniteSets, Functions

CONSTANTS
  Peer,           \* values of type Peer: address, port, services and version
  Addr,           \* the network endpoints (address and port)
  AddrOf,         \* the endpoint of each peer
  Seed,           \* the peer the crawl starts from
  Gossip,         \* what each endpoint may answer to getaddr: sets of peers
  Handshaken,     \* the peers a handshake with each endpoint may result in
  max_concurrent_tasks,
  CrawlCapacity   \* capacity of the result channel (1000 in the code)

ASSUME PeerAssumption ==
  /\ IsFiniteSet(Peer)
  /\ AddrOf \in [Peer -> Addr]
  /\ Seed \in Peer
  /\ Gossip \in [Addr -> SUBSET SUBSET Peer]

\* A handshake sets the services and the version of the connection's peer and
\* leaves its address and port alone.
ASSUME HandshakeAssumption ==
  /\ Handshaken \in [Addr -> SUBSET Peer \ {{}}]
  /\ \A a \in Addr : \A p \in Handshaken[a] : AddrOf[p] = a

ASSUME ConfigAssumption ==
  /\ max_concurrent_tasks \in Nat
  /\ CrawlCapacity \in Nat \ {0}

VARIABLES
  runtime,         \* the flavour of the tokio runtime
  coord,           \* where the coordinator is
  batch,           \* the peers of the batch in hand it has not yet handled
  current,         \* the peer it has just inserted and is about to spawn
  tested_peers,    \* the shared deduplication set
  active_tasks,    \* the coordinator's count of tasks in flight
  peer_discovery,  \* channel of discovered peers
  task_done,       \* number of completions in the task_done channel
  task,            \* where the task of each peer is
  filtered,        \* the filtered_peers of each task
  crawl,           \* the result channel
  caller,          \* state of the caller's end of the result channel
  received         \* the messages the caller has received, in order

coordVars == <<coord, batch, current, tested_peers, active_tasks>>
taskVars == <<task, filtered>>
callerVars == <<caller, received>>
vars == <<runtime, coordVars, peer_discovery, task_done, taskVars, crawl, callerVars>>

(***************************************************************************)
(* States.                                                                 *)
(***************************************************************************)
\* How coordinate() can end: all tasks done, caller gone, or a panic.
CoordGone == {"exhausted", "stopped", "panicked"}

CoordState ==
  {"start", "top", "poll_discovery", "poll_done", "parked", "batch", "capacity"}
    \cup CoordGone

\* A task between its spawn and the send of its TaskResult.
Running ==
  {"connect", "non_listening", "listening", "get_peers", "send_peers", "done"}

TaskState == {"none", "ended", "panicked"} \cup Running

Message == [kind : {"Listening", "NonListening"}, peer : Peer]

Listening(p) == [kind |-> "Listening", peer |-> p]
NonListening(p) == [kind |-> "NonListening", peer |-> p]

\* crawl_tx.is_closed(): the caller has dropped the receiver.
CrawlClosed == caller = "dropped"

Init ==
  /\ runtime \in {"multi_thread", "current_thread"}
  /\ coord = "start"
  /\ batch = {}
  /\ current = Seed
  /\ tested_peers = {}
  /\ active_tasks = 0
  /\ peer_discovery = << >>
  /\ task_done = 0
  /\ task = [p \in Peer |-> "none"]
  /\ filtered = [p \in Peer |-> {}]
  /\ crawl = << >>
  /\ caller = "receiving"
  /\ received = << >>

(***************************************************************************)
(* The coordinator.                                                        *)
(***************************************************************************)
\* Creates the channels and queues the seed.  mpsc::channel(0) panics.
Start ==
  /\ coord = "start"
  /\ IF max_concurrent_tasks = 0
     THEN /\ coord' = "panicked"
          /\ UNCHANGED peer_discovery
     ELSE /\ coord' = "top"
          /\ peer_discovery' = Append(peer_discovery, {Seed})
  /\ UNCHANGED <<batch, current, tested_peers, active_tasks, task_done,
                 taskVars, crawl, callerVars>>

\* Top of the loop: stop if the caller hung up, else enter the select.
CheckClosed ==
  /\ coord = "top"
  /\ coord' = IF CrawlClosed THEN "stopped" ELSE "poll_discovery"
  /\ UNCHANGED <<batch, current, tested_peers, active_tasks, peer_discovery,
                 task_done, taskVars, crawl, callerVars>>

\* Mutant: the select without `biased'.
PollDiscovery_unbiased ==
  /\ coord = "poll_discovery"
  /\ \/ /\ peer_discovery # << >>
        /\ batch' = Head(peer_discovery)
        /\ peer_discovery' = Tail(peer_discovery)
        /\ coord' = "batch"
     \/ /\ coord' = "poll_done"
        /\ UNCHANGED <<batch, peer_discovery>>
  /\ UNCHANGED <<current, tested_peers, active_tasks, task_done, taskVars,
                 crawl, callerVars>>

\* The select polls its first branch.
PollDiscovery ==
  /\ coord = "poll_discovery"
  /\ \/ /\ peer_discovery # << >>
        /\ batch' = Head(peer_discovery)
        /\ peer_discovery' = Tail(peer_discovery)
        /\ coord' = "batch"
     \/ /\ peer_discovery = << >>
        /\ coord' = "poll_done"
        /\ UNCHANGED <<batch, peer_discovery>>
  /\ UNCHANGED <<current, tested_peers, active_tasks, task_done, taskVars,
                 crawl, callerVars>>

\* Mutant: the loop ends one task early.
PollDone_early ==
  /\ coord = "poll_done"
  /\ \/ /\ task_done > 0
        /\ task_done' = task_done - 1
        /\ active_tasks' = active_tasks - 1
        /\ coord' = IF active_tasks' <= 1 THEN "exhausted" ELSE "top"
     \/ /\ task_done = 0
        /\ coord' = "parked"
        /\ UNCHANGED <<task_done, active_tasks>>
  /\ UNCHANGED <<batch, current, tested_peers, peer_discovery, taskVars, crawl,
                 callerVars>>

\* The first branch was pending: the select polls its second branch.  The
\* loop ends when the last task in flight is accounted for; with both branches
\* pending the coordinator waits to be woken.
PollDone ==
  /\ coord = "poll_done"
  /\ \/ /\ task_done > 0
        /\ task_done' = task_done - 1
        /\ active_tasks' = active_tasks - 1
        /\ coord' = IF active_tasks' = 0 THEN "exhausted" ELSE "top"
     \/ /\ task_done = 0
        /\ coord' = "parked"
        /\ UNCHANGED <<task_done, active_tasks>>
  /\ UNCHANGED <<batch, current, tested_peers, peer_discovery, taskVars, crawl,
                 callerVars>>

\* A send to either channel wakes the select, which polls from its first
\* branch again; is_closed() is not looked at in between.
Wake ==
  /\ coord = "parked"
  /\ peer_discovery # << >> \/ task_done > 0
  /\ coord' = "poll_discovery"
  /\ UNCHANGED <<batch, current, tested_peers, active_tasks, peer_discovery,
                 task_done, taskVars, crawl, callerVars>>

\* Mutant: the result of insert() is ignored.
InsertPeer_unchecked ==
  /\ coord = "batch"
  /\ \/ /\ batch = {}
        /\ coord' = "top"
        /\ UNCHANGED <<batch, current, tested_peers>>
     \/ \E p \in batch :
          /\ batch' = batch \ {p}
          /\ tested_peers' = tested_peers \cup {p}
          /\ current' = p
          /\ coord' = "capacity"
  /\ UNCHANGED <<active_tasks, peer_discovery, task_done, taskVars, crawl,
                 callerVars>>

\* One iteration of `for peer in peers' up to the insert, and the end of the
\* batch.
InsertPeer ==
  /\ coord = "batch"
  /\ \/ /\ batch = {}
        /\ coord' = "top"
        /\ UNCHANGED <<batch, current, tested_peers>>
     \/ \E p \in batch :
          /\ batch' = batch \ {p}
          /\ \/ /\ p \in tested_peers
                /\ UNCHANGED <<coord, current, tested_peers>>
             \/ /\ p \notin tested_peers
                /\ tested_peers' = tested_peers \cup {p}
                /\ current' = p
                /\ coord' = "capacity"
  /\ UNCHANGED <<active_tasks, peer_discovery, task_done, taskVars, crawl,
                 callerVars>>

\* Mutant: the count goes down without a completion (try_recv() for recv()).
AwaitCapacity_no_wait ==
  /\ coord = "capacity"
  /\ active_tasks >= max_concurrent_tasks
  /\ task_done' = task_done - 1
  /\ active_tasks' = active_tasks - 1
  /\ UNCHANGED <<coord, batch, current, tested_peers, peer_discovery, taskVars,
                 crawl, callerVars>>

\* At max concurrent capacity: wait for a task to finish.
AwaitCapacity ==
  /\ coord = "capacity"
  /\ active_tasks >= max_concurrent_tasks
  /\ task_done > 0
  /\ task_done' = task_done - 1
  /\ active_tasks' = active_tasks - 1
  /\ UNCHANGED <<coord, batch, current, tested_peers, peer_discovery, taskVars,
                 crawl, callerVars>>

\* Mutant: the capacity check is off by one.
Spawn_over_capacity ==
  /\ coord = "capacity"
  /\ active_tasks <= max_concurrent_tasks
  /\ active_tasks' = active_tasks + 1
  /\ task' = [task EXCEPT ![current] = "connect"]
  /\ coord' = "batch"
  /\ UNCHANGED <<batch, current, tested_peers, peer_discovery, task_done,
                 filtered, crawl, callerVars>>

\* Mutant: the task is not counted.
Spawn_uncounted ==
  /\ coord = "capacity"
  /\ active_tasks < max_concurrent_tasks
  /\ task' = [task EXCEPT ![current] = "connect"]
  /\ coord' = "batch"
  /\ UNCHANGED <<active_tasks, batch, current, tested_peers, peer_discovery,
                 task_done, filtered, crawl, callerVars>>

\* Below capacity: count the task and spawn it.
Spawn ==
  /\ coord = "capacity"
  /\ active_tasks < max_concurrent_tasks
  /\ active_tasks' = active_tasks + 1
  /\ task' = [task EXCEPT ![current] = "connect"]
  /\ coord' = "batch"
  /\ UNCHANGED <<batch, current, tested_peers, peer_discovery, task_done,
                 filtered, crawl, callerVars>>

Coordinate ==
  /\ UNCHANGED runtime
  /\ \/ Start
     \/ CheckClosed
     \/ PollDiscovery
     \/ PollDone
     \/ Wake
     \/ InsertPeer
     \/ AwaitCapacity
     \/ Spawn

(***************************************************************************)
(* The task of peer p: process(), then the send of its result.             *)
(***************************************************************************)
\* Mutant: a failed connection is not reported.
Connect_unreported(p) ==
  /\ task[p] = "connect"
  /\ \E outcome \in {"listening", "done"} :
       task' = [task EXCEPT ![p] = outcome]
  /\ UNCHANGED <<coordVars, peer_discovery, task_done, filtered, crawl,
                 callerVars>>

\* The connection is established, or fails, or times out.
Connect(p) ==
  /\ task[p] = "connect"
  /\ \E outcome \in {"listening", "non_listening"} :
       task' = [task EXCEPT ![p] = outcome]
  /\ UNCHANGED <<coordVars, peer_discovery, task_done, filtered, crawl,
                 callerVars>>

\* Mutant: a send that fails is tried again.
SendMessage_retries(p, message, next) ==
  /\ \/ /\ CrawlClosed
        /\ UNCHANGED <<task, crawl>>
     \/ /\ ~CrawlClosed
        /\ Len(crawl) < CrawlCapacity
        /\ crawl' = Append(crawl, message)
        /\ task' = [task EXCEPT ![p] = next]
  /\ UNCHANGED <<coordVars, peer_discovery, task_done, filtered, callerVars>>

\* crawl_tx.send(message): fails if the receiver is gone, waits while the
\* channel is full, and leaves the task at next when the message is queued.
SendMessage(p, message, next) ==
  /\ \/ /\ CrawlClosed
        /\ task' = [task EXCEPT ![p] = "done"]
        /\ UNCHANGED crawl
     \/ /\ ~CrawlClosed
        /\ Len(crawl) < CrawlCapacity
        /\ crawl' = Append(crawl, message)
        /\ task' = [task EXCEPT ![p] = next]
  /\ UNCHANGED <<coordVars, peer_discovery, task_done, filtered, callerVars>>

SendNonListening(p) ==
  /\ task[p] = "non_listening"
  /\ SendMessage(p, NonListening(p), "done")

\* The peer reported is connection.peer(), as the handshake has left it.
SendListening(p) ==
  /\ task[p] = "listening"
  /\ \E peer_info \in Handshaken[AddrOf[p]] :
       SendMessage(p, Listening(peer_info), "get_peers")

\* get_peers() answers, with the empty set standing for an error as well, and
\* the answer is filtered under the read lock of tested_peers.
GetPeers(p) ==
  /\ task[p] = "get_peers"
  /\ \E discovered_peers \in Gossip[AddrOf[p]] \cup {{}} :
       LET fresh == discovered_peers \ tested_peers
       IN  /\ filtered' = [filtered EXCEPT ![p] = fresh]
           /\ task' = [task EXCEPT ![p] = IF fresh = {} THEN "done" ELSE "send_peers"]
  /\ UNCHANGED <<coordVars, peer_discovery, task_done, crawl, callerVars>>

\* peer_discovery_tx.send(filtered_peers), which fails once the coordinator
\* has returned and dropped the receiver.
SendPeers(p) ==
  /\ task[p] = "send_peers"
  /\ peer_discovery' = IF coord \in CoordGone
                       THEN peer_discovery
                       ELSE Append(peer_discovery, filtered[p])
  /\ filtered' = [filtered EXCEPT ![p] = {}]
  /\ task' = [task EXCEPT ![p] = "done"]
  /\ UNCHANGED <<coordVars, task_done, crawl, callerVars>>

\* done_tx.send(result).await.expect(...): waits while the channel is full,
\* panics once the coordinator has returned.
TaskDone(p) ==
  /\ task[p] = "done"
  /\ \/ /\ coord \in CoordGone
        /\ task' = [task EXCEPT ![p] = "panicked"]
        /\ UNCHANGED task_done
     \/ /\ coord \notin CoordGone
        /\ task_done < max_concurrent_tasks
        /\ task_done' = task_done + 1
        /\ task' = [task EXCEPT ![p] = "ended"]
  /\ UNCHANGED <<coordVars, peer_discovery, filtered, crawl, callerVars>>

\* On a current_thread runtime no task runs while the select polls.
TaskStep(p) ==
  /\ UNCHANGED runtime
  /\ runtime = "multi_thread" \/ coord # "poll_done"
  /\ \/ Connect(p)
     \/ SendNonListening(p)
     \/ SendListening(p)
     \/ GetPeers(p)
     \/ SendPeers(p)
     \/ TaskDone(p)

(***************************************************************************)
(* The caller.                                                             *)
(***************************************************************************)
\* Every sender of the result channel is dropped: the coordinator has
\* returned and no task is left.
SendersGone ==
  /\ coord \in CoordGone
  /\ \A p \in Peer : task[p] \notin Running

\* recv() returns the oldest message.
Recv ==
  /\ caller = "receiving"
  /\ crawl # << >>
  /\ received' = Append(received, Head(crawl))
  /\ crawl' = Tail(crawl)
  /\ UNCHANGED <<runtime, coordVars, peer_discovery, task_done, taskVars, caller>>

\* recv() returns None: the channel is empty and closed.
RecvNone ==
  /\ caller = "receiving"
  /\ crawl = << >>
  /\ SendersGone
  /\ caller' = "ended"
  /\ UNCHANGED <<runtime, coordVars, peer_discovery, task_done, taskVars, crawl, received>>

\* The caller drops the receiver.  What is still in the channel is dropped
\* with it and never looked at again.
DropReceiver ==
  /\ caller = "receiving"
  /\ caller' = "dropped"
  /\ UNCHANGED <<runtime, coordVars, peer_discovery, task_done, taskVars, crawl, received>>

\* Nothing is left to run.
Finished ==
  /\ SendersGone
  /\ caller # "receiving"
  /\ UNCHANGED vars

Next ==
  \/ Coordinate
  \/ \E p \in Peer : TaskStep(p)
  \/ Recv
  \/ RecvNone
  \/ DropReceiver
  \/ Finished

Spec == Init /\ [][Next]_vars

\* The runtime polls every woken future, and the caller keeps receiving until
\* the channel closes or it drops the receiver.  connect() is under a timeout,
\* and so are the reads of get_peers(); that its writes complete is assumed of
\* the remote (GetPeers shows what happens where they do not).
Fairness ==
  /\ WF_vars(Coordinate)
  /\ \A p \in Peer : WF_vars(TaskStep(p))
  /\ WF_vars(Recv)
  /\ WF_vars(RecvNone)

FairSpec == Spec /\ Fairness

(***************************************************************************)
(* Properties.                                                             *)
(***************************************************************************)
\* The tasks that run, and the messages the caller has or will receive.
RunningTasks == {p \in Peer : task[p] \in Running}

Stream == received \o crawl

\* The peers of a set that have endpoint a, and the positions in a sequence of
\* messages of those about endpoint a.
At(a, peers) == {p \in peers : AddrOf[p] = a}
About(a, messages) == {i \in DOMAIN messages : AddrOf[messages[i].peer] = a}

\* Every variable has the type the code gives it.
TypeOK ==
  /\ runtime \in {"multi_thread", "current_thread"}
  /\ coord \in CoordState
  /\ batch \in SUBSET Peer
  /\ current \in Peer
  /\ tested_peers \in SUBSET Peer
  /\ active_tasks \in Nat
  /\ peer_discovery \in Seq(SUBSET Peer)
  /\ task_done \in Nat
  /\ task \in [Peer -> TaskState]
  /\ filtered \in [Peer -> SUBSET Peer]
  /\ crawl \in Seq(Message)
  /\ caller \in {"receiving", "dropped", "ended"}
  /\ received \in Seq(Message)

\* active_tasks, which only the coordinator updates, counts exactly the tasks
\* that run and those whose completion it has not read, and never exceeds
\* max_concurrent_tasks.
ActiveTasksExact ==
  coord \notin CoordGone =>
    /\ active_tasks = Cardinality(RunningTasks) + task_done
    /\ active_tasks <= max_concurrent_tasks

\* A task that sends its completion finds room in the bounded task_done
\* channel: done_tx.send() waits for no one, so the coordinator and the tasks
\* never wait for each other (changelog of v0.1.4, "Fix deadlock issue").
DoneNeverBlocks ==
  \A p \in Peer : task[p] = "done" /\ coord \notin CoordGone =>
    task_done < max_concurrent_tasks

\* A coordinator that waits, in the select or for capacity, with nothing queued
\* for it, waits for a task that still runs.
WaitIsAnswered ==
  /\ coord = "parked" /\ peer_discovery = << >> /\ task_done = 0 =>
       RunningTasks # {}
  /\ coord = "capacity" /\ active_tasks >= max_concurrent_tasks /\ task_done = 0 =>
       RunningTasks # {}

\* The coordinator and the tasks never wait for each other, and neither waits for
\* something that nobody will do.
NoMutualWait == DoneNeverBlocks /\ WaitIsAnswered

\* A peer is tested once: no second task is spawned for it, however many tasks
\* filter against a stale tested_peers and report it to the coordinator.
TestedOnce ==
  [][\A p \in Peer : task[p] # "none" => (task'[p] = "connect" => task[p] = "connect")]_vars

\* When the caller sees the channel close, no task or coordinator is left and it
\* has received, for each endpoint, one message for every Peer of that endpoint
\* that was tested: none is missing and none came twice.
EndIsComplete ==
  caller = "ended" =>
    /\ SendersGone
    /\ crawl = << >>
    /\ coord # "panicked" => coord = "exhausted"
    /\ \A a \in Addr :
         Cardinality(About(a, received)) = Cardinality(At(a, tested_peers))

\* The crawl ends naturally only when every peer that was discovered has been
\* tested: "No more peers in channel and all tasks finished".
NaturalCompletion ==
  coord = "exhausted" => \A i \in 1..Len(peer_discovery) : peer_discovery[i] \subseteq tested_peers

\* What is lost when the last task sends its peers and its completion between
\* the two polls of the select: one batch, that of the last task, and nothing
\* on a current_thread runtime.
LostBatchBound ==
  coord = "exhausted" =>
    /\ RunningTasks = {}
    /\ Len(peer_discovery) <= IF runtime = "multi_thread" THEN 1 ELSE 0

\* While the caller keeps the receiver, the expect() on the task's send of its
\* completion never fails.
NoPanicWhileReceiving ==
  caller # "dropped" => \A p \in Peer : task[p] # "panicked"

\* The message of that expect(), "Coordinator should always be listening for
\* task completion": no task ever panics.
CoordinatorListens ==
  \A p \in Peer : task[p] # "panicked"

\* The crawl comes to an end: the caller sees the channel close, unless it
\* dropped the receiver, and no task or coordinator runs on.
Terminates ==
  <>(caller # "receiving" /\ SendersGone)

\* A peer whose insert succeeded is reported to a caller that keeps receiving:
\* time and again the caller has a message for every peer tested so far.
TestedIsReported ==
  []<>(\/ caller = "dropped"
       \/ \A a \in Addr :
            Cardinality(About(a, received)) = Cardinality(At(a, tested_peers)))

\* The session implements the stream that Crawler::crawl() promises.
Promise == INSTANCE PeerStream WITH
  Advertised <- [a \in Addr |-> UNION Gossip[a]],
  stream <- Stream,
  state <- caller

\* Seen through the result channel, every step of the session is a step of the
\* promised stream: no more messages about an endpoint than Peers of it known by
\* then, none of them NonListening twice, no end before the seed is reported.
StreamPromise == Promise!Spec
=============================================================================
