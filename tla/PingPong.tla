------------------------------- MODULE PingPong -------------------------------
(***************************************************************************)
(* A connection split into its two halves, as connection/examples/         *)
(* connection.rs uses it: one task reads from the ConnectionReader, one    *)
(* writes to the ConnectionWriter, and main() joins them.                  *)
(*                                                                         *)
(*   ping      receiver -> sender, bounded (PingCapacity): the nonces to   *)
(*             answer with a pong;                                         *)
(*   shutdown  Ctrl+C handler -> both tasks, broadcast.                    *)
(*                                                                         *)
(* The select! of each task is the choice among its actions at "select";   *)
(* what a branch awaits in its body (ping_tx.send(), sender.write()) is a  *)
(* place of its own, where no other branch is listened to.                 *)
(*                                                                         *)
(* The remote is other software.  It sends, reads, finishes sending or     *)
(* closes as it likes.  Of what it sends, "bad" stands for bytes that the  *)
(* transport refuses, "other" for pongs and all the messages that are only *)
(* logged.  The nonce of the ping that is read as number i is i.  What we  *)
(* ping with is only logged, so our own nonces and ping_count are left out.*)
(***************************************************************************)
EXTENDS Naturals, Sequences

CONSTANTS
  PingCapacity,    \* capacity of the ping channel, 10 in the code
  SocketCapacity,  \* messages the socket holds before a write has to wait
  MaxMessages      \* bound on the messages the remote sends

ASSUME CapacityAssumption ==
  /\ PingCapacity \in Nat \ {0}
  /\ SocketCapacity \in Nat \ {0}
  /\ MaxMessages \in Nat

VARIABLES
  main,       \* where main() is
  recv,       \* where the receiver task is
  send,       \* where the sender task is
  channel,    \* the nonces in the ping channel
  hand,       \* the nonce the sender task is answering
  signalled,  \* shutdown_rx.recv() returns
  asked,      \* how many pings have been read
  pongs,      \* the nonces of the pongs written
  remote,     \* "finished": sends no more but reads; "closed": its socket is gone
  sent,       \* all that the remote has sent
  cursor,     \* how many of these messages have been read
  outbox,     \* messages written that the remote has not read
  reset       \* the network has reported that the remote is gone

taskVars == <<main, recv, send, channel, hand, signalled>>
remoteVars == <<remote, sent, outbox, reset>>
vars == <<main, recv, send, channel, hand, signalled, asked, pongs,
          remote, sent, cursor, outbox, reset>>

Message == {"ping", "other", "bad"}

Writing == {"write_pong", "write_ping"}

Init ==
  /\ main = "connect"
  /\ recv = "unspawned"
  /\ send = "unspawned"
  /\ channel = <<>>
  /\ hand = 0
  /\ signalled = FALSE
  /\ asked = 0
  /\ pongs = <<>>
  /\ remote = "open"
  /\ sent = <<>>
  /\ cursor = 0
  /\ outbox = 0
  /\ reset = FALSE

(***************************************************************************)
(* main().                                                                 *)
(***************************************************************************)
\* Connection::connect() under its timeout: a failure or a timeout ends main().
\* Otherwise the connection is split, both tasks subscribe to the shutdown
\* before they are spawned.
Connect ==
  /\ main = "connect"
  /\ \/ /\ main' = "join"
        /\ recv' = "select"
        /\ send' = "select"
     \/ /\ main' = "returned"
        /\ UNCHANGED <<recv, send>>
  /\ UNCHANGED <<channel, hand, signalled, asked, pongs, cursor, remoteVars>>

\* ctrl_c() returns.  If it is the signal, the shutdown is sent; if it is an
\* error, shutdown_tx is dropped, and recv() returns because of that.
CtrlC ==
  /\ main = "join"
  /\ ~signalled
  /\ signalled' = TRUE
  /\ UNCHANGED <<main, recv, send, channel, hand, asked, pongs, cursor, remoteVars>>

Join ==
  /\ main = "join"
  /\ recv = "ended" /\ send = "ended"
  /\ main' = "returned"
  /\ UNCHANGED <<recv, send, channel, hand, signalled, asked, pongs, cursor, remoteVars>>

(***************************************************************************)
(* The receiver task.                                                      *)
(***************************************************************************)
\* Mutant: the task does not listen for the shutdown.
ReceiverShutdown_deaf ==
  /\ FALSE
  /\ UNCHANGED vars

ReceiverShutdown ==
  /\ recv = "select"
  /\ signalled
  /\ recv' = "ended"
  /\ UNCHANGED <<main, send, channel, hand, signalled, asked, pongs, cursor, remoteVars>>

\* receiver.read() returns a message.
Incoming == sent[cursor + 1]

ReadMessage ==
  /\ recv = "select"
  /\ cursor < Len(sent)
  /\ Incoming # "bad"
  /\ cursor' = cursor + 1
  /\ recv' = IF Incoming = "ping" THEN "send_nonce" ELSE "select"
  /\ asked' = IF Incoming = "ping" THEN asked + 1 ELSE asked
  /\ UNCHANGED <<main, send, channel, hand, signalled, pongs, remoteVars>>

\* receiver.read() fails.
ReadError ==
  /\ recv = "select"
  /\ \/ cursor < Len(sent) /\ Incoming = "bad"
     \/ cursor = Len(sent) /\ remote # "open"
     \/ reset
  /\ recv' = "ended"
  /\ UNCHANGED <<main, send, channel, hand, signalled, asked, pongs, cursor, remoteVars>>

\* Mutants: the nonce goes into a channel without bound; it is dropped when the
\* channel is full, as try_send() would.
SendNonce_unbounded ==
  /\ recv = "send_nonce"
  /\ \/ /\ send # "ended"
        /\ channel' = Append(channel, asked)
        /\ recv' = "select"
     \/ /\ send = "ended"
        /\ recv' = "ended"
        /\ UNCHANGED channel
  /\ UNCHANGED <<main, send, hand, signalled, asked, pongs, cursor, remoteVars>>
SendNonce_drops ==
  /\ recv = "send_nonce"
  /\ \/ /\ send # "ended"
        /\ channel' = IF Len(channel) < PingCapacity THEN Append(channel, asked) ELSE channel
        /\ recv' = "select"
     \/ /\ send = "ended"
        /\ recv' = "ended"
        /\ UNCHANGED channel
  /\ UNCHANGED <<main, send, hand, signalled, asked, pongs, cursor, remoteVars>>

\* ping_tx.send(): waits for room, and fails once the sender task has dropped
\* ping_rx.
SendNonce ==
  /\ recv = "send_nonce"
  /\ \/ /\ send # "ended"
        /\ Len(channel) < PingCapacity
        /\ channel' = Append(channel, asked)
        /\ recv' = "select"
     \/ /\ send = "ended"
        /\ recv' = "ended"
        /\ UNCHANGED channel
  /\ UNCHANGED <<main, send, hand, signalled, asked, pongs, cursor, remoteVars>>

Receiver == ReceiverShutdown \/ ReadMessage \/ ReadError \/ SendNonce

(***************************************************************************)
(* The sender task.                                                        *)
(***************************************************************************)
\* The task ends, and drops ping_rx with what is in the channel.
EndSender ==
  /\ send' = "ended"
  /\ channel' = <<>>
  /\ UNCHANGED <<main, recv, hand, signalled, asked, pongs, cursor, remoteVars>>

SenderShutdown ==
  /\ send = "select"
  /\ signalled
  /\ EndSender

\* Mutant: the nonce that was queued last is answered first.
TakeNonce_last ==
  /\ send = "select"
  /\ channel # <<>>
  /\ hand' = channel[Len(channel)]
  /\ channel' = SubSeq(channel, 1, Len(channel) - 1)
  /\ send' = "write_pong"
  /\ UNCHANGED <<main, recv, signalled, asked, pongs, cursor, remoteVars>>

\* ping_rx.recv() returns a nonce.  When the receiver task has ended it returns
\* None at last, which only disables this branch.
TakeNonce ==
  /\ send = "select"
  /\ channel # <<>>
  /\ hand' = Head(channel)
  /\ channel' = Tail(channel)
  /\ send' = "write_pong"
  /\ UNCHANGED <<main, recv, signalled, asked, pongs, cursor, remoteVars>>

\* Mutant: a tick of the interval drops the pong that is being written.
Tick_preempts ==
  /\ send \in {"select", "write_pong"}
  /\ send' = "write_ping"
  /\ UNCHANGED <<main, recv, channel, hand, signalled, asked, pongs, cursor, remoteVars>>

\* ping_interval.tick() returns.
Tick ==
  /\ send = "select"
  /\ send' = "write_ping"
  /\ UNCHANGED <<main, recv, channel, hand, signalled, asked, pongs, cursor, remoteVars>>

\* sender.write(): the socket takes the message when it has room.
Write ==
  /\ send \in Writing
  /\ outbox < SocketCapacity
  /\ ~reset
  /\ outbox' = outbox + 1
  /\ pongs' = IF send = "write_pong" THEN Append(pongs, hand) ELSE pongs
  /\ send' = "select"
  /\ UNCHANGED <<main, recv, channel, hand, signalled, asked, cursor, remote, sent, reset>>

\* Mutant: the failure is logged and the task goes on.
WriteError_ignored ==
  /\ send \in Writing
  /\ reset
  /\ send' = "select"
  /\ UNCHANGED <<main, recv, channel, hand, signalled, asked, pongs, cursor, remoteVars>>

WriteError ==
  /\ send \in Writing
  /\ reset
  /\ EndSender

Sender == SenderShutdown \/ TakeNonce \/ Tick \/ Write \/ WriteError

(***************************************************************************)
(* The remote and the network.                                             *)
(***************************************************************************)
RemoteSend(m) ==
  /\ main = "join"
  /\ remote = "open"
  /\ Len(sent) < MaxMessages
  /\ sent' = Append(sent, m)
  /\ UNCHANGED <<taskVars, asked, pongs, cursor, remote, outbox, reset>>

RemoteRead ==
  /\ main = "join"
  /\ remote # "closed"
  /\ outbox > 0
  /\ outbox' = outbox - 1
  /\ UNCHANGED <<taskVars, asked, pongs, cursor, remote, sent, reset>>

RemoteLeaves ==
  /\ main = "join"
  /\ \/ remote = "open" /\ remote' \in {"finished", "closed"}
     \/ remote = "finished" /\ remote' = "closed"
  /\ UNCHANGED <<taskVars, asked, pongs, cursor, sent, outbox, reset>>

\* What arrives at, or was never read from, a closed socket is answered with a
\* reset: reads and writes fail from then on.
Reset ==
  /\ main = "join"
  /\ remote = "closed"
  /\ outbox > 0
  /\ ~reset
  /\ reset' = TRUE
  /\ UNCHANGED <<taskVars, asked, pongs, cursor, remote, sent, outbox>>

Returned ==
  /\ main = "returned"
  /\ UNCHANGED vars

Next ==
  \/ Connect \/ CtrlC \/ Join
  \/ Receiver
  \/ Sender
  \/ \E m \in Message : RemoteSend(m)
  \/ RemoteRead \/ RemoteLeaves \/ Reset
  \/ Returned

Spec == Init /\ [][Next]_vars

\* The runtime polls a task that can go on.  select! polls its branches in
\* random order, so a branch that is ready again and again is taken in the end:
\* strong fairness.  The interval goes on ticking, and a reset arrives.  The
\* remote is free to do nothing, and so is the user.
Fairness ==
  /\ WF_vars(Join) /\ WF_vars(Reset)
  /\ WF_vars(Receiver) /\ WF_vars(Sender)
  /\ SF_vars(ReceiverShutdown) /\ SF_vars(SenderShutdown) /\ SF_vars(TakeNonce)

FairSpec == Spec /\ Fairness

(***************************************************************************)
(* Properties.                                                             *)
(***************************************************************************)
\* The types of the variables; the ping channel stays within its capacity.
TypeOK ==
  /\ main \in {"connect", "join", "returned"}
  /\ recv \in {"unspawned", "select", "send_nonce", "ended"}
  /\ send \in {"unspawned", "select", "ended"} \cup Writing
  /\ channel \in Seq(Nat) /\ Len(channel) <= PingCapacity
  /\ hand \in Nat
  /\ signalled \in BOOLEAN
  /\ asked \in Nat
  /\ pongs \in Seq(Nat)
  /\ remote \in {"open", "finished", "closed"}
  /\ sent \in Seq(Message)
  /\ cursor \in 0..Len(sent)
  /\ outbox \in 0..SocketCapacity
  /\ reset \in BOOLEAN

\* How many nonces the sender task, and the receiver task, has in hand.
InSender == IF send = "write_pong" THEN 1 ELSE 0
InReceiver == IF recv = "send_nonce" THEN 1 ELSE 0

\* As long as the sender task runs, every ping that was read is accounted for:
\* answered, in one of the tasks' hands or in the channel, whatever ticks,
\* shutdowns and failures of the receiver come in between.
NoPingLost ==
  send # "ended" => asked = Len(pongs) + InSender + Len(channel) + InReceiver

Service == INSTANCE PongService

\* The two tasks implement the service: pongs answer pings one by one, in the
\* order in which the pings were read, none twice and none unasked.
PongPromise == Service!Spec

\* Ctrl+C ends the program, wherever the tasks are, unless the sender task is
\* held for ever in a write, which does not listen for the shutdown.
ShutdownEnds ==
  <>[](send \in Writing) \/ (signalled ~> main = "returned")

\* A remote that closes its socket ends the program, without Ctrl+C: the
\* receiver task finds out by reading, the sender task by its next pings, and
\* neither is left behind.
CloseEnds ==
  remote = "closed" ~> main = "returned"

\* Every ping that was read is answered, unless the sender task ends or is held
\* for ever in a write: full channels and ticks only delay the answer.
PingIsAnswered ==
  \/ <>[](send \in Writing)
  \/ \A k \in 1..MaxMessages : asked >= k ~> (Len(pongs) >= k \/ send = "ended")
=============================================================================
