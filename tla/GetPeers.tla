------------------------------- MODULE GetPeers -------------------------------
(***************************************************************************)
(* PeerConnection::get_peers() of the crawler (crawler/src/connection.rs): *)
(* getaddr is written, then messages are read until the peer's time is up, *)
(* or until it has answered and then been quiet for READ_TIMEOUT.          *)
(*                                                                         *)
(* Time is counted in units.  It passes only while the exchange awaits     *)
(* something; now is the time since the call.  A timer fires at its        *)
(* deadline.  Time that passes where no timeout is running (a write, the   *)
(* computation of the next timeout) is added up in untimed.                *)
(*                                                                         *)
(* The remote is other software: it sends what it likes when it likes, and *)
(* may close.  A message with addresses carries at least one that becomes  *)
(* a Peer ("addr"), or none, because the list is empty or has only         *)
(* addresses that legacy messages cannot express ("no_addr").  The peers   *)
(* of message number i are represented by i.                               *)
(***************************************************************************)
EXTENDS Naturals, Sequences, FiniteSetsExt, Functions

CONSTANTS
  READ_TIMEOUT,  \* five seconds in the code
  PeerTimeout,   \* values of the peer_timeout parameter
  MaxMessages,   \* bound on what the remote sends
  MaxUntimed     \* bound on the time outside of timeouts

ASSUME TimeAssumption ==
  /\ READ_TIMEOUT \in Nat
  /\ PeerTimeout \subseteq Nat
  /\ MaxMessages \in Nat
  /\ MaxUntimed \in Nat

VARIABLES
  peer_timeout,
  pc,          \* where get_peers() is
  now,
  untimed,
  start_time,
  deadline,    \* when the read in progress times out
  all_peers,
  sent,        \* all that the remote has sent
  cursor,      \* how many of these messages have been read
  closed       \* the remote has closed the connection

vars == <<peer_timeout, pc, now, untimed, start_time, deadline, all_peers, sent, cursor, closed>>

Message == {"addr", "no_addr", "ping", "other"}

Done == {"ok", "error"}

Writing == {"write_getaddr", "write_pong"}

Step == {"check", "enter", "read"} \cup Writing \cup Done

Init ==
  /\ peer_timeout \in PeerTimeout
  /\ pc = "write_getaddr"
  /\ now = 0
  /\ untimed = 0
  /\ start_time = 0
  /\ deadline = 0
  /\ all_peers = <<>>
  /\ sent = <<>>
  /\ cursor = 0
  /\ closed = FALSE

elapsed == now - start_time

saturating_sub(a, b) == IF a < b THEN 0 ELSE a - b

(***************************************************************************)
(* get_peers().                                                            *)
(***************************************************************************)
\* `?' and `return Err(e)': the error is returned and all_peers, which is local,
\* is dropped with whatever it holds.
ReturnErr ==
  /\ pc' = "error"
  /\ all_peers' = <<>>

WriteGetAddr ==
  /\ pc = "write_getaddr"
  /\ \/ pc' = "check" /\ start_time' = now /\ UNCHANGED all_peers
     \/ ReturnErr /\ UNCHANGED start_time
  /\ UNCHANGED <<peer_timeout, now, untimed, deadline, sent, cursor, closed>>

\* Mutant: the loop has no condition.
CheckElapsed_never_ends ==
  /\ pc = "check"
  /\ pc' = "enter"
  /\ UNCHANGED <<peer_timeout, now, untimed, start_time, deadline, all_peers, sent, cursor, closed>>

CheckElapsed ==
  /\ pc = "check"
  /\ pc' = IF elapsed < peer_timeout THEN "enter" ELSE "ok"
  /\ UNCHANGED <<peer_timeout, now, untimed, start_time, deadline, all_peers, sent, cursor, closed>>

\* Mutants: the longer of the two timeouts is taken; the time left is not taken
\* into account.
EnterRead_max ==
  /\ pc = "enter"
  /\ deadline' = now + Max({READ_TIMEOUT, saturating_sub(peer_timeout, elapsed)})
  /\ pc' = "read"
  /\ UNCHANGED <<peer_timeout, now, untimed, start_time, all_peers, sent, cursor, closed>>
EnterRead_full ==
  /\ pc = "enter"
  /\ deadline' = now + READ_TIMEOUT
  /\ pc' = "read"
  /\ UNCHANGED <<peer_timeout, now, untimed, start_time, all_peers, sent, cursor, closed>>

\* elapsed() is read a second time, and may have passed peer_timeout.
EnterRead ==
  /\ pc = "enter"
  /\ deadline' = now + Min({READ_TIMEOUT, saturating_sub(peer_timeout, elapsed)})
  /\ pc' = "read"
  /\ UNCHANGED <<peer_timeout, now, untimed, start_time, all_peers, sent, cursor, closed>>

Incoming == sent[cursor + 1]

\* A message arrives within the timeout.
ReadMessage ==
  /\ pc = "read"
  /\ cursor < Len(sent)
  /\ cursor' = cursor + 1
  /\ all_peers' = IF Incoming = "addr" THEN Append(all_peers, cursor + 1) ELSE all_peers
  /\ pc' = IF Incoming = "ping" THEN "write_pong" ELSE "check"
  /\ UNCHANGED <<peer_timeout, now, untimed, start_time, deadline, sent, closed>>

\* The read fails.
ReadError ==
  /\ pc = "read"
  /\ cursor = Len(sent)
  /\ closed
  /\ ReturnErr
  /\ UNCHANGED <<peer_timeout, now, untimed, start_time, deadline, sent, cursor, closed>>

\* Mutant: the first timeout ends the exchange.
ReadTimeout_gives_up ==
  /\ pc = "read"
  /\ cursor = Len(sent)
  /\ now >= deadline
  /\ pc' = "ok"
  /\ UNCHANGED <<peer_timeout, now, untimed, start_time, deadline, all_peers, sent, cursor, closed>>

\* Mutant: the timer is polled before the read.
ReadTimeout_timer_first ==
  /\ pc = "read"
  /\ now >= deadline
  /\ pc' = IF all_peers # <<>> THEN "ok" ELSE "check"
  /\ UNCHANGED <<peer_timeout, now, untimed, start_time, deadline, all_peers, sent, cursor, closed>>

\* timeout() polls the read first: it fires only if no message is there.
ReadTimeout ==
  /\ pc = "read"
  /\ cursor = Len(sent)
  /\ now >= deadline
  /\ pc' = IF all_peers # <<>> THEN "ok" ELSE "check"
  /\ UNCHANGED <<peer_timeout, now, untimed, start_time, deadline, all_peers, sent, cursor, closed>>

WritePong ==
  /\ pc = "write_pong"
  /\ \/ pc' = "check" /\ UNCHANGED all_peers
     \/ ReturnErr
  /\ UNCHANGED <<peer_timeout, now, untimed, start_time, deadline, sent, cursor, closed>>

(***************************************************************************)
(* Time and the remote.                                                    *)
(***************************************************************************)
Tick ==
  /\ \/ /\ pc = "read"
        /\ now < deadline
        /\ UNCHANGED untimed
     \/ /\ pc \in Writing \cup {"enter"}
        /\ untimed < MaxUntimed
        /\ untimed' = untimed + 1
  /\ now' = now + 1
  /\ UNCHANGED <<peer_timeout, pc, start_time, deadline, all_peers, sent, cursor, closed>>

RemoteSend(m) ==
  /\ pc \notin Done
  /\ ~closed
  /\ Len(sent) < MaxMessages
  /\ sent' = Append(sent, m)
  /\ UNCHANGED <<peer_timeout, pc, now, untimed, start_time, deadline, all_peers, cursor, closed>>

RemoteClose ==
  /\ pc \notin Done
  /\ ~closed
  /\ closed' = TRUE
  /\ UNCHANGED <<peer_timeout, pc, now, untimed, start_time, deadline, all_peers, sent, cursor>>

Returned ==
  /\ pc \in Done
  /\ UNCHANGED vars

Compute == CheckElapsed \/ EnterRead \/ ReadMessage \/ ReadError \/ ReadTimeout

Next ==
  \/ WriteGetAddr
  \/ Compute
  \/ WritePong
  \/ Tick
  \/ \E m \in Message : RemoteSend(m)
  \/ RemoteClose
  \/ Returned

Spec == Init /\ [][Next]_vars

\* The runtime polls the task when it is woken, and time passes.  Whether a
\* write completes is up to the remote, which may not be reading.
Fairness ==
  /\ WF_vars(Compute)
  /\ WF_vars(Tick)

FairSpec == Spec /\ Fairness

(***************************************************************************)
(* Properties.                                                             *)
(***************************************************************************)
\* The types of the variables; no clock is ahead of the time, and no read waits
\* for longer than READ_TIMEOUT.
TypeOK ==
  /\ peer_timeout \in PeerTimeout
  /\ pc \in Step
  /\ now \in Nat
  /\ untimed \in 0..MaxUntimed
  /\ start_time \in 0..now
  /\ deadline \in 0..(now + READ_TIMEOUT)
  /\ all_peers \in Seq(1..MaxMessages)
  /\ sent \in Seq(Message)
  /\ cursor \in 0..Len(sent)
  /\ closed \in BOOLEAN

\* All the reads together take no longer than peer_timeout, however the
\* messages, the pings and the two timeouts fall: what exceeds it was spent
\* where no timeout is running.
ReadsWithinTimeout ==
  now <= peer_timeout + untimed

\* What get_peers() returns.  Ok has the peers of each address message that was
\* read, once and in order, and if the call returns before its time is up it has
\* read all that had arrived, so that no answer is left behind; only a message
\* that comes when the time is up may be.  Err has none of them, however many
\* were collected before the read or the pong that failed.
ReturnsWhatArrived ==
  /\ pc = "error" => all_peers = <<>>
  /\ pc # "error" => Range(all_peers) = {i \in 1..cursor : sent[i] = "addr"}
  /\ \A i, j \in 1..Len(all_peers) : i < j => all_peers[i] < all_peers[j]
  /\ pc = "ok" /\ elapsed < peer_timeout => cursor = Len(sent)

\* get_peers() returns early only with peers in hand, and with every message
\* that has arrived taken into account; without peers it waits for all of
\* peer_timeout.
EarlyReturnHasPeers ==
  [][pc' = "ok" /\ pc # "ok" =>
       \/ elapsed >= peer_timeout
       \/ all_peers # <<>> /\ cursor = Len(sent)]_vars

\* The exchange comes to an end unless one of its writes never does.
EndsOrBlocksInWrite ==
  <>(pc \in Done) \/ <>[](pc \in Writing)

\* Timeout of Crawler: "This timeout applies to all peer-related operations",
\* "Requesting peer addresses after establishing a connection" among them:
\* get_peers() returns.
TimeoutApplies ==
  <>(pc \in Done)
=============================================================================
