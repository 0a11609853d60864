# TLA+ models of bitcoin-peers

bitcoin-peers is two Rust crates. `connection` opens bitcoin p2p connections:
transport negotiation, version handshake, feature negotiation, messages in both
directions. `crawler` walks the network with it: from a seed peer it connects,
reports, asks for more peers and goes on until nothing is left. This directory
holds TLA+ models of both, the TLC configurations that check them on small
instances and TLAPS proofs for instances of any size.

## The parts of the system

| part | code | state | operations | what makes it hard |
|---|---|---|---|---|
| crawl session | `crawler/src/session.rs`, `crawler.rs` | `tested_peers`, `active_tasks`, three channels, a task per peer | `coordinate()`, `process()`, the caller's `recv()` and drop | many tasks and one coordinator, bounded channels, a select of two branches, a caller who may leave at any time |
| get_peers exchange | `crawler/src/connection.rs` | collected peers, elapsed time | write getaddr, read under a timeout, answer pings | two nested timeouts, reads that are cancelled, writes no timeout covers |
| version handshake | `connection/src/connection/futures.rs`, `handshake.rs` | `HandshakeState`, nonce | send version, handle version, handle verack | two ends interleave at each await; a remote may send anything in any order |
| feature negotiation | `connection/src/connection/state.rs`, `futures.rs` | one of four states per feature, effective version | `on_send`, `on_receive` | each end keeps its own view; offers race with veracks |
| transport negotiation | `connection/src/connection/tcp.rs` | the socket, the bytes peeked | outbound v2 attempt and v1 fallback, inbound detection | a second connection after a failed first one; detection from partial data |
| v1 framing | `connection/src/transport/v1.rs` | header or payload and bytes read | `read()`, `write()` | cancellation at any byte; what an error leaves behind |
| v2 transport | `connection/src/transport/v2.rs`, `mod.rs` | that of the bip324 crate | `read()`, `write()`, `into_split()` | a packet is consumed before it is looked into |
| split connection | `futures.rs`, used by `connection/examples/connection.rs` | a channel of nonces, a shutdown broadcast | a task that reads, a task that writes, `main()` that joins them | waits outside the `select!`; one task ends before the other; a remote that does not read |
| user agent | `connection/src/user_agent.rs` | none | validate, build | slices at the edges; two ways to make one |
| configuration, builder | `configuration.rs`, `builder.rs`, `crawler.rs` | plain values | setters, `build()`, `crawl()` | many paths from a call to the version message |
| peer and error types | `peer.rs`, `error.rs` | plain values | formatting, conversions | equality of `Peer` includes services and version |

The crawler drives the rest: a task of the session calls `connect()` (transport
negotiation, then the handshake), reports the outcome to the caller, calls
`get_peers()` over the open connection, and hands what it learnt to the
coordinator.

## Modules

| module | models | state in the code | checked through |
|---|---|---|---|
| `CrawlSession` | `coordinate()`, `process()` and the caller of `crawl()` | the three channels, `tested_peers`, `active_tasks`, one program counter per task | `MCCrawlSession`, `CrawlSessionProofs` |
| `PeerStream` | abstract: what `crawl()` promises the holder of the receiver | the messages and whether the stream has ended | refined by `CrawlSession` (`StreamPromise`) |
| `GetPeers` | `get_peers()` of `crawler/src/connection.rs` | `all_peers`, `start_time`, the deadline of the read, the clock | `MCGetPeers`, `GetPeersProofs` |
| `Handshake` | `Connection::new()` and `perform_handshake()` with `handshake.rs` and `state.rs`, at both ends | `HandshakeState`, nonce, `Peer`, feature states, the log of each direction | `MCHandshake`, `HandshakeLogs`, `HandshakeProofs` |
| `TransportNegotiation` | `connect()` and `accept()` of `tcp.rs` | the sockets, what is spoken on them, the bytes that have arrived | directly, `TransportNegotiationProofs` |
| `Transport` | writer and reader of `transport/`, v1 and v2, and `into_split()` | `receive_state`, the bytes in flight | `MCTransport`, `TransportProofs` |
| `MessageChannel` | abstract: a FIFO channel that stops at, or goes on after, an invalid message | messages written, delivered and passed | refined by `Transport` (`ChannelPromise`) |
| `PingPong` | a split connection in two tasks (`connection/examples/connection.rs`) | a program counter per task, the ping channel, the shutdown, the socket | directly, `PingPongProofs` |
| `PongService` | abstract: pongs answer pings one by one | how many were asked, the answers | refined by `PingPong` (`PongPromise`) |
| `UserAgent` | `user_agent.rs` | none: operators on strings | `CrawlerConfigurationProofs` |
| `CrawlerConfiguration` | `builder.rs`, `crawler.rs` up to the version message | the values an application holds, what sessions and connections get | `CrawlerConfigurationProofs` |

An action is the code one actor runs between two points where others can
observe it, which in this code are the awaits. Names ending in a suffix after a
definition's own name (`Spawn_uncounted`, `Tick_preempts`) are mutants:
plausible bugs with which the property they belong to is violated. No
specification uses them.

**CrawlSession.** The coordinator's loop is `CheckClosed`, `PollDiscovery`,
`PollDone`, `Wake`, `InsertPeer`, `AwaitCapacity`, `Spawn`. The biased `select!`
is two steps, because it is two polls: on a multi-threaded runtime tasks run
between them, on a `current_thread` runtime they cannot. The variable `runtime`
is one or the other from the start. A task goes `Connect`, `SendListening` or `SendNonListening`,
`GetPeers`, `SendPeers`, `TaskDone`. The caller receives, sees the end of the
channel, or drops the receiver at any time. Batches are sets, since the order
within one does not matter to the coordinator. A `TaskResult` is only logged,
so the completion channel is a count.

A `Peer` is an endpoint with services and a version, and all of it is compared. A
NonListening message carries the task's own `Peer`; a Listening message carries
`connection.peer()`, to which the handshake has given the remote's services and
version (`futures.rs:482-486`). `Handshaken` holds, for each endpoint, the `Peer`
values a handshake with it may make. An endpoint that is known as two `Peer` values is
tested twice and may be reported by two equal messages, so the stream is a sequence,
and `PeerStream` and the properties count messages per endpoint: never more than known
`Peer` values of the endpoint, and at the end as many as were tested.

**GetPeers.** Time is a counter that advances only while the exchange waits.
Time that passes where the code has no timeout running (the two writes, and the
gap between the two calls of `elapsed()`) is counted in `untimed`. An error of a read or
of a write returns it at once and drops `all_peers` (`ReturnErr`).

**Handshake.** The transport is reliable and ordered, so each direction is a log
with a cursor. An end may run this code or be foreign, in which case it writes
any messages in any order. `peer` is the number of the message that the services
and the version in the connection's `Peer` come from.
`Abort` is any I/O error and any timeout of the caller.

**TransportNegotiation.** The v2 handshake of the bip324 crate is external: each
end succeeds or fails on its own, and success needs a partner that speaks v2. A
failed attempt closes the socket; the fallback opens the second one. The
listener runs this code or knows v1 only.

**Transport.** A byte carries the number of its message and its position, so
that bytes lost or repeated are visible. Pieces of every size arrive, `read()` may
be dropped wherever it waits for bytes, and the transport is split at any moment
between two calls. v1 keeps a message that it refuses and refuses it for ever; v2
has taken the packet out of its reader and goes on. For v2 the bytes are those of
the bip324 crate, which is external, and the model rests on an assumption about it: its
reader resumes a partial packet as `receive_state` does, and returns each packet whole,
once and in order. A message at fault is one that a packet delivers and
`deserialize()` in `v2.rs` refuses. What the crate does after a packet that fails
authentication is not visible from `v2.rs`, which passes the error on, and is not
modelled: the models say nothing of a connection after such an error.

**PingPong.** The `select!` of a task is a choice among actions at the place
`select`. `ping_tx.send()` and `sender.write()` are awaited inside a branch, so they
are places of their own where neither the shutdown nor anything else is heard.
The remote is foreign: it sends, reads, stops reading, finishes or closes as it
likes. A write to a socket that is closed leads to a reset. What is read and only
logged is one kind of message; our own pings carry no data.

**UserAgent.** A string is a sequence of characters. The slice, the split at the
colon and the comparison of the parts are operators with the code's bounds, and
`slices` says when the slice would panic. `WellFormed` is the format of the
documentation, stated without any of them.

**CrawlerConfiguration.** An application makes user agents, builders and crawlers
in any order, keeps or moves them, and crawls. The model follows the user agent
and the numbers from there to `create_version_message()`.

### How they fit together

`TransportNegotiation` ends where a transport exists;
`Transport` shows that this transport is the ordered channel which `Handshake`
and `GetPeers` take for granted, also when a read under a timeout or in a `select!`
is cancelled, as those of `GetPeers` and `PingPong` are; `PingPong` starts where
`Handshake` has completed; whether `connect()` and `get_peers()` succeed,
and with which peers, is a nondeterministic choice in `CrawlSession`. The
modules are composed by these interfaces, not in one state space.

## Runs

| run | shows |
|---|---|
| `session` | on both runtimes: exact count of tasks (`ActiveTasksExact`), coordinator and tasks never wait for each other or for nobody (`NoMutualWait`), at the end as many reports about each endpoint as `Peer` values of it were tested (`EndIsComplete`), one lost batch at most, and none on one thread (`LostBatchBound`), no panic while the caller listens (`NoPanicWhileReceiving`), the promise of `PeerStream` (`StreamPromise`); the crawl ends (`Terminates`) and every test gets reported (`TestedIsReported`) |
| `handshake_pair` | two ends that complete agree on version and features (`Agreement`), a feature is on exactly if both want and support it (`EnabledIffWanted`), nothing changes after completion (`SettledAtCompletion`), equal nonces are never accepted (`EqualNoncesNeverComplete`), and nobody waits for ever (`Settles`) |
| `handshake_foreign` | against any remote: `EnabledIsEarned`, `WritesInOrder`, `CompleteIffExchanged`, and `FirstVersionCounts`: `Peer` and effective version, behind a lock each, come from the same, first version message |
| `getpeers_exchange` | reads stay within `peer_timeout` (`ReadsWithinTimeout`), the result is exactly the address messages read, in order, with none left unread by an early return and none kept by an error (`ReturnsWhatArrived`), early returns have peers (`EarlyReturnHasPeers`), the exchange returns or one of its writes never does (`EndsOrBlocksInWrite`) |
| `transport_connect` | both ends have the same transport (`TransportsAgree`), v2 where either requires it (`RequiredMeansV2`), no socket left behind (`OneSocket`); on a reliable network compatible ends connect (`Connects`) |
| `transport_framing` | v1 and v2: the reader stays aligned (`Aligned`), refuses only messages at fault (`RefusesOnlyInvalid`), implements the channel (`ChannelPromise`), gets past every message it can despite cancellations (`MessageIsPassed`) |
| `split_ping_pong` | no ping is lost while the sender task runs (`NoPingLost`), pongs are in order (`PongPromise`), pings are answered (`PingIsAnswered`); Ctrl+C ends the program (`ShutdownEnds`) and so does a remote that closes (`CloseEnds`). `PingIsAnswered` and `ShutdownEnds` have an exception that the code has too: a write waits for a remote that does not read, and no branch of the `select!` is heard meanwhile |

Five runs are expected to find a violation; see *Findings*.

### Bounds

- Session: three endpoints; one is the seed, with unknown services, and is also
  gossiped with services, and its handshakes make two `Peer` values, as those of a
  node that is upgraded between two tests. Two tasks, a result channel of one message. More
  peers than tasks exercise the wait for capacity, and more messages than room the
  blocked senders. `session` has both runtimes. The proofs remove the bounds for
  its safety properties.
- Handshake: versions below, at and above the thresholds (70011, 70012, 70016)
  and not configured, all sets of preferences; two nonces, which may coincide
  (symmetric where no liveness is checked); a foreign end writes four messages, enough for a duplicate of each
  of version and verack. `handshake_foreign` uses one
  version. The proofs remove the bounds for its safety properties.
- GetPeers: a read timeout of 2, peer timeouts of 0, 1 (less than a read) and 3
  (not a multiple); three messages; two units of untimed time. The proofs remove
  the bounds for its safety properties.
- Transport: a header of two bytes with the length in the second, payloads of
  0 and 2 bytes, three messages, v1 and v2: a read can stop, and a split come,
  before, inside and after each part. The proofs remove the bounds for its safety
  properties.
- PingPong: a ping channel and a socket with room for two, four messages of the
  remote: both tasks can wait at once, with a ping in each hand and a full channel
  between. The proofs remove the bounds for its safety properties.
- TransportNegotiation: all three kinds of network (reliable; cutting the first
  segment short; failing as well) and nothing bounded; the code opens two sockets at most
  and looks at four bytes.

### Fairness

Weak fairness of each task: tokio polls a task that was woken. Beyond that:

- `CrawlSession`: the caller goes on receiving or drops the receiver. `connect()`
  and the reads of `get_peers()` are under timeouts. That the writes of
  `get_peers()` complete is an assumption on the remote which the code does not
  enforce; `getpeers_blocked_write` shows it.
- `GetPeers`: time passes. Writes are not fair.
- `Transport`: strong fairness of the reader, since `timeout()` polls the read
  before it looks at the timer and so a read that is cancelled again and again
  still takes what has arrived.
- `PingPong`: `select!` polls its branches in random order, so a branch that is
  ready again and again is taken: strong fairness of the shutdown branches and of
  the nonces. The remote and the user owe nothing; a reset arrives.
- `TransportNegotiation`: bytes written arrive.
- `Handshake`: none for foreign ends and failures.

## Proofs

`CrawlSessionProofs` holds for every finite set of peers, every gossip, every
capacity and number of tasks, whatever `Peer` values the handshakes make
(`PeerAssumption`, `HandshakeAssumption`, `ConfigAssumption`). The
properties are not inductive by themselves: that completions find room, for
instance, needs the exact count, which needs to know which tasks were spawned.
The inductive invariant `IInv` is `TypeOK` and

- `Inserted`: `tested_peers` are the spawned tasks and the peer about to be;
- `Accounting`: the exact count, and what each exit of the loop says of it;
- `Progress`: the loop goes round only with a task in flight or the seed queued;
- `Polled`: after the first poll, queued batches come from tasks whose completion
  is unread;
- `Hangup`, `Ended`: why the coordinator or the stream has stopped;
- `Reporting`: for each endpoint, the messages about it in the stream are as many as the
  tasks for it that are past their send, and a NonListening message is its task's own;
- `Sourced`: each peer held anywhere is the seed or was advertised by a reported
  peer.

One lemma per conjunct shows that a step preserves it. From `IInv` follow
`TypeCorrect`, `CountIsExact`, `NoDeadlock`, `NoSecondTest`,
`AtMostOneBatchLost`, `CurrentThreadIsComplete` (nothing is lost on one thread), `NoPanic`, `ReportsAreComplete`,
and the refinement `SessionImplementsStream` (for at least one task; with zero the
code panics).

`GetPeersProofs` holds for all timeouts and any number of messages
(`TimeAssumption`). `ReadTimeIsBounded` rests on `Clocks`: the time before
`start_time` was untimed, and the deadline of a read is never beyond
`peer_timeout + untimed`, because `saturating_sub` leaves nothing once the time is
up. `ResultIsExact` rests on `Results`, which says how `all_peers` relates to
the messages read, and on `AllRead`: `timeout()` polls the read before the timer, so an
`Ok` before time is up has left nothing unread. `EarlyReturnIsEarned` is the action property. `TypeCorrect` adds
`Bounds`; it includes that a read's deadline is at most `READ_TIMEOUT` away.

`HandshakeProofs` holds for any ends, own or foreign, any versions and nonces, and
any number of messages of a foreign end (`NodeAssumption`). None of the properties
is inductive: they relate what an end has negotiated to messages that it, or the
remote, wrote long before. `HandshakeLogs` proves the part `Log` of the invariant,
about one end alone: what it has written and has still to write is its version and
then, once the remote's version is read, the reply to it, whose last message is the
verack. `Reads` says which states go with which messages read, `Source` where the
effective version comes from, and `Features` that the state of a feature is a
function of the messages written and read. Against any remote this gives
`OffersAreEarned`, `WritesAreOrdered`, `CompleteIsExchanged` and `FirstVersion`. If
the remote is one of ours its verack is the last message of its log, so an end that
has read it has read all; `EndsAgree`, `EnabledIsWanted` and `CompletionIsFinal`
follow, and `NoncesDiffer` because there is one version message in such a log.
The same invariant gives two theorems that no run states. `NoMutualWait` is the
safety half of `Settles`: where one of two ends of ours has written and read all it
can, the other is gone or has something to send, write or read. `WritesAreBounded`:
five messages at most are written, whatever the remote sends.

`TransportProofs` holds for every header size, offset of the length, set of payload
lengths and number of messages (`SizeAssumption`). `Aligned` is not inductive: that
the byte read next is the right one depends on what the socket and the writer
hold. `Stream` says that the reader's buffer, the socket and the unsent bytes
together are the rest of the messages written; `Reading` that the payload size
is the one in the header; `NoMagic` that v2 messages carry none. Together with
`RefusesOnlyInvalid` they make `IInv`, from which `AlwaysAligned`,
`ValidIsNeverRefused` and the refinement `ImplementsMessageChannel` follow.
`ReaderNeverStarves` is the safety half of `MessageIsPassed`: with nothing left
unsent or in the socket, a reader that waits for bytes has passed every message and
holds no part of one.

`PingPongProofs` holds for all capacities (`CapacityAssumption`). The invariant
`Pipeline` says that pongs, the nonce in the sender's hand, the channel and the
nonce in the receiver's hand are, in this order, the numbers of the pings read.
`NoPingIsLost` counts them; in `ImplementsPongService` a write of a pong is the
service's answer and every other step an ask or a stutter. `PingsHoldUpTheReader`:
unanswered pings never exceed the channel and one in each task's hand.

`TransportNegotiationProofs` holds for every kind of network (`NetworkAssumption`).
`TransportsAgree` is not inductive: the initiator chooses by its policy and the outcome of
the v2 attempt, the listener by bytes that arrived earlier, and no action sees both.
The invariant goes through `mode`, which is set once, when a socket is opened:
`Outbound` ties it to where `connect()` is, to the sockets it holds and to its policy,
`Inbound` to what `accept()` has decided, and `Detected` says what a reliable network
adds. From it follow `TypeCorrect`, `EndsAgree`, `RequiredIsKept`, `NoSocketIsLeft`,
and two theorems without a run: `NoSilentDowngrade` (v1 only after a v2 attempt, unless v2 is
to be skipped) and `ReliableDetection` (the property that `transport_short_peek`
violates holds when the first four bytes arrive together, so the short peek is
what it takes).

`CrawlerConfigurationProofs` is about both `UserAgent` and `CrawlerConfiguration`. The
theorems about user agents hold for strings of any length over any characters. `NeverPanics`:
the validation always returns a verdict, so the slice is never out of range (the
string `/` gets past the two affix tests, and the test for a colon stops it).
`AcceptsExactlyTheFormat`: acceptance is `WellFormed`. `ErrorsAreExact`: which
error is returned for which empty part. The lemmas relate a cut of the inner slice to
the format, and show that there is one cut at most when there is one colon.

`FromComponentsExact`: what `from_name_version()` makes is of the format exactly when both
parts are not empty and have no colon, since a second colon would be a second cut.

`MalformedOnlyFromComponents` asks nothing of the pairs that an application gives to
`from_name_version()`: they are any strings. It says how far a malformed user agent can
get: to the network, but only through `Crawler::new()`, and only if the
application made it from such a pair; a builder never holds one. Its one
hypothesis besides the types is that the literal of `default_user_agent()` is proper
(`Given`). The invariant is that every user agent held anywhere, by the application, a
crawler, a session or a version message, is accounted for in this way, and that those of
builders are well formed. These two modules have no run: their inputs are all strings, and the proofs cover
them.

Every invariant, action property and refinement that a passing run checks is proved.
Only model-checked is the liveness, which needs fairness and ENABLED, and those the
prover does not handle: `Terminates`, `TestedIsReported`, `Settles`,
`EndsOrBlocksInWrite`, `Connects`, `MessageIsPassed`, `PingIsAnswered`, `ShutdownEnds` and
`CloseEnds`.

## Findings

| run | the code | what is said of it |
|---|---|---|
| `session_lost_batch` | the last task can send its peers and its completion between the two polls of the `select!`; its peers are never tested (`session.rs:250`) | "No more peers in channel and all tasks finished." (`session.rs:166`) |
| `session_drop_panics` | after the receiver is dropped, running tasks panic when they complete (`session.rs:241`) | "Coordinator should always be listening for task completion" (same line) |
| `handshake_own_listener` | a process that connects to its own listener completes the handshake (`futures.rs:472`) | "Detected a connection loop (attempting to connect to ourselves)." (`error.rs:19`) |
| `getpeers_blocked_write` | the writes of `get_peers()` have no timeout (`crawler/src/connection.rs:115`, `:51`) | "This timeout applies to all peer-related operations." (`crawler.rs:53`) |
| `transport_short_peek` | with fewer than four bytes there, a v1 peer is taken for v2 (`tcp.rs:124`) | "checking the first 4 bytes for network magic" (`tcp.rs:113-115`) |

Two more places of the documentation disagree with the code. What the code does is a
property that holds, of the run named here:

| run | the code | what is said of it |
|---|---|---|
| `handshake_pair` (`EnabledIffWanted`) | sendheaders is negotiated from version 70012 on (`SENDHEADERS_MIN_PROTOCOL_VERSION`, `peer.rs:16`) | "**70013** - BIP 0130/BIP 0133, added sendheaders and feefilter." (`peer.rs:36`; `peer.rs:15` has 70012) |
| `handshake_foreign` (`WritesInOrder`) | the negotiation messages are written before the verack, and nothing after it (`futures.rs:503`) | "3. Exchange verack messages. 4. Negotiate protocol features" (`futures.rs:392-393`), "exchanged after the handshake" (`state.rs:21`; `state.rs:9` has "During the handshake") |

Three more behaviours that the models have and no run checks:

- `tested_peers` compares whole `Peer` values, so an endpoint known with two sets
  of services is tested twice (`session.rs:218`; `MCCrawlSession` has such an
  endpoint), and may be reported Listening twice by equal messages.
- `max_concurrent_tasks = 0` panics in `mpsc::channel` (`session.rs:175`, `Start`),
  an end of the stream that is neither of the two scenarios of `crawler.rs:112`;
  `with_max_concurrent_tasks()` lets zero through (`With`).
- `from_name_version()` "cannot fail since it creates the string in the correct
  format" (`user_agent.rs:91`), and returns "A validated `UserAgent`"
  (`user_agent.rs:100`), but validates nothing (`user_agent.rs:110-113`). The claim is false
  for exactly the pairs with an empty part or a colon in one (`FromComponentsExact`),
  and such a user agent can reach the network (`MalformedOnlyFromComponents`).

## Not modelled

- The cryptography and the packets of the bip324 crate, which are outside the
  repository: decoys, rekeying, packets that fail authentication and the contents of
  its handshake.
- Formatting, `Display` and `Debug`, the conversions between errors, the constructors
  of `Peer` other than through the handshake, `has_service()`: no state and nothing
  that others depend on. What matters of `peer.rs` and `error.rs` is in the operators
  (`unwrap_or`, the version thresholds, the equality of peers, which error ends
  what).
- The network parameter, addresses, services and the timestamp of a version message,
  and the argument parsing and logging of the examples: passed on as they are.
- The `u32` count of our own pings in the example, which serves as nonce and log
  text only.
- A remote that never answers the v2 handshake: `connect()` then waits for its
  caller's timeout, which is `Cancel`.
- The modules in one state space: each takes the next one below it as the
  abstraction its properties justify (see *How they fit together*).

## Plan

Done: session, handshake, exchange, transport negotiation, transport, split
connection, user agent, configuration. What is next:

1. A module that composes the handshake with the crawler's timeout around
   `connect()`.
