------------------------------ MODULE Transport ------------------------------
(***************************************************************************)
(* A transport (connection/src/transport), v1 or v2, in one direction: a   *)
(* writer that serialises messages onto a byte stream, and the reader,     *)
(* whose read() may be dropped at any await (a timeout, a select) and      *)
(* resumes from its receive_state when it is called again, also after      *)
(* into_split() has taken it out of its transport.                         *)
(*                                                                         *)
(* A byte is <<i, j>>, byte j of message number i: a reader that loses or  *)
(* repeats bytes assembles a buffer that is no message.  Of a message only *)
(* the length of its payload matters and whether deserialize() and the     *)
(* magic accept it.                                                        *)
(*                                                                         *)
(* The v2 transport leaves the bytes to the ProtocolReader of bip324.      *)
(* Assumed of it: it keeps a packet that is read in part, as receive_state *)
(* does, its packets have a length field, and it returns each whole, once  *)
(* and in order.  A packet that fails its authentication is not modelled.  *)
(***************************************************************************)
EXTENDS Naturals, Sequences

CONSTANTS
  HEADER_SIZE,            \* 24 in the code
  PAYLOAD_LENGTH_OFFSET,  \* 16 in the code
  PayloadLength,          \* the lengths a payload may have
  MaxMessages             \* bound on the messages written

ASSUME SizeAssumption ==
  /\ HEADER_SIZE \in Nat
  /\ PAYLOAD_LENGTH_OFFSET \in 0..(HEADER_SIZE - 1)
  /\ PayloadLength \subseteq Nat
  /\ MaxMessages \in Nat

Message == [len : PayloadLength, kind : {"valid", "undecodable", "other_magic"}]

Valid == {m \in Message : m.kind = "valid"}

VARIABLES
  version,        \* the variant of Transport
  written,        \* the messages given to the writer
  unsent,         \* bytes of the last of them that write_all() has not written
  closed,         \* the writer's end of the socket is closed
  socket,         \* bytes written and not yet read
  split,          \* whether the reader's transport has been split
  receive_state,  \* ReadingHeader or ReadingPayload: bytes so far and in all
  call,           \* whether a call of read() is under way
  delivered,      \* the messages read() has returned
  refused,        \* the numbers of the messages read() has refused
  passed          \* how many messages the reader has put behind it

writerVars == <<written, unsent, closed>>
outcomeVars == <<delivered, refused, passed>>
vars == <<version, written, unsent, closed, socket, split, receive_state, call,
          delivered, refused, passed>>

\* The serialisation of message number i.
Frame(i, m) == [j \in 1..(HEADER_SIZE + m.len) |-> <<i, j - 1>>]

ReadingHeader == [phase |-> "header", buffer |-> <<>>, size |-> HEADER_SIZE]

ReadingPayload(header, payload_len) ==
  [phase |-> "payload", buffer |-> header, size |-> HEADER_SIZE + payload_len]

\* Transport::v1() and v2().
Init ==
  /\ version \in {"V1", "V2"}
  /\ written = <<>>
  /\ unsent = <<>>
  /\ closed = FALSE
  /\ socket = <<>>
  /\ split = FALSE
  /\ receive_state = ReadingHeader
  /\ call = "idle"
  /\ delivered = <<>>
  /\ refused = {}
  /\ passed = 0

(***************************************************************************)
(* The writer.                                                             *)
(***************************************************************************)
\* write(): one at a time, since it takes &mut self.  A v2 packet has no magic.
Write(m) ==
  /\ ~closed
  /\ unsent = <<>>
  /\ Len(written) < MaxMessages
  /\ version = "V2" => m.kind # "other_magic"
  /\ written' = Append(written, m)
  /\ unsent' = Frame(Len(written) + 1, m)
  /\ UNCHANGED <<version, closed, socket, split, receive_state, call, outcomeVars>>

\* write_all() and the network hand on bytes in pieces of any size: several
\* of these steps with nothing in between make a larger piece.
WriteByte ==
  /\ ~closed
  /\ unsent # <<>>
  /\ socket' = Append(socket, Head(unsent))
  /\ unsent' = Tail(unsent)
  /\ UNCHANGED <<version, written, closed, split, receive_state, call, outcomeVars>>

\* The connection is dropped, or fails, possibly in the middle of a message.
Close ==
  /\ ~closed
  /\ closed' = TRUE
  /\ UNCHANGED <<version, written, unsent, socket, split, receive_state, call, outcomeVars>>

(***************************************************************************)
(* The reader.                                                             *)
(***************************************************************************)
Buffer == receive_state.buffer

Complete == Len(Buffer) = receive_state.size

\* Mutant: the reader is a new one, with a receive_state of its own.
IntoSplit_new ==
  /\ ~split
  /\ call = "idle"
  /\ split' = TRUE
  /\ receive_state' = ReadingHeader
  /\ UNCHANGED <<version, writerVars, socket, call, outcomeVars>>

\* into_split() takes the transport, so there is no call under way; the halves
\* are the ones it was made of, whatever they have read.
IntoSplit ==
  /\ ~split
  /\ call = "idle"
  /\ split' = TRUE
  /\ UNCHANGED <<version, writerVars, socket, receive_state, call, outcomeVars>>

\* read() of the transport, or of its reader once it is split.
Call ==
  /\ call = "idle"
  /\ call' = "reading"
  /\ UNCHANGED <<version, writerVars, socket, split, receive_state, outcomeVars>>

\* Mutant: the part that is read is taken to be one byte longer.
Fill_beyond ==
  /\ call = "reading"
  /\ Len(Buffer) <= receive_state.size
  /\ socket # <<>>
  /\ receive_state' = [receive_state EXCEPT !.buffer = Append(@, Head(socket))]
  /\ socket' = Tail(socket)
  /\ UNCHANGED <<version, writerVars, split, call, outcomeVars>>

\* self.reader.read() puts a byte behind the ones already read, if the part it
\* reads has room for it.  A larger piece is several of these steps.
Fill ==
  /\ call = "reading"
  /\ Len(Buffer) < receive_state.size
  /\ socket # <<>>
  /\ receive_state' = [receive_state EXCEPT !.buffer = Append(@, Head(socket))]
  /\ socket' = Tail(socket)
  /\ UNCHANGED <<version, writerVars, split, call, outcomeVars>>

\* Mutant: the length of an earlier message.
payload_len_stale(header) == written[1].len

\* The length field: the bytes at its offset carry it.
payload_len(header) ==
  LET byte == header[PAYLOAD_LENGTH_OFFSET + 1]
  IN  IF byte[2] = PAYLOAD_LENGTH_OFFSET THEN written[byte[1]].len ELSE 0

ParseHeader ==
  /\ call = "reading"
  /\ receive_state.phase = "header"
  /\ Complete
  /\ receive_state' = ReadingPayload(Buffer, payload_len(Buffer))
  /\ UNCHANGED <<version, writerVars, socket, split, call, outcomeVars>>

\* deserialize() of the message with the checksum in its header (v1), of the
\* contents of a packet (v2).
Deserializes(i) ==
  /\ Buffer = Frame(i, written[i])
  /\ written[i].kind # "undecodable"

MagicMatches(i) == version = "V2" \/ written[i].kind # "other_magic"

\* The number of the message in the buffer.
Received == Buffer[1][1]

Deliver ==
  /\ call = "reading"
  /\ receive_state.phase = "payload"
  /\ Complete
  /\ Deserializes(Received)
  /\ MagicMatches(Received)
  /\ call' = "idle"
  /\ delivered' = Append(delivered, written[Received])
  /\ receive_state' = ReadingHeader
  /\ passed' = passed + 1
  /\ UNCHANGED <<version, writerVars, socket, split, refused>>

\* Mutant: the v1 reader skips the message that it refuses.
Refuse_skips ==
  /\ call = "reading"
  /\ receive_state.phase = "payload"
  /\ Complete
  /\ ~(Deserializes(Received) /\ MagicMatches(Received))
  /\ call' = "idle"
  /\ refused' = refused \cup {Received}
  /\ receive_state' = ReadingHeader
  /\ passed' = passed + 1
  /\ UNCHANGED <<version, writerVars, socket, split, delivered>>

\* The v1 reader keeps the message that it refuses in receive_state, and refuses
\* it again in the next call.  The v2 reader has taken the packet before it looks
\* into it, and goes on with the next one.
Refuse ==
  /\ call = "reading"
  /\ receive_state.phase = "payload"
  /\ Complete
  /\ ~(Deserializes(Received) /\ MagicMatches(Received))
  /\ call' = "idle"
  /\ refused' = refused \cup {Received}
  /\ receive_state' = IF version = "V2" THEN ReadingHeader ELSE receive_state
  /\ passed' = IF version = "V2" THEN passed + 1 ELSE passed
  /\ UNCHANGED <<version, writerVars, socket, split, delivered>>

\* The peer has closed and all its bytes are read: UnexpectedEof (v1), an
\* encryption error (v2).
ReadEof ==
  /\ call = "reading"
  /\ ~Complete
  /\ closed /\ socket = <<>>
  /\ call' = "idle"
  /\ UNCHANGED <<version, writerVars, socket, split, receive_state, outcomeVars>>

\* Mutant: the payload read so far is held by the future and dropped with it.
Cancel_forgets_payload ==
  /\ call = "reading"
  /\ ~Complete
  /\ call' = "idle"
  /\ receive_state' = IF receive_state.phase = "header" THEN receive_state
                      ELSE [receive_state EXCEPT !.buffer = SubSeq(@, 1, HEADER_SIZE)]
  /\ UNCHANGED <<version, writerVars, socket, split, outcomeVars>>

\* The caller drops the future while it waits for bytes.
Cancel ==
  /\ call = "reading"
  /\ ~Complete
  /\ call' = "idle"
  /\ UNCHANGED <<version, writerVars, socket, split, receive_state, outcomeVars>>

Read == Fill \/ ParseHeader \/ Deliver \/ Refuse \/ ReadEof

Next ==
  \/ \E m \in Message : Write(m)
  \/ WriteByte
  \/ Close
  \/ IntoSplit
  \/ Call
  \/ Read
  \/ Cancel

Spec == Init /\ [][Next]_vars

\* The task that writes and the one that reads are polled, and the reader calls
\* read() again after each return.  A timeout polls the read before it looks at
\* the clock, so a call that keeps being cancelled still takes the bytes that
\* are there: strong fairness of the reader's steps.
Fairness ==
  /\ WF_vars(WriteByte)
  /\ WF_vars(Call)
  /\ SF_vars(Read)

FairSpec == Spec /\ Fairness

(***************************************************************************)
(* Properties.                                                             *)
(***************************************************************************)
\* The number of the message the reader is waiting for.
Expected == passed + 1

\* The types of the variables; the reader never holds more bytes than the part
\* it reads has.
TypeOK ==
  /\ version \in {"V1", "V2"}
  /\ written \in Seq(Message)
  /\ unsent \in Seq(Nat \X Nat)
  /\ closed \in BOOLEAN
  /\ socket \in Seq(Nat \X Nat)
  /\ split \in BOOLEAN
  /\ receive_state \in [phase : {"header", "payload"}, buffer : Seq(Nat \X Nat), size : Nat]
  /\ Len(Buffer) <= receive_state.size
  /\ call \in {"idle", "reading"}
  /\ delivered \in Seq(Message)
  /\ refused \subseteq Nat
  /\ passed \in Nat

\* However the bytes arrive, however often read() is cancelled and whenever the
\* transport is split, the buffer of receive_state holds the first bytes of the
\* message that is due, and in the payload phase its size is that of this
\* message.
Aligned ==
  /\ \A j \in 1..Len(Buffer) : Buffer[j] = <<Expected, j - 1>>
  /\ receive_state.phase = "payload" =>
       receive_state.size = HEADER_SIZE + written[Expected].len

\* read() refuses a message only if that message is at fault: cancellation, the
\* sizes of the pieces and a split never make a valid message unreadable.
RefusesOnlyInvalid ==
  refused \subseteq {i \in 1..Len(written) : written[i] \notin Valid}

Channel == INSTANCE MessageChannel WITH resumes <- version = "V2"

\* The transport implements the channel: messages come out in order, each once
\* and none left out; v1 is stuck with the first that it refuses, v2 goes on.
ChannelPromise == Channel!Spec

\* "The read operation can be safely resumed later without data loss or protocol
\* corruption": as long as the socket is open, the reader gets past every message
\* that was written, or is stuck, if it is v1, with one that is invalid, even if
\* calls of read() are cancelled again and again.
MessageIsPassed ==
  \A k \in 1..MaxMessages :
    (Len(written) >= k /\ (version = "V2" \/ \A i \in 1..k : written[i] \in Valid))
      ~> (passed >= k \/ closed)
=============================================================================
