--------------------------- MODULE TransportProofs ---------------------------
(***************************************************************************)
(* Proofs about the transports for headers and payloads of any size and    *)
(* any number of messages.                                                 *)
(*                                                                         *)
(* The argument is that the bytes in flight form a chain: each is the      *)
(* successor of the one before it, the first one is the byte the reader    *)
(* needs next, and the last one ends the last message written.             *)
(***************************************************************************)
EXTENDS Transport, TLAPS

\* Of the messages w: the size of message i, and the byte that follows b.
Size(w, i) == HEADER_SIZE + w[i].len
Succ(w, b) ==
  IF b[2] + 1 < Size(w, b[1]) THEN <<b[1], b[2] + 1>> ELSE <<b[1] + 1, 0>>

\* b is a byte of one of the messages w.
IsByte(w, b) ==
  /\ b[1] \in 1..Len(w)
  /\ b[2] \in 0..(Size(w, b[1]) - 1)

\* The bytes s of the messages w follow one another, from the byte first up to
\* the byte before end.
Chain(w, s, first, end) ==
  /\ Len(s) = 0 => first = end
  /\ Len(s) > 0 => s[1] = first /\ Succ(w, s[Len(s)]) = end
  /\ \A k \in 1..Len(s) : IsByte(w, s[k])
  /\ \A k \in 1..(Len(s) - 1) : s[k + 1] = Succ(w, s[k])

\* Sizes are positive, and stay what they are when a message is added.
LEMMA SizeFacts ==
  ASSUME NEW w \in Seq(Message)
  PROVE  /\ HEADER_SIZE \in Nat /\ HEADER_SIZE >= 1
         /\ \A i \in 1..Len(w) : Size(w, i) \in Nat /\ Size(w, i) >= HEADER_SIZE
         /\ \A m \in Message : \A i \in 1..Len(w) : Size(Append(w, m), i) = Size(w, i)
<1>1. HEADER_SIZE \in Nat /\ HEADER_SIZE >= 1
  BY SizeAssumption
<1>2. ASSUME NEW i \in 1..Len(w)
      PROVE  w[i].len \in Nat
  <2>1. w[i] \in Message
    OBVIOUS
  <2> QED
    BY Zenon, <2>1, SizeAssumption DEF Message
<1>3. \A m \in Message : \A i \in 1..Len(w) : Append(w, m)[i] = w[i]
  OBVIOUS
<1> QED
  BY <1>1, <1>2, <1>3 DEF Size

\* Without its first byte, a chain begins at that byte's successor.
LEMMA ChainTail ==
  ASSUME NEW w \in Seq(Message), NEW s \in Seq(Nat \X Nat), Len(s) > 0,
         NEW first, NEW end, Chain(w, s, first, end)
  PROVE  /\ Head(s) = first
         /\ IsByte(w, first)
         /\ Tail(s) \in Seq(Nat \X Nat)
         /\ Chain(w, Tail(s), Succ(w, first), end)
<1> DEFINE t == Tail(s)
<1>1. /\ Len(s) \in Nat /\ Len(s) >= 1
      /\ Head(s) = s[1]
      /\ t \in Seq(Nat \X Nat)
      /\ Len(t) = Len(s) - 1
      /\ \A k \in 1..(Len(s) - 1) : t[k] = s[k + 1]
  OBVIOUS
<1> HIDE DEF t
<1>2. Head(s) = first /\ IsByte(w, first)
  BY <1>1 DEF Chain
<1>3. ASSUME NEW k \in 1..Len(t)
      PROVE  IsByte(w, t[k])
  <2>1. k + 1 \in 1..Len(s) /\ t[k] = s[k + 1]
    BY <1>1
  <2> QED
    BY <2>1 DEF Chain
<1>4. ASSUME NEW k \in 1..(Len(t) - 1)
      PROVE  t[k + 1] = Succ(w, t[k])
  <2>1. k \in 1..(Len(s) - 1) /\ k + 1 \in 1..(Len(s) - 1)
    BY <1>1
  <2>2. t[k] = s[k + 1] /\ t[k + 1] = s[(k + 1) + 1]
    BY Zenon, <1>1, <2>1
  <2> QED
    BY <2>1, <2>2 DEF Chain
<1>5. CASE Len(s) = 1
  <2>1. Len(t) = 0 /\ Succ(w, first) = end
    BY <1>1, <1>2, <1>5 DEF Chain
  <2>2. Chain(w, t, Succ(w, first), end)
    BY <1>3, <1>4, <2>1 DEF Chain
  <2> QED
    BY <1>1, <1>2, <2>2 DEF t
<1>6. CASE Len(s) > 1
  <2>1. Len(t) > 0
    BY <1>1, <1>6
  <2>2. t[1] = Succ(w, first)
    <3>1. 1 \in 1..(Len(s) - 1)
      BY <1>1, <1>6
    <3>2. t[1] = s[1 + 1]
      BY Zenon, <1>1, <3>1
    <3>3. s[1] = first /\ s[1 + 1] = Succ(w, s[1])
      BY Zenon, <3>1 DEF Chain
    <3> QED
      BY Zenon, <3>2, <3>3
  <2>3. Succ(w, t[Len(t)]) = end
    <3>1. t[Len(t)] = s[Len(s)]
      <4>1. Len(t) \in 1..(Len(s) - 1) /\ Len(t) + 1 = Len(s)
        BY <1>1, <1>6
      <4> QED
        BY Zenon, <1>1, <4>1
    <3> QED
      BY <1>1, <3>1 DEF Chain
  <2>4. ~(Len(t) = 0)
    BY <2>1
  <2>5. Chain(w, t, Succ(w, first), end)
    BY <1>3, <1>4, <2>2, <2>3, <2>4, Zenon DEF Chain
  <2> QED
    BY <1>1, <1>2, <2>5 DEF t
<1> QED
  BY <1>1, <1>5, <1>6

\* A chain is continued by the byte that it ends before.
LEMMA ChainAppend ==
  ASSUME NEW w \in Seq(Message), NEW s \in Seq(Nat \X Nat), NEW first,
         NEW b \in Nat \X Nat, IsByte(w, b), Chain(w, s, first, b)
  PROVE  Chain(w, Append(s, b), first, Succ(w, b))
<1> DEFINE t == Append(s, b)
<1>1. /\ Len(s) \in Nat
      /\ Len(t) = Len(s) + 1
      /\ t[Len(s) + 1] = b
      /\ \A k \in 1..Len(s) : t[k] = s[k]
  OBVIOUS
<1> HIDE DEF t
<1>2. t[1] = first
  <2>1. CASE Len(s) = 0
    BY <1>1, <2>1 DEF Chain
  <2>2. CASE Len(s) > 0
    <3>1. 1 \in 1..Len(s)
      BY <1>1, <2>2
    <3>2. s[1] = first
      BY Zenon, <2>2 DEF Chain
    <3> QED
      BY Zenon, <1>1, <3>1, <3>2
  <2> QED
    BY <1>1, <2>1, <2>2
<1>3. ASSUME NEW k \in 1..Len(t)
      PROVE  IsByte(w, t[k])
  <2>1. CASE k = Len(s) + 1
    BY <1>1, <2>1
  <2>2. CASE k \in 1..Len(s)
    BY <1>1, <2>2 DEF Chain
  <2> QED
    BY <1>1, <2>1, <2>2
<1>4. ASSUME NEW k \in 1..(Len(t) - 1)
      PROVE  t[k + 1] = Succ(w, t[k])
  <2>1. CASE k = Len(s)
    <3>1. Len(s) > 0 /\ t[k] = s[Len(s)] /\ t[k + 1] = b
      BY <1>1, <2>1
    <3> QED
      BY <3>1 DEF Chain
  <2>2. CASE k \in 1..(Len(s) - 1)
    <3>1. t[k] = s[k] /\ t[k + 1] = s[k + 1]
      BY <1>1, <2>2
    <3> QED
      BY <2>2, <3>1 DEF Chain
  <2> QED
    BY <1>1, <2>1, <2>2
<1>5. Chain(w, t, first, Succ(w, b))
  BY <1>1, <1>2, <1>3, <1>4 DEF Chain
<1> QED
  BY <1>5 DEF t

\* A chain stays one when another message is written.
LEMMA ChainMore ==
  ASSUME NEW w \in Seq(Message), NEW m \in Message, NEW s \in Seq(Nat \X Nat),
         NEW first, NEW end, Chain(w, s, first, end)
  PROVE  Chain(Append(w, m), s, first, end)
<1> DEFINE v == Append(w, m)
<1>1. Len(v) = Len(w) + 1 /\ Len(w) \in Nat
  OBVIOUS
<1>2. \A i \in 1..Len(w) : Size(v, i) = Size(w, i)
  BY SizeFacts
<1> HIDE DEF v
<1>3. ASSUME NEW b, IsByte(w, b)
      PROVE  IsByte(v, b) /\ Succ(v, b) = Succ(w, b)
  BY <1>1, <1>2, <1>3 DEF IsByte, Succ
<1>4. Len(s) \in Nat
  OBVIOUS
<1>5. \A k \in 1..Len(s) : IsByte(v, s[k]) /\ Succ(v, s[k]) = Succ(w, s[k])
  BY <1>3 DEF Chain
<1>6. Len(s) > 0 => Succ(v, s[Len(s)]) = end
  BY <1>4, <1>5 DEF Chain
<1>7. \A k \in 1..(Len(s) - 1) : s[k + 1] = Succ(v, s[k])
  BY <1>4, <1>5 DEF Chain
<1>8. Chain(v, s, first, end)
  BY <1>5, <1>6, <1>7 DEF Chain
<1> QED
  BY <1>8 DEF v

\* The bytes of one message are a chain.
LEMMA FrameChain ==
  ASSUME NEW w \in Seq(Message), NEW i \in 1..Len(w)
  PROVE  /\ Frame(i, w[i]) \in Seq(Nat \X Nat)
         /\ Len(Frame(i, w[i])) > 0
         /\ Frame(i, w[i])[1] = <<i, 0>>
         /\ Chain(w, Frame(i, w[i]), <<i, 0>>, <<i + 1, 0>>)
<1> DEFINE n == Size(w, i)
           f == Frame(i, w[i])
<1>1. n \in Nat /\ n >= 1 /\ i \in Nat
  BY SizeFacts
<1>2. f = [j \in 1..n |-> <<i, j - 1>>]
  BY DEF Frame, Size
<1> HIDE DEF n, f
<1>3. f \in Seq(Nat \X Nat) /\ Len(f) = n
  BY <1>1, <1>2
<1>4. \A j \in 1..n : f[j] = <<i, j - 1>>
  BY <1>2
<1>5. Len(f) > 0 /\ f[1] = <<i, 0>>
  BY <1>1, <1>3, <1>4
<1>6. \A k \in 1..n : IsByte(w, f[k])
  BY <1>1, <1>4 DEF IsByte, n
<1>7. ASSUME NEW k \in 1..n
      PROVE  /\ k < n => Succ(w, f[k]) = <<i, k>>
             /\ k = n => Succ(w, f[k]) = <<i + 1, 0>>
  <2>1. f[k][1] = i /\ f[k][2] = k - 1
    BY <1>4
  <2>2. f[k][2] + 1 = k
    BY <1>1, <2>1
  <2> QED
    BY <1>1, <2>1, <2>2 DEF Succ, n
<1>8. Chain(w, f, <<i, 0>>, <<i + 1, 0>>)
  <2>1. Succ(w, f[Len(f)]) = <<i + 1, 0>>
    BY <1>1, <1>3, <1>7
  <2>2. ASSUME NEW k \in 1..(n - 1)
        PROVE  f[k + 1] = Succ(w, f[k])
    <3>1. k \in 1..n /\ k < n /\ k + 1 \in 1..n /\ (k + 1) - 1 = k
      BY <1>1
    <3>2. f[k + 1] = <<i, k>>
      BY <1>4, <3>1
    <3>3. Succ(w, f[k]) = <<i, k>>
      BY <1>7, <3>1
    <3> QED
      BY <3>2, <3>3
  <2>3. ~(Len(f) = 0)
    BY <1>1, <1>3
  <2> QED
    BY <1>3, <1>5, <1>6, <2>1, <2>2, <2>3, Zenon DEF Chain
<1> QED
  BY <1>3, <1>5, <1>8 DEF f
(***************************************************************************)
(* The inductive invariant.                                                *)
(***************************************************************************)
\* The byte the reader needs next, the next byte to be written, and the first
\* byte of the message that will be written next.
At ==
  IF Len(Buffer) = 0 \/ Len(Buffer) < Size(written, Expected)
  THEN <<Expected, Len(Buffer)>> ELSE <<Expected + 1, 0>>
End == <<Len(written) + 1, 0>>
Mid == IF Len(unsent) = 0 THEN End ELSE unsent[1]

\* What the socket holds leads from the reader to the writer, and what is unsent
\* from there to the end of the last message.
Stream ==
  /\ Chain(written, socket, At, Mid)
  /\ Chain(written, unsent, Mid, End)

\* Where the reader is: in a message that was written.
Reading ==
  /\ receive_state.phase = "header" => receive_state.size = HEADER_SIZE
  /\ receive_state.phase = "payload" => Len(Buffer) >= HEADER_SIZE
  /\ passed <= Len(written)
  /\ Len(Buffer) > 0 => Expected <= Len(written)
  /\ Aligned

\* v2 packets have no magic.
NoMagic == version = "V2" => \A i \in 1..Len(written) : written[i].kind # "other_magic"

IInv == TypeOK /\ Stream /\ Reading /\ NoMagic /\ RefusesOnlyInvalid

\* The new message's bytes follow the end of the one before it.
LEMMA WriteKeeps ==
  ASSUME IInv, NEW m \in Message, Write(m)
  PROVE  IInv'
<1>1. /\ written' = Append(written, m)
      /\ unsent' = Frame(Len(written) + 1, m)
      /\ Len(unsent) = 0
      /\ version = "V2" => m.kind # "other_magic"
      /\ UNCHANGED <<version, closed, socket, split, receive_state, call, delivered,
                     refused, passed>>
  BY DEF Write, outcomeVars
<1>2. /\ written \in Seq(Message) /\ Len(written) \in Nat
      /\ unsent \in Seq(Nat \X Nat) /\ socket \in Seq(Nat \X Nat)
      /\ passed \in Nat /\ Len(Buffer) \in Nat
  BY DEF IInv, TypeOK
<1>3. /\ written' \in Seq(Message)
      /\ Len(written') = Len(written) + 1
      /\ \A i \in 1..Len(written) : written'[i] = written[i]
      /\ written'[Len(written) + 1] = m
  BY <1>1, <1>2
<1>4. Buffer' = Buffer /\ Expected' = Expected
  BY <1>1 DEF Buffer, Expected
<1>5. /\ unsent' \in Seq(Nat \X Nat)
      /\ Len(unsent') > 0
      /\ unsent'[1] = <<Len(written) + 1, 0>>
      /\ Chain(written', unsent', <<Len(written) + 1, 0>>, <<Len(written) + 2, 0>>)
  <2>1. Len(written) + 1 \in 1..Len(written')
    BY <1>2, <1>3
  <2>2. (Len(written) + 1) + 1 = Len(written) + 2
    BY <1>2
  <2> QED
    BY Zenon, <1>1, <1>3, <2>1, <2>2, FrameChain
<1>6. Mid = End /\ Mid' = End /\ End' = <<Len(written) + 2, 0>>
  BY <1>1, <1>2, <1>3, <1>5 DEF Mid, End
<1>7. At' = At
  <2>1. CASE Len(Buffer) = 0
    BY <1>4, <2>1 DEF At
  <2>2. CASE Len(Buffer) > 0
    <3>1. Expected \in 1..Len(written)
      BY <1>2, <2>2 DEF IInv, Reading, Expected
    <3>2. Size(written', Expected) = Size(written, Expected)
      BY <1>3, <3>1 DEF Size
    <3> QED
      BY <1>4, <3>2 DEF At
  <2> QED
    BY <1>2, <2>1, <2>2
<1>8. Stream'
  <2>1. Chain(written', socket, At, Mid)
    BY <1>1, <1>2, ChainMore DEF IInv, Stream
  <2>2. Chain(written', unsent', Mid', End')
    BY Zenon, <1>5, <1>6 DEF End
  <2> QED
    BY <1>1, <1>6, <1>7, <2>1, <2>2 DEF Stream
<1>9. TypeOK'
  BY <1>1, <1>3, <1>4, <1>5 DEF IInv, TypeOK
<1>10. Reading'
  <2>1. Aligned'
    <3>1. CASE Len(Buffer) = 0
      <4>1. receive_state.phase # "payload"
        BY <3>1, SizeFacts, <1>2 DEF IInv, Reading
      <4> QED
        BY <1>1, <1>4, <3>1, <4>1 DEF Aligned
    <3>2. CASE Len(Buffer) > 0
      <4>1. Expected \in 1..Len(written)
        BY <1>2, <3>2 DEF IInv, Reading, Expected
      <4>2. written'[Expected] = written[Expected]
        BY <1>3, <4>1
      <4> QED
        BY <1>1, <1>4, <4>2 DEF IInv, Reading, Aligned
    <3> QED
      BY <1>2, <3>1, <3>2
  <2> QED
    BY <1>1, <1>2, <1>3, <1>4, <2>1 DEF IInv, Reading, Expected
<1>11. NoMagic'
  <2> SUFFICES ASSUME version = "V2", NEW i \in 1..Len(written')
               PROVE  written'[i].kind # "other_magic"
    BY <1>1 DEF NoMagic
  <2>1. CASE i \in 1..Len(written)
    BY <1>3, <2>1 DEF IInv, NoMagic
  <2>2. CASE i = Len(written) + 1
    BY <1>1, <1>3, <2>2
  <2> QED
    BY <1>2, <1>3, <2>1, <2>2
<1>12. RefusesOnlyInvalid'
  BY <1>1, <1>2, <1>3 DEF IInv, TypeOK, RefusesOnlyInvalid
<1> QED
  BY <1>8, <1>9, <1>10, <1>11, <1>12 DEF IInv
\* A byte moves from the writer into the socket.
LEMMA WriteByteKeeps ==
  ASSUME IInv, WriteByte
  PROVE  IInv'
<1>1. /\ unsent # <<>>
      /\ socket' = Append(socket, Head(unsent))
      /\ unsent' = Tail(unsent)
      /\ UNCHANGED <<version, written, closed, split, receive_state, call, delivered,
                     refused, passed>>
  BY DEF WriteByte, outcomeVars
<1>2. /\ written \in Seq(Message)
      /\ unsent \in Seq(Nat \X Nat) /\ socket \in Seq(Nat \X Nat)
      /\ Len(unsent) > 0
  BY <1>1 DEF IInv, TypeOK
<1>3. Buffer' = Buffer /\ Expected' = Expected /\ At' = At /\ End' = End
  BY <1>1 DEF Buffer, Expected, At, End
<1>4. /\ Head(unsent) = Mid
      /\ IsByte(written, Mid)
      /\ unsent' \in Seq(Nat \X Nat)
      /\ Chain(written, unsent', Succ(written, Mid), End)
  BY <1>1, <1>2, ChainTail DEF IInv, Stream
<1>5. Mid \in Nat \X Nat
  BY <1>2, <1>4
<1>6. Mid' = Succ(written, Mid)
  <2>1. Len(unsent') \in Nat
    BY <1>4
  <2>2. CASE Len(unsent') = 0
    BY <1>1, <1>3, <1>4, <2>2 DEF Chain, Mid
  <2>3. CASE Len(unsent') > 0
    BY <1>1, <1>3, <1>4, <2>3 DEF Chain, Mid
  <2> QED
    BY <2>1, <2>2, <2>3
<1>7. Chain(written, socket', At, Succ(written, Mid))
  BY <1>1, <1>2, <1>4, <1>5, ChainAppend DEF IInv, Stream
<1>8. Stream'
  BY <1>1, <1>3, <1>4, <1>6, <1>7 DEF Stream
<1>9. TypeOK'
  <2>1. socket' \in Seq(Nat \X Nat)
    BY <1>1, <1>2, <1>4, <1>5
  <2> QED
    BY <1>1, <1>3, <1>4, <2>1 DEF IInv, TypeOK
<1> QED
  BY <1>1, <1>3, <1>8, <1>9
     DEF IInv, Reading, Aligned, NoMagic, RefusesOnlyInvalid

\* A byte moves from the socket into the buffer: it is the one that is needed.
LEMMA FillKeeps ==
  ASSUME IInv, Fill
  PROVE  IInv'
<1> DEFINE n == Len(Buffer)
<1>1. /\ n < receive_state.size
      /\ socket # <<>>
      /\ receive_state' = [receive_state EXCEPT !.buffer = Append(@, Head(socket))]
      /\ socket' = Tail(socket)
      /\ UNCHANGED <<version, written, unsent, closed, split, call, delivered, refused,
                     passed>>
  BY DEF Fill, writerVars, outcomeVars
<1>2. /\ written \in Seq(Message)
      /\ socket \in Seq(Nat \X Nat) /\ Len(socket) > 0
      /\ receive_state \in [phase : {"header", "payload"}, buffer : Seq(Nat \X Nat), size : Nat]
      /\ Buffer \in Seq(Nat \X Nat) /\ n \in Nat
      /\ passed \in Nat
      /\ receive_state.size \in Nat
  <2>1. /\ written \in Seq(Message)
        /\ socket \in Seq(Nat \X Nat)
        /\ receive_state \in [phase : {"header", "payload"}, buffer : Seq(Nat \X Nat), size : Nat]
        /\ passed \in Nat
    BY Zenon DEF IInv, TypeOK
  <2>2. Buffer \in Seq(Nat \X Nat) /\ receive_state.size \in Nat
    BY ONLY <2>1 DEF Buffer
  <2>3. n \in Nat
    BY ONLY <2>2
  <2>4. Len(socket) > 0
    BY ONLY <1>1, <2>1
  <2> QED
    BY Zenon, <2>1, <2>2, <2>3, <2>4
<1>3. /\ Buffer' = Append(Buffer, Head(socket))
      /\ receive_state'.phase = receive_state.phase
      /\ receive_state'.size = receive_state.size
      /\ Expected' = Expected
      /\ Mid' = Mid /\ End' = End
  BY <1>1, <1>2 DEF Buffer, Expected, Mid, End
<1>4. /\ Head(socket) = At
      /\ IsByte(written, At)
      /\ socket' \in Seq(Nat \X Nat)
      /\ Chain(written, socket', Succ(written, At), Mid)
  BY <1>1, <1>2, ChainTail DEF IInv, Stream
<1>5. At = <<Expected, n>>
  <2>1. CASE n = 0
    BY <2>1 DEF At
  <2>2. CASE n > 0
    <3>1. Expected \in 1..Len(written)
      BY <1>2, <2>2 DEF IInv, Reading, Expected
    <3>2. receive_state.size <= Size(written, Expected)
      <4>1. CASE receive_state.phase = "header"
        BY <1>2, <3>1, <4>1, SizeFacts DEF IInv, Reading
      <4>2. CASE receive_state.phase = "payload"
        <5>1. receive_state.size = Size(written, Expected)
          BY <4>2 DEF IInv, Reading, Aligned, Size
        <5> QED
          BY <1>2, <5>1
      <4> QED
        BY <1>2, <4>1, <4>2
    <3>3. n < Size(written, Expected)
      <4> DEFINE size == receive_state.size
                 whole == Size(written, Expected)
      <4>1. n \in Nat /\ size \in Nat /\ n < size /\ size <= whole
        BY Zenon, <1>1, <1>2, <3>2
      <4>2. whole \in Nat
        BY Zenon, <1>2, <3>1, SizeFacts
      <4> HIDE DEF n, size, whole
      <4>3. n < whole
        BY <4>1, <4>2
      <4> QED
        BY Zenon, <4>3 DEF whole
    <3> QED
      BY Zenon, <3>3 DEF At
  <2> QED
    BY <1>2, <2>1, <2>2
<1>6. /\ Expected \in 1..Len(written)
      /\ At \in Nat \X Nat
      /\ n < Size(written, Expected)
  <2>1. At[1] = Expected /\ At[2] = n
    BY <1>5
  <2>2. Expected \in 1..Len(written) /\ n \in 0..(Size(written, Expected) - 1)
    BY Zenon, <1>4, <2>1 DEF IsByte
  <2>3. Expected \in Nat
    BY <1>2 DEF Expected
  <2>4. At \in Nat \X Nat
    BY Zenon, <1>2, <1>5, <2>3
  <2>5. Size(written, Expected) \in Nat
    BY Zenon, <1>2, <2>2, SizeFacts
  <2>6. n < Size(written, Expected)
    <3> DEFINE whole == Size(written, Expected)
    <3>1. n \in 0..(whole - 1) /\ whole \in Nat
      BY Zenon, <2>2, <2>5
    <3> HIDE DEF n, whole
    <3>2. n < whole
      BY <3>1
    <3> QED
      BY Zenon, <3>2 DEF whole
  <2> QED
    BY Zenon, <2>2, <2>4, <2>6
<1>7. /\ Buffer' \in Seq(Nat \X Nat)
      /\ Len(Buffer') = n + 1
      /\ Buffer'[n + 1] = <<Expected, n>>
      /\ \A j \in 1..n : Buffer'[j] = Buffer[j]
  BY <1>2, <1>3, <1>4, <1>5, <1>6
<1> HIDE DEF n
<1>8. At' = Succ(written, At)
  <2>1. At[1] = Expected /\ At[2] = n
    BY <1>5
  <2>2. Size(written', Expected') = Size(written, Expected)
    BY <1>1, <1>3
  <2>3. CASE n + 1 < Size(written, Expected)
    BY Zenon, <1>2, <1>3, <1>7, <2>1, <2>2, <2>3 DEF At, Succ
  <2>4. CASE ~(n + 1 < Size(written, Expected))
    <3>1. Succ(written, At) = <<Expected + 1, 0>>
      BY <2>1, <2>4 DEF Succ
    <3>2. ~(Len(Buffer') = 0)
      BY <1>2, <1>7
    <3> QED
      BY Zenon, <1>3, <1>7, <2>2, <2>4, <3>1, <3>2 DEF At
  <2> QED
    BY <2>3, <2>4
<1>9. Stream'
  BY <1>1, <1>3, <1>4, <1>8 DEF IInv, Stream
<1>10. TypeOK'
  <2>1. receive_state' \in [phase : {"header", "payload"}, buffer : Seq(Nat \X Nat), size : Nat]
    BY Zenon, <1>1, <1>2, <1>3, <1>7 DEF Buffer
  <2>2. Len(Buffer') <= receive_state'.size
    BY <1>1, <1>2, <1>3, <1>7 DEF n
  <2> QED
    BY <1>1, <1>4, <2>1, <2>2 DEF IInv, TypeOK
<1>11. Aligned'
  <2>1. ASSUME NEW j \in 1..Len(Buffer')
        PROVE  Buffer'[j] = <<Expected', j - 1>>
    <3>1. CASE j = n + 1
      <4>1. j - 1 = n
        BY <1>2, <3>1
      <4> QED
        BY <1>3, <1>7, <3>1, <4>1
    <3>2. CASE j \in 1..n
      BY <1>3, <1>7, <3>2 DEF IInv, Reading, Aligned, n
    <3>3. j \in 1..(n + 1) /\ n \in Nat
      BY Zenon, <1>2, <1>7
    <3>4. j = n + 1 \/ j \in 1..n
      BY ONLY <3>3
    <3> QED
      BY Zenon, <3>1, <3>2, <3>4
  <2> QED
    BY <1>1, <1>3, <2>1 DEF IInv, Reading, Aligned
<1>12. Reading'
  <2>1. receive_state.phase = "payload" => Len(Buffer') >= HEADER_SIZE
    BY <1>2, <1>7, SizeAssumption DEF IInv, Reading, n
  <2>2. Expected <= Len(written)
    BY <1>6
  <2> QED
    BY <1>1, <1>3, <1>11, <2>1, <2>2 DEF IInv, Reading
<1> QED
  BY <1>1, <1>9, <1>10, <1>12 DEF IInv, NoMagic, RefusesOnlyInvalid
\* The length field that is read is the one of the message that is due.
LEMMA ParseHeaderKeeps ==
  ASSUME IInv, ParseHeader
  PROVE  IInv'
<1>1. /\ receive_state.phase = "header"
      /\ Len(Buffer) = receive_state.size
      /\ receive_state' = ReadingPayload(Buffer, payload_len(Buffer))
      /\ UNCHANGED <<version, written, unsent, closed, socket, split, call, delivered,
                     refused, passed>>
  BY DEF ParseHeader, Complete, writerVars, outcomeVars
<1>2. /\ written \in Seq(Message)
      /\ Buffer \in Seq(Nat \X Nat)
      /\ passed \in Nat
      /\ Len(Buffer) = HEADER_SIZE
  BY <1>1 DEF IInv, TypeOK, Buffer, Reading
<1>3. HEADER_SIZE \in Nat /\ HEADER_SIZE >= 1
  BY SizeFacts, <1>2
<1>4. Expected \in 1..Len(written)
  BY <1>2, <1>3 DEF IInv, Reading, Expected
<1>5. payload_len(Buffer) = written[Expected].len
  <2>1. /\ PAYLOAD_LENGTH_OFFSET + 1 \in 1..Len(Buffer)
        /\ (PAYLOAD_LENGTH_OFFSET + 1) - 1 = PAYLOAD_LENGTH_OFFSET
    BY <1>2, <1>3, SizeAssumption
  <2>2. Buffer[PAYLOAD_LENGTH_OFFSET + 1] = <<Expected, PAYLOAD_LENGTH_OFFSET>>
    BY <2>1 DEF IInv, Reading, Aligned
  <2> QED
    BY <2>2 DEF payload_len
<1>6. /\ receive_state' = [phase |-> "payload", buffer |-> Buffer,
                           size |-> Size(written, Expected)]
      /\ Buffer' = Buffer
      /\ receive_state'.phase = "payload"
      /\ receive_state'.size = Size(written, Expected)
      /\ Expected' = Expected
  BY <1>1, <1>5 DEF ReadingPayload, Buffer, Expected, Size
<1>7. Size(written, Expected) \in Nat /\ Size(written, Expected) >= HEADER_SIZE
  BY <1>2, <1>4, SizeFacts
<1>8. Stream'
  BY <1>1, <1>6 DEF IInv, Stream, At, Mid, End
<1>9. TypeOK'
  <2>1. receive_state' \in [phase : {"header", "payload"}, buffer : Seq(Nat \X Nat), size : Nat]
    BY <1>2, <1>6, <1>7
  <2>2. Len(Buffer') <= receive_state'.size
    BY <1>2, <1>3, <1>6, <1>7
  <2> QED
    BY <1>1, <2>1, <2>2 DEF IInv, TypeOK
<1>10. Aligned'
  BY <1>1, <1>6 DEF IInv, Reading, Aligned, Size
<1>11. Reading'
  BY <1>1, <1>2, <1>3, <1>4, <1>6, <1>10 DEF IInv, Reading
<1> QED
  BY <1>1, <1>8, <1>9, <1>11 DEF IInv, NoMagic, RefusesOnlyInvalid

\* A buffer that is complete holds the whole message that is due; it is accepted
\* if and only if that message is valid.
LEMMA WholeMessage ==
  ASSUME IInv, receive_state.phase = "payload", Complete
  PROVE  /\ Received = Expected
         /\ Expected \in 1..Len(written)
         /\ Len(Buffer) = Size(written, Expected)
         /\ Len(Buffer) > 0
         /\ Deserializes(Expected) /\ MagicMatches(Expected) <=> written[Expected] \in Valid
<1>1. /\ written \in Seq(Message)
      /\ Buffer \in Seq(Nat \X Nat)
      /\ Len(Buffer) \in Nat
      /\ passed \in Nat
      /\ version \in {"V1", "V2"}
  BY DEF IInv, TypeOK, Buffer
<1>2. Len(Buffer) = Size(written, Expected)
  BY DEF Complete, IInv, Reading, Aligned, Size
<1>3. Len(Buffer) > 0
  BY <1>1, SizeFacts DEF IInv, Reading
<1>4. Expected \in 1..Len(written)
  BY <1>1, <1>3 DEF IInv, Reading, Expected
<1>5. Received = Expected
  <2>1. 1 \in 1..Len(Buffer)
    BY <1>1, <1>3
  <2>2. Buffer[1] = <<Expected, 1 - 1>>
    BY <2>1 DEF IInv, Reading, Aligned
  <2> QED
    BY <2>2 DEF Received
<1>6. Buffer = Frame(Expected, written[Expected])
  <2>1. Buffer = [j \in 1..Len(Buffer) |-> Buffer[j]]
    BY <1>1
  <2>2. \A j \in 1..Len(Buffer) : Buffer[j] = <<Expected, j - 1>>
    BY DEF IInv, Reading, Aligned
  <2> QED
    BY Zenon, <1>2, <2>1, <2>2 DEF Frame, Size
<1>7. /\ written[Expected] \in Message
      /\ written[Expected].kind \in {"valid", "undecodable", "other_magic"}
      /\ version = "V2" => written[Expected].kind # "other_magic"
  <2>1. written[Expected] \in Message
    BY <1>1, <1>4
  <2> QED
    BY <1>4, <2>1 DEF Message, IInv, NoMagic
<1>8. Deserializes(Expected) <=> written[Expected].kind # "undecodable"
  BY <1>6 DEF Deserializes
<1> QED
  BY <1>1, <1>2, <1>3, <1>4, <1>5, <1>7, <1>8 DEF MagicMatches, Valid

\* A reader that has put a message behind it starts on the next one.
LEMMA PassKeeps ==
  ASSUME IInv, receive_state.phase = "payload", Complete,
         receive_state' = ReadingHeader, passed' = passed + 1, call' = "idle",
         UNCHANGED <<version, written, unsent, closed, socket, split>>
  PROVE  /\ Stream' /\ Reading' /\ NoMagic'
         /\ receive_state' \in [phase : {"header", "payload"}, buffer : Seq(Nat \X Nat), size : Nat]
         /\ Len(Buffer') <= receive_state'.size
<1>1. /\ Expected \in 1..Len(written)
      /\ Len(Buffer) = Size(written, Expected)
      /\ Len(Buffer) > 0
  BY WholeMessage
<1>2. passed \in Nat /\ Len(Buffer) \in Nat /\ HEADER_SIZE \in Nat
  BY SizeAssumption DEF IInv, TypeOK, Buffer
<1>3. /\ Buffer' = <<>> /\ Len(Buffer') = 0
      /\ receive_state'.phase = "header"
      /\ receive_state'.size = HEADER_SIZE
      /\ Expected' = Expected + 1
  BY DEF ReadingHeader, Buffer, Expected
<1>4. At = <<Expected + 1, 0>>
  BY <1>1, <1>2 DEF At
<1>5. At' = At
  BY <1>3, <1>4 DEF At
<1>6. Stream'
  BY <1>5 DEF IInv, Stream, Mid, End
<1>7. Aligned'
  BY <1>3 DEF Aligned
<1>8. Reading'
  BY <1>1, <1>2, <1>3, <1>7 DEF Reading, Expected
<1>9. receive_state' \in [phase : {"header", "payload"}, buffer : Seq(Nat \X Nat), size : Nat]
  BY <1>2 DEF ReadingHeader
<1> QED
  BY <1>2, <1>3, <1>6, <1>8, <1>9 DEF IInv, NoMagic
\* What is delivered is the valid message that was due: a step of the channel.
LEMMA DeliverKeeps ==
  ASSUME IInv, Deliver
  PROVE  IInv' /\ Channel!Deliver
<1>1. /\ receive_state.phase = "payload" /\ Complete
      /\ Deserializes(Received) /\ MagicMatches(Received)
      /\ call' = "idle"
      /\ delivered' = Append(delivered, written[Received])
      /\ receive_state' = ReadingHeader
      /\ passed' = passed + 1
      /\ UNCHANGED <<version, written, unsent, closed, socket, split, refused>>
  BY DEF Deliver, writerVars
<1>2. /\ Received = Expected
      /\ Expected \in 1..Len(written)
      /\ written[Expected] \in Valid
  BY <1>1, WholeMessage
<1>3. /\ Stream' /\ Reading' /\ NoMagic'
      /\ receive_state' \in [phase : {"header", "payload"}, buffer : Seq(Nat \X Nat), size : Nat]
      /\ Len(Buffer') <= receive_state'.size
  BY <1>1, PassKeeps
<1>4. /\ delivered' = Append(delivered, written[Expected])
      /\ written[Expected] \in Message
  BY <1>1, <1>2 DEF Valid
<1>5. TypeOK'
  <2>1. delivered' \in Seq(Message) /\ passed' \in Nat
    BY <1>1, <1>4 DEF IInv, TypeOK
  <2> QED
    BY <1>1, <1>3, <2>1 DEF IInv, TypeOK
<1>6. RefusesOnlyInvalid'
  BY <1>1 DEF IInv, RefusesOnlyInvalid
<1>7. Channel!Deliver
  <2>1. passed < Len(written)
    BY <1>2 DEF IInv, TypeOK, Expected
  <2> QED
    BY <1>1, <1>2, <1>4, <2>1 DEF Channel!Deliver, Expected
<1> QED
  BY <1>3, <1>5, <1>6, <1>7 DEF IInv

\* What is refused is invalid, and was due: a step of the channel.
LEMMA RefuseKeeps ==
  ASSUME IInv, Refuse
  PROVE  IInv' /\ Channel!Refuse
<1>1. /\ receive_state.phase = "payload" /\ Complete
      /\ ~(Deserializes(Received) /\ MagicMatches(Received))
      /\ call' = "idle"
      /\ refused' = refused \cup {Received}
      /\ receive_state' = IF version = "V2" THEN ReadingHeader ELSE receive_state
      /\ passed' = IF version = "V2" THEN passed + 1 ELSE passed
      /\ UNCHANGED <<version, written, unsent, closed, socket, split, delivered>>
  BY DEF Refuse, writerVars
<1>2. /\ Received = Expected
      /\ Expected \in 1..Len(written)
      /\ written[Expected] \notin Valid
  BY <1>1, WholeMessage
<1>3. /\ refused' = refused \cup {Expected}
      /\ Expected \in Nat
  BY <1>1, <1>2
<1>4. RefusesOnlyInvalid'
  BY <1>1, <1>2, <1>3 DEF IInv, RefusesOnlyInvalid
<1>5. Channel!Refuse
  <2>1. passed < Len(written)
    BY <1>2 DEF IInv, TypeOK, Expected
  <2> QED
    BY <1>1, <1>2, <1>3, <2>1 DEF Channel!Refuse, Expected
<1>6. CASE version = "V2"
  <2>1. /\ Stream' /\ Reading' /\ NoMagic'
        /\ receive_state' \in [phase : {"header", "payload"}, buffer : Seq(Nat \X Nat), size : Nat]
        /\ Len(Buffer') <= receive_state'.size
    BY <1>1, <1>6, PassKeeps
  <2>2. TypeOK'
    <3>1. passed' \in Nat
      BY <1>1, <1>6 DEF IInv, TypeOK
    <3>2. refused' \subseteq Nat
      BY <1>3 DEF IInv, TypeOK
    <3> QED
      BY <1>1, <2>1, <3>1, <3>2 DEF IInv, TypeOK
  <2> QED
    BY <1>4, <1>5, <2>1, <2>2 DEF IInv
<1>7. CASE version # "V2"
  <2>1. UNCHANGED <<receive_state, passed>>
    BY <1>1, <1>7
  <2>2. TypeOK'
    BY Zenon, <1>1, <1>3, <2>1 DEF IInv, TypeOK, Buffer
  <2>3. Stream' /\ Reading' /\ NoMagic'
    BY Zenon, <1>1, <2>1
       DEF IInv, Stream, At, Mid, End, Reading, Aligned, Expected, Buffer, NoMagic
  <2> QED
    BY <1>4, <1>5, <2>2, <2>3 DEF IInv
<1> QED
  BY <1>6, <1>7

\* Closing, splitting, calling and cancelling leave the bytes and the messages
\* alone.
LEMMA IdleKeeps ==
  ASSUME IInv, Close \/ IntoSplit \/ Call \/ ReadEof \/ Cancel \/ UNCHANGED vars
  PROVE  IInv' /\ UNCHANGED <<version, written, delivered, refused, passed>>
<1>1. UNCHANGED <<version, written, unsent, socket, receive_state, delivered, refused, passed>>
  BY DEF Close, IntoSplit, Call, ReadEof, Cancel, vars, writerVars, outcomeVars
<1>2. closed' \in BOOLEAN /\ split' \in BOOLEAN /\ call' \in {"idle", "reading"}
  BY Zenon DEF IInv, TypeOK, Close, IntoSplit, Call, ReadEof, Cancel, vars, writerVars, outcomeVars
<1>3. TypeOK'
  BY <1>1, <1>2 DEF IInv, TypeOK, Buffer
<1> QED
  BY <1>1, <1>3
     DEF IInv, Stream, At, Mid, End, Reading, Aligned, Expected, Buffer, NoMagic,
         RefusesOnlyInvalid

\* Every step keeps the invariant and is a step of the channel or invisible.
LEMMA Step ==
  ASSUME IInv, [Next]_vars
  PROVE  IInv' /\ [Channel!Next]_(Channel!vars)
<1>1. ASSUME NEW m \in Message, Write(m)
      PROVE  IInv' /\ [Channel!Next]_(Channel!vars)
  <2>1. Channel!Write(m)
    BY <1>1 DEF Write, Channel!Write, outcomeVars
  <2> QED
    BY <1>1, <2>1, WriteKeeps DEF Channel!Next
<1>2. CASE WriteByte
  BY <1>2, WriteByteKeeps DEF WriteByte, Channel!vars, outcomeVars
<1>3. CASE Fill
  BY <1>3, FillKeeps DEF Fill, Channel!vars, writerVars, outcomeVars
<1>4. CASE ParseHeader
  BY <1>4, ParseHeaderKeeps DEF ParseHeader, Channel!vars, writerVars, outcomeVars
<1>5. CASE Deliver
  BY <1>5, DeliverKeeps DEF Channel!Next
<1>6. CASE Refuse
  BY <1>6, RefuseKeeps DEF Channel!Next
<1>7. CASE Close \/ IntoSplit \/ Call \/ ReadEof \/ Cancel \/ UNCHANGED vars
  BY <1>7, IdleKeeps DEF Channel!vars
<1> QED
  BY <1>1, <1>2, <1>3, <1>4, <1>5, <1>6, <1>7 DEF Next, Read

\* Nothing is in flight in the beginning.
LEMMA InitIsGood ==
  ASSUME Init
  PROVE  IInv /\ Channel!Init
<1>1. /\ HEADER_SIZE \in Nat
      /\ Len(written) = 0 /\ Len(unsent) = 0 /\ Len(socket) = 0
      /\ receive_state.phase = "header" /\ receive_state.size = HEADER_SIZE
      /\ Buffer = <<>> /\ Len(Buffer) = 0
      /\ Expected = 1
  BY SizeAssumption DEF Init, ReadingHeader, Buffer, Expected
<1>2. TypeOK
  <2>1. receive_state \in [phase : {"header", "payload"}, buffer : Seq(Nat \X Nat), size : Nat]
    BY <1>1 DEF Init, ReadingHeader
  <2>2. /\ written \in Seq(Message) /\ delivered \in Seq(Message)
        /\ unsent \in Seq(Nat \X Nat) /\ socket \in Seq(Nat \X Nat)
        /\ refused \subseteq Nat /\ passed \in Nat
        /\ Len(Buffer) <= receive_state.size
    BY <1>1 DEF Init
  <2> QED
    BY Zenon, <2>1, <2>2 DEF Init, TypeOK
<1>3. Stream
  <2>1. At = <<1, 0>> /\ Mid = <<1, 0>> /\ End = <<1, 0>>
    BY <1>1 DEF At, Mid, End
  <2> QED
    BY <1>1, <2>1 DEF Stream, Chain
<1>4. Reading
  BY <1>1 DEF Reading, Aligned, Init
<1>5. NoMagic /\ RefusesOnlyInvalid
  BY <1>1 DEF NoMagic, RefusesOnlyInvalid, Init
<1>6. Channel!Init
  BY DEF Init, Channel!Init
<1> QED
  BY <1>2, <1>3, <1>4, <1>5, <1>6 DEF IInv

\* The invariant holds throughout.
LEMMA Invariance == Spec => []IInv
BY InitIsGood, Step, PTL DEF Spec

\* The types of the variables, and that the reader never takes more bytes than
\* the part it reads has, for every size.
THEOREM TypeCorrect == Spec => []TypeOK
BY Invariance, PTL DEF IInv

\* For every header size, payload size and number of messages, the v1 reader's
\* receive_state and its v2 counterpart stay aligned with the message that is
\* due, through cancellations and a split at any byte.
THEOREM AlwaysAligned == Spec => []Aligned
<1>1. IInv => Aligned
  BY DEF IInv, Reading
<1> QED
  BY <1>1, Invariance, PTL

\* A valid message is never refused.
THEOREM ValidIsNeverRefused == Spec => []RefusesOnlyInvalid
<1>1. IInv => RefusesOnlyInvalid
  BY DEF IInv
<1> QED
  BY <1>1, Invariance, PTL

\* A reader that waits for bytes although all that was written has reached it
\* waits for a message that nobody has written: it holds no part of a message,
\* and has passed all of them.
NeverStarved ==
  Len(unsent) = 0 /\ Len(socket) = 0 /\ ~Complete =>
    Len(Buffer) = 0 /\ passed = Len(written)

\* read() never asks the socket for more bytes than the message has, so it never
\* waits in the middle of a message that has arrived, whatever its size and
\* however often the call was cancelled.
THEOREM ReaderNeverStarves == Spec => []NeverStarved
<1>1. ASSUME IInv, Len(unsent) = 0, Len(socket) = 0, ~Complete
      PROVE  Len(Buffer) = 0 /\ passed = Len(written)
  <2>1. /\ written \in Seq(Message)
        /\ Buffer \in Seq(Nat \X Nat)
        /\ passed \in Nat
        /\ receive_state.size \in Nat
        /\ receive_state.phase \in {"header", "payload"}
        /\ Len(Buffer) <= receive_state.size
    BY <1>1 DEF IInv, TypeOK, Buffer
  <2> DEFINE lb == Len(Buffer)
             lw == Len(written)
  <2>2. lb \in Nat /\ lw \in Nat
    BY <2>1
  <2>3. At = <<lw + 1, 0>>
    BY <1>1 DEF IInv, Stream, Chain, Mid, End
  <2>4. lb = 0
    <3> SUFFICES ASSUME lb > 0
                 PROVE  FALSE
      BY <2>2
    <3>1. Expected \in 1..lw
      BY <1>1, <2>1, <2>2 DEF IInv, Reading, Expected
    <3>2. /\ Size(written, Expected) \in Nat
          /\ Size(written, Expected) >= HEADER_SIZE
          /\ HEADER_SIZE \in Nat
      BY <2>1, <3>1, SizeFacts
    <3>3. lb < receive_state.size
      BY <1>1, <2>1, <2>2 DEF Complete
    <3>4. receive_state.size = HEADER_SIZE \/ receive_state.size = Size(written, Expected)
      BY <1>1, <2>1 DEF IInv, Reading, Aligned, Size
    <3>5. lb < Size(written, Expected)
      BY ONLY <2>1, <2>2, <3>2, <3>3, <3>4
    <3>6. At = <<Expected, lb>>
      BY <3>5 DEF At
    <3> QED
      BY <2>3, <3>6
  <2>5. At = <<Expected, 0>>
    BY <2>4 DEF At
  <2> QED
    BY <2>1, <2>2, <2>3, <2>4, <2>5 DEF Expected
<1>2. IInv => NeverStarved
  BY Zenon, <1>1 DEF NeverStarved
<1> QED
  BY <1>2, Invariance, PTL

\* The byte-level transports implement the channel of messages.
THEOREM ImplementsMessageChannel == Spec => ChannelPromise
BY InitIsGood, Step, Invariance, PTL DEF Spec, ChannelPromise, Channel!Spec
=============================================================================
