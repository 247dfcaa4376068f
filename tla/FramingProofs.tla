---------------------------- MODULE FramingProofs ----------------------------
(***************************************************************************)
(* Proofs about Framing.tla: types for any senders and any messages; for a *)
(* single sender, that recv_message fails at the end of the stream only,   *)
(* and the step refinement of MessageChannel.tla.                          *)
(***************************************************************************)
EXTENDS Framing, SequenceTheorems, TLAPS

\* The bytes, and those of a message on its way: its length and its payload.
Byte == 0..255
Frame(m) == Header(Len(Payload[m])) \o Payload[m]

\* Types, for any senders.  Between two calls the receiver has nothing; in
\* between, less than it waits for.
SenderTypes ==
    /\ outbox \in [Senders -> Seq(Messages)]
    /\ unsent \in [Senders -> Seq(Byte)]
    /\ sendPc \in [Senders -> {"idle", "length", "payload"}]
    /\ \A s \in Senders : IF sendPc[s] = "idle" THEN unsent[s] = <<>> ELSE outbox[s] # <<>>
    /\ closed \in BOOLEAN
    /\ sent \in Seq(Messages)

ReceiverTypes ==
    /\ recvPc \in {"length", "payload"}
    /\ header \in Seq(Byte) /\ body \in Seq(Byte)
    /\ recvPc = "length" => Len(header) < HeaderSize /\ body = <<>>
    /\ recvPc = "payload" => /\ Len(header) = HeaderSize
                             /\ LengthIn(header) <= MaxMsgSize
                             /\ Len(body) < LengthIn(header)
    /\ failures \in BOOLEAN
    /\ received \in Seq(Seq(Byte))

Types ==
    /\ SenderTypes
    /\ ReceiverTypes
    /\ stream \in Seq(Byte) /\ Len(stream) <= SocketCap

\* What has been handed to send_message and not returned by recv_message: what
\* the receiver has of a message, what is on its way, and what s has still to
\* send of the message it is sending.
Onward(s) ==
    unsent[s] \o (IF sendPc[s] = "length" THEN Payload[Head(outbox[s])] ELSE <<>>)
Pending(s) == (header \o body) \o (stream \o Onward(s))

\* The bytes w are the frames of the messages ms after the first k; cut[i] is
\* where the frame of ms[i] ends when all are counted.
Framed(w, k, ms, cut) ==
    /\ cut \in [0..Len(ms) -> Nat]
    /\ \A i \in 1..Len(ms) : cut[i] = cut[i - 1] + Len(Frame(ms[i]))
    /\ \A i, j \in 0..Len(ms) : i <= j => cut[i] <= cut[j]
    /\ Len(w) = cut[Len(ms)] - cut[k]
    /\ \A i \in (k + 1)..Len(ms) : \A j \in 1..Len(Frame(ms[i])) :
          w[(cut[i - 1] - cut[k]) + j] = Frame(ms[i])[j]

\* What was returned is what was sent first.
Delivered ==
    /\ Len(received) <= Len(sent)
    /\ \A i \in 1..Len(received) : received[i] = Payload[sent[i]]

\* recv_message fails at the end of the stream only.
Ended == closed /\ stream = <<>> /\ recvPc = "length" /\ header = <<>>

\* The inductive invariant for one sender s.
Flow(s) ==
    /\ Delivered
    /\ failures => Ended
    /\ ~failures => \E cut : Framed(Pending(s), Len(received), sent, cut)

Inv(s) == Types /\ Flow(s)

\* What a step may do to the messages, the connection and what was returned.
ChannelStep ==
    \/ UNCHANGED <<sent, received, closed>>
    \/ /\ ~closed
       /\ \E m \in Messages : sent' = Append(sent, m)
       /\ UNCHANGED <<received, closed>>
    \/ /\ Len(received) < Len(sent)
       /\ received' = Append(received, Payload[sent[Len(received) + 1]])
       /\ UNCHANGED <<sent, closed>>
    \/ ~closed /\ closed' /\ UNCHANGED <<sent, received>>

-----------------------------------------------------------------------------
(* Sequences. *)

\* A sequence cut in two.
LEMMA TakeDrop ==
    ASSUME NEW S, NEW w \in Seq(S), NEW n \in 0..Len(w)
    PROVE  /\ Take(w, n) \in Seq(S) /\ Len(Take(w, n)) = n
           /\ Drop(w, n) \in Seq(S) /\ Len(Drop(w, n)) = Len(w) - n
           /\ Take(w, n) \o Drop(w, n) = w
<1> DEFINE t == SubSeq(w, 1, n)
           d == SubSeq(w, n + 1, Len(w))
<1>1. Len(w) \in Nat /\ n \in Nat /\ n <= Len(w)
  BY LenProperties
<1>2. /\ \A i \in 1..n : w[i] \in S
      /\ \A i \in (n + 1)..Len(w) : w[i] \in S
  BY <1>1, ElementOfSeq
<1>3. /\ t \in Seq(S) /\ Len(t) = n
      /\ \A i \in 1..n : t[i] = w[i]
  BY <1>1, <1>2, SubSeqProperties
<1>4. /\ d \in Seq(S) /\ Len(d) = Len(w) - n
      /\ \A i \in 1..(Len(w) - n) : d[i] = w[n + i]
  BY <1>1, <1>2, SubSeqProperties
<1> HIDE DEF t, d
<1>5. /\ t \o d \in Seq(S)
      /\ Len(t \o d) = Len(w)
      /\ \A i \in 1..Len(w) : (t \o d)[i] = IF i <= n THEN t[i] ELSE d[i - n]
  BY <1>1, <1>3, <1>4, ConcatProperties
<1>6. ASSUME NEW i \in 1..Len(w)
      PROVE  (t \o d)[i] = w[i]
  <2>1. CASE i <= n
    BY <1>1, <1>3, <1>5, <2>1
  <2>2. CASE i > n
    <3>1. i - n \in 1..(Len(w) - n) /\ n + (i - n) = i
      BY <1>1, <2>2
    <3>2. (t \o d)[i] = d[i - n]
      <4>1. ~(i <= n)
        BY ONLY <1>1, <2>2, i \in 1..Len(w)
      <4>2. QED
        BY ONLY <1>5, <4>1, i \in 1..Len(w), Zenon
    <3>3. d[i - n] = w[n + (i - n)]
      BY <1>4, <3>1
    <3>4. QED
      BY ONLY <3>1, <3>2, <3>3, Zenon
  <2>3. i <= n \/ i > n
    BY ONLY <1>1, i \in 1..Len(w)
  <2>4. QED
    BY ONLY <2>1, <2>2, <2>3, Zenon
<1>7. t \o d = w
  BY <1>5, <1>6, SeqEqual
<1>8. QED
  BY <1>3, <1>4, <1>7 DEF Take, Drop, t, d

\* One after the other.
LEMMA Concatenated ==
    ASSUME NEW S, NEW s \in Seq(S), NEW t \in Seq(S)
    PROVE  /\ s \o t \in Seq(S)
           /\ Len(s \o t) = Len(s) + Len(t)
           /\ Len(s) \in Nat /\ Len(t) \in Nat
           /\ \A i \in 1..Len(s) : (s \o t)[i] = s[i]
           /\ \A i \in 1..Len(t) : (s \o t)[Len(s) + i] = t[i]
<1>1. Len(s) \in Nat /\ Len(t) \in Nat
  BY LenProperties
<1>2. /\ s \o t \in Seq(S)
      /\ Len(s \o t) = Len(s) + Len(t)
      /\ \A i \in 1..Len(s) + Len(t) : (s \o t)[i] =
            IF i <= Len(s) THEN s[i] ELSE t[i - Len(s)]
  BY ConcatProperties
<1>3. \A i \in 1..Len(s) : i \in 1..Len(s) + Len(t) /\ i <= Len(s)
  BY <1>1
<1>4. \A i \in 1..Len(t) : /\ Len(s) + i \in 1..Len(s) + Len(t)
                           /\ ~(Len(s) + i <= Len(s))
                           /\ (Len(s) + i) - Len(s) = i
  BY <1>1
<1>5. QED
  BY <1>1, <1>2, <1>3, <1>4

\* Equality by a name: of an equality between sequences the provers would make
\* one of lengths and elements.
Equal(x, y) == x = y

\* Sequences put together in either order.
LEMMA Associative ==
    ASSUME NEW S, NEW s \in Seq(S), NEW t \in Seq(S), NEW u \in Seq(S)
    PROVE  Equal((s \o t) \o u, s \o (t \o u))
BY ConcatAssociative DEF Equal

\* The middle two of four sequences may be put together.
LEMMA FourConcatenated ==
    ASSUME NEW S, NEW s \in Seq(S), NEW t \in Seq(S), NEW u \in Seq(S), NEW v \in Seq(S)
    PROVE  Equal((s \o t) \o (u \o v), s \o ((t \o u) \o v))
<1>1. u \o v \in Seq(S)
  BY Concatenated
<1>2. Equal((t \o u) \o v, t \o (u \o v))
  BY Associative
<1>3. Equal((s \o t) \o (u \o v), s \o (t \o (u \o v)))
  BY <1>1, Associative
<1>4. QED
  BY ONLY <1>2, <1>3, Zenon DEF Equal

\* The smaller of two lengths.
LEMMA MinOfTwo ==
    \A a, b \in Nat : Min2(a, b) \in 0..a /\ Min2(a, b) \in 0..b
BY DEF Min2

\* The eight bytes of a length, and what they stand for.
LEMMA HeaderBytes ==
    ASSUME NEW n \in Byte
    PROVE  /\ Header(n) \in Seq(Byte)
           /\ Len(Header(n)) = HeaderSize
           /\ Header(n)[1] = n
           /\ \A i \in 2..HeaderSize : Header(n)[i] = 0
<1>1. Header(n) \in [1..HeaderSize -> Byte]
  BY DEF Header, Byte, HeaderSize
<1>2. HeaderSize \in Nat
  BY DEF HeaderSize
<1>3. Header(n) \in Seq(Byte)
  BY <1>1, <1>2, SeqDef
<1>4. Len(Header(n)) = HeaderSize
  <2>1. DOMAIN Header(n) = 1..HeaderSize
    BY <1>1
  <2>2. DOMAIN Header(n) = 1..Len(Header(n)) /\ Len(Header(n)) \in Nat
    BY <1>3, LenProperties
  <2>3. QED
    BY <1>2, <2>1, <2>2
<1>5. Header(n)[1] = n /\ \A i \in 2..HeaderSize : Header(n)[i] = 0
  BY DEF Header, HeaderSize
<1>6. QED
  BY <1>3, <1>4, <1>5

\* The constants, as the proofs use them.
LEMMA Constants ==
    /\ MaxMsgSize \in Nat
    /\ SocketCap \in Nat
    /\ Outbox \in [Senders -> Seq(Messages)]
    /\ Payload \in [Messages -> Seq(Byte)]
    /\ \A m \in Messages : Len(Payload[m]) \in 1..255 /\ Len(Payload[m]) <= MaxMsgSize
<1>1. /\ MaxMsgSize \in Nat \ {0} /\ SocketCap \in Nat \ {0}
      /\ Outbox \in [Senders -> Seq(Messages)]
      /\ Payload \in [Messages -> Seq(Byte)]
      /\ \A m \in Messages : Len(Payload[m]) \in 1..255 /\ Len(Payload[m]) <= MaxMsgSize
  BY FramingAssumption, Zenon DEF Byte
<1>2. QED
  BY ONLY <1>1, Zenon

\* The numbers that are bytes.
LEMMA ByteNumbers ==
    /\ \A x \in Byte : x \in Nat
    /\ \A x \in 1..255 : x \in Byte
BY DEF Byte

\* The payload of a message, and its length.
LEMMA PayloadBytes ==
    ASSUME NEW m \in Messages
    PROVE  /\ Payload[m] \in Seq(Byte)
           /\ Len(Payload[m]) \in Byte
           /\ Len(Payload[m]) \in 1..255
           /\ Len(Payload[m]) <= MaxMsgSize
<1>1. Payload[m] \in Seq(Byte)
  BY ONLY Constants, m \in Messages
<1>2. QED
  BY ONLY Constants, ByteNumbers, m \in Messages, <1>1, Zenon

-----------------------------------------------------------------------------
(* Types. *)

\* Everything is empty at first.
LEMMA InitTypes == Init => Types
<1> SUFFICES ASSUME Init PROVE Types
  OBVIOUS
<1>1. Len(<<>>) = 0 /\ <<>> \in Seq(Byte) /\ <<>> \in Seq(Messages) /\ <<>> \in Seq(Seq(Byte))
  BY EmptySeq
<1>2. Outbox \in [Senders -> Seq(Messages)] /\ SocketCap \in Nat
  BY Constants, Zenon
<1>3. SenderTypes
  BY <1>1, <1>2 DEF Init, SenderTypes
<1>4. ReceiverTypes
  <2>1. /\ recvPc = "length" /\ header = <<>> /\ body = <<>>
        /\ failures = FALSE /\ received = <<>>
    BY DEF Init
  <2>2. Len(header) < HeaderSize
    BY <1>1, <2>1 DEF HeaderSize
  <2>3. QED
    BY <1>1, <2>1, <2>2 DEF ReceiverTypes
<1>5. QED
  BY <1>1, <1>2, <1>3, <1>4 DEF Init, Types

\* The senders.
LEMMA SendBeginTypes ==
    ASSUME Types, NEW s \in Senders, SendBegin(s)
    PROVE  Types'
<1> DEFINE m == Head(outbox[s])
           h == Header(Len(Payload[m]))
<1>1. m \in Messages
  BY HeadTailProperties DEF SendBegin, Types, SenderTypes
<1>2. h \in Seq(Byte)
  BY <1>1, PayloadBytes, HeaderBytes
<1>3. /\ sendPc' = [sendPc EXCEPT ![s] = "length"]
      /\ unsent' = [unsent EXCEPT ![s] = h]
      /\ sent' = Append(sent, m)
      /\ outbox[s] # <<>>
      /\ UNCHANGED <<outbox, stream, closed, recvPc, header, body, failures, received>>
  BY DEF SendBegin, receiverVars
<1> HIDE DEF m, h
<1>4. sent' \in Seq(Messages)
  BY <1>1, <1>3, AppendProperties DEF Types, SenderTypes
<1>5. unsent' \in [Senders -> Seq(Byte)]
  BY <1>2, <1>3 DEF Types, SenderTypes
<1>6. SenderTypes'
  BY <1>3, <1>4, <1>5 DEF Types, SenderTypes
<1>7. ReceiverTypes'
  BY <1>3 DEF Types, ReceiverTypes
<1>8. QED
  BY <1>3, <1>6, <1>7 DEF Types

\* What send() takes of a buffer, and what is left.
LEMMA SendSomeEffect ==
    ASSUME Types, NEW s \in Senders, SendSome(s)
    PROVE  /\ \E n \in 1..Len(unsent[s]) :
                /\ Len(stream) + n <= SocketCap
                /\ stream' = stream \o Take(unsent[s], n)
                /\ \/ /\ unsent' = [unsent EXCEPT ![s] = Drop(unsent[s], n)]
                      /\ UNCHANGED <<sendPc, outbox>>
                   \/ /\ n = Len(unsent[s]) /\ sendPc[s] = "length"
                      /\ unsent' = [unsent EXCEPT ![s] = Payload[Head(outbox[s])]]
                      /\ sendPc' = [sendPc EXCEPT ![s] = "payload"]
                      /\ UNCHANGED outbox
                   \/ /\ n = Len(unsent[s]) /\ sendPc[s] = "payload"
                      /\ unsent' = [unsent EXCEPT ![s] = <<>>]
                      /\ sendPc' = [sendPc EXCEPT ![s] = "idle"]
                      /\ outbox' = [outbox EXCEPT ![s] = Tail(outbox[s])]
           /\ outbox[s] # <<>> /\ sendPc[s] # "idle" /\ ~closed
           /\ UNCHANGED <<sent, closed, recvPc, header, body, failures, received>>
<1>1. PICK n \in 1..Min2(Len(unsent[s]), SocketCap - Len(stream)) :
        /\ stream' = stream \o Take(unsent[s], n)
        /\ IF n < Len(unsent[s])
           THEN /\ unsent' = [unsent EXCEPT ![s] = Drop(unsent[s], n)]
                /\ UNCHANGED <<sendPc, outbox>>
           ELSE IF sendPc[s] = "length"
           THEN /\ unsent' = [unsent EXCEPT ![s] = Payload[Head(outbox[s])]]
                /\ sendPc' = [sendPc EXCEPT ![s] = "payload"]
                /\ UNCHANGED outbox
           ELSE /\ unsent' = [unsent EXCEPT ![s] = <<>>]
                /\ sendPc' = [sendPc EXCEPT ![s] = "idle"]
                /\ outbox' = [outbox EXCEPT ![s] = Tail(outbox[s])]
  BY DEF SendSome
<1>2. /\ SocketCap \in Nat /\ Len(stream) \in Nat /\ Len(stream) <= SocketCap
      /\ Len(unsent[s]) \in Nat
  <2>1. stream \in Seq(Byte) /\ unsent[s] \in Seq(Byte) /\ Len(stream) <= SocketCap
    BY DEF Types, SenderTypes
  <2>2. SocketCap \in Nat
    BY Constants, Zenon
  <2>3. QED
    BY ONLY <2>1, <2>2, LenProperties
<1>3. SocketCap - Len(stream) \in Nat
  BY <1>2
<1>4. n \in 1..Len(unsent[s]) /\ n <= SocketCap - Len(stream)
  BY <1>2, <1>3 DEF Min2
<1>5. Len(stream) + n <= SocketCap /\ (n < Len(unsent[s]) \/ n = Len(unsent[s]))
  BY <1>2, <1>4
<1>6. sendPc[s] \in {"length", "payload"} /\ outbox[s] # <<>> /\ ~closed
  BY DEF SendSome, Types, SenderTypes
<1>7. UNCHANGED <<sent, closed, recvPc, header, body, failures, received>>
  BY DEF SendSome, receiverVars
<1>8. QED
  BY <1>1, <1>4, <1>5, <1>6, <1>7

\* The senders.
LEMMA SendSomeTypes ==
    ASSUME Types, NEW s \in Senders, SendSome(s)
    PROVE  Types'
<1> DEFINE u == unsent[s]
<1>1. PICK n \in 1..Len(u) :
        /\ Len(stream) + n <= SocketCap
        /\ stream' = stream \o Take(u, n)
        /\ \/ /\ unsent' = [unsent EXCEPT ![s] = Drop(u, n)]
              /\ UNCHANGED <<sendPc, outbox>>
           \/ /\ sendPc[s] = "length"
              /\ unsent' = [unsent EXCEPT ![s] = Payload[Head(outbox[s])]]
              /\ sendPc' = [sendPc EXCEPT ![s] = "payload"]
              /\ UNCHANGED outbox
           \/ /\ unsent' = [unsent EXCEPT ![s] = <<>>]
              /\ sendPc' = [sendPc EXCEPT ![s] = "idle"]
              /\ outbox' = [outbox EXCEPT ![s] = Tail(outbox[s])]
  BY SendSomeEffect
<1>2. /\ UNCHANGED <<sent, closed, recvPc, header, body, failures, received>>
      /\ outbox[s] # <<>> /\ sendPc[s] # "idle"
  BY SendSomeEffect
<1>3. u \in Seq(Byte) /\ Len(u) \in Nat /\ stream \in Seq(Byte) /\ outbox[s] \in Seq(Messages)
  BY LenProperties DEF Types, SenderTypes
<1> HIDE DEF u
<1>4. Take(u, n) \in Seq(Byte) /\ Len(Take(u, n)) = n /\ Drop(u, n) \in Seq(Byte)
  <2>1. n \in 0..Len(u)
    BY <1>3
  <2>2. QED
    BY ONLY <1>3, <2>1, TakeDrop
<1>5. stream' \in Seq(Byte) /\ Len(stream') <= SocketCap
  <2>1. stream \o Take(u, n) \in Seq(Byte) /\ Len(stream \o Take(u, n)) = Len(stream) + n
    BY <1>3, <1>4, Concatenated
  <2>2. QED
    BY <1>1, <2>1
<1>6. Head(outbox[s]) \in Messages /\ Tail(outbox[s]) \in Seq(Messages)
  BY <1>2, <1>3, HeadTailProperties
<1>7. Payload[Head(outbox[s])] \in Seq(Byte) /\ <<>> \in Seq(Byte)
  BY <1>6, PayloadBytes, EmptySeq
<1>8. SenderTypes'
  <2>1. CASE /\ unsent' = [unsent EXCEPT ![s] = Drop(u, n)]
             /\ UNCHANGED <<sendPc, outbox>>
    <3>1. /\ unsent \in [Senders -> Seq(Byte)]
          /\ \A t \in Senders : unsent'[t] = IF t = s THEN Drop(u, n) ELSE unsent[t]
          /\ unsent' \in [Senders -> Seq(Byte)]
      BY <1>4, <2>1 DEF Types, SenderTypes
    <3>2. sendPc' = sendPc /\ outbox' = outbox /\ closed' = closed /\ sent' = sent
      BY <1>2, <2>1
    <3>3. \A t \in Senders : IF sendPc[t] = "idle" THEN unsent'[t] = <<>> ELSE outbox[t] # <<>>
      BY <1>2, <3>1 DEF Types, SenderTypes
    <3>4. QED
      BY <3>1, <3>2, <3>3, Zenon DEF Types, SenderTypes
  <2>2. CASE /\ unsent' = [unsent EXCEPT ![s] = Payload[Head(outbox[s])]]
             /\ sendPc' = [sendPc EXCEPT ![s] = "payload"]
             /\ UNCHANGED outbox
    BY <1>2, <1>7, <2>2 DEF Types, SenderTypes
  <2>3. CASE /\ unsent' = [unsent EXCEPT ![s] = <<>>]
             /\ sendPc' = [sendPc EXCEPT ![s] = "idle"]
             /\ outbox' = [outbox EXCEPT ![s] = Tail(outbox[s])]
    BY <1>2, <1>6, <1>7, <2>3 DEF Types, SenderTypes
  <2>4. QED
    BY <1>1, <2>1, <2>2, <2>3
<1>9. ReceiverTypes'
  BY <1>2 DEF Types, ReceiverTypes
<1>10. QED
  BY <1>5, <1>8, <1>9 DEF Types

\* The senders' process.
LEMMA CloseTypes == ASSUME Types, Close PROVE Types'
BY DEF Close, Types, SenderTypes, ReceiverTypes, senderVars, receiverVars

\* What recv_message does with n bytes when it waits for a length.
LengthReceived(n) ==
    LET got == header \o Take(stream, n)
    IN  \/ /\ Len(header) + n < HeaderSize
           /\ header' = got
           /\ UNCHANGED <<recvPc, body, failures, received>>
        \/ Len(header) + n = HeaderSize /\ TooLong(got) /\ Fail
        \/ /\ Len(header) + n = HeaderSize /\ ~TooLong(got) /\ LengthIn(got) = 0
           /\ Return(<<>>)
        \/ /\ Len(header) + n = HeaderSize /\ ~TooLong(got) /\ LengthIn(got) # 0
           /\ header' = got
           /\ recvPc' = "payload"
           /\ UNCHANGED <<body, failures, received>>

\* It takes no more than is there and no more than is missing.
LEMMA RecvLengthEffect ==
    ASSUME Types, RecvLength
    PROVE  /\ recvPc = "length" /\ stream # <<>> /\ body = <<>>
           /\ UNCHANGED <<outbox, unsent, sendPc, sent, closed>>
           /\ \E n \in 1..Len(stream) : stream' = Drop(stream, n) /\ LengthReceived(n)
<1> DEFINE n == Min2(HeaderSize - Len(header), Len(stream))
           got == header \o Take(stream, n)
<1>1. /\ stream' = Drop(stream, n)
      /\ \/ /\ Len(got) < HeaderSize
            /\ header' = got /\ UNCHANGED <<recvPc, body, failures, received>>
         \/ Len(got) = HeaderSize /\ TooLong(got) /\ Fail
         \/ Len(got) = HeaderSize /\ ~TooLong(got) /\ LengthIn(got) = 0 /\ Return(<<>>)
         \/ /\ ~(Len(got) < HeaderSize)
            /\ ~(Len(got) = HeaderSize /\ TooLong(got))
            /\ ~(Len(got) = HeaderSize /\ ~TooLong(got) /\ LengthIn(got) = 0)
            /\ header' = got /\ recvPc' = "payload" /\ UNCHANGED <<body, failures, received>>
  BY Zenon DEF RecvLength
<1>2. /\ recvPc = "length" /\ stream # <<>> /\ body = <<>>
      /\ UNCHANGED <<outbox, unsent, sendPc, sent, closed>>
      /\ Len(header) < HeaderSize /\ header \in Seq(Byte) /\ stream \in Seq(Byte)
  BY DEF RecvLength, senderVars, Types, ReceiverTypes
<1>3. /\ Len(header) \in Nat /\ Len(stream) \in Nat /\ Len(stream) # 0
      /\ HeaderSize \in Nat
  BY <1>2, LenProperties, EmptySeq DEF HeaderSize
<1>4. n \in 1..Len(stream) /\ n \in 0..Len(stream) /\ Len(header) + n <= HeaderSize
  BY ONLY <1>2, <1>3 DEF Min2
<1>5. Len(got) = Len(header) + n
  <2>1. Take(stream, n) \in Seq(Byte) /\ Len(Take(stream, n)) = n
    BY ONLY <1>2, <1>4, TakeDrop
  <2>2. QED
    BY ONLY <1>2, <2>1, Concatenated
<1> HIDE DEF n
<1>6. LengthReceived(n)
  <2>1. CASE Len(header) + n < HeaderSize
    BY <1>1, <1>5, <2>1, Zenon DEF LengthReceived
  <2>2. CASE Len(header) + n = HeaderSize
    <3>1. ~(Len(got) < HeaderSize)
      BY <1>3, <1>5, <2>2
    <3>2. QED
      BY <1>1, <1>5, <2>2, <3>1, Zenon DEF LengthReceived
  <2>3. QED
    BY <1>3, <1>4, <2>1, <2>2
<1>7. QED
  BY <1>1, <1>2, <1>4, <1>6, Zenon

\* The length that eight bytes stand for.
LEMMA LengthOfHeader ==
    ASSUME NEW h \in Seq(Byte), Len(h) = HeaderSize
    PROVE  /\ LengthIn(h) \in Nat
           /\ ~TooLong(h) => LengthIn(h) <= MaxMsgSize
<1>1. h[1] \in Byte /\ h[2] \in Byte
  <2>1. 1 \in 1..Len(h) /\ 2 \in 1..Len(h)
    BY DEF HeaderSize
  <2>2. QED
    BY <2>1, ElementOfSeq
<1>2. MaxMsgSize \in Nat
  BY Constants, Zenon
<1> DEFINE a == h[1]
           b == h[2]
<1>3. a \in Nat /\ b \in Nat
  BY ONLY <1>1, ByteNumbers, Zenon
<1> HIDE DEF a, b
<1>4. a + 256 * b \in Nat /\ (~(a + 256 * b > MaxMsgSize) => a + 256 * b <= MaxMsgSize)
  BY ONLY <1>2, <1>3
<1>5. LengthIn(h) = a + 256 * b /\ (TooLong(h) <=> \/ \E i \in 3..HeaderSize : h[i] # 0
                                                  \/ a + 256 * b > MaxMsgSize)
  BY DEF LengthIn, TooLong, a, b
<1>6. QED
  BY ONLY <1>4, <1>5, Zenon

\* The stream when n bytes have been taken from it.
LEMMA StreamTaken ==
    ASSUME Types, NEW n \in 1..Len(stream), stream' = Drop(stream, n)
    PROVE  /\ stream' \in Seq(Byte) /\ Len(stream') <= SocketCap
           /\ Take(stream, n) \in Seq(Byte) /\ Len(Take(stream, n)) = n
           /\ stream = Take(stream, n) \o stream'
<1>1. stream \in Seq(Byte) /\ Len(stream) \in Nat /\ Len(stream) <= SocketCap
  BY LenProperties DEF Types
<1>2. n \in 0..Len(stream) /\ SocketCap \in Nat
  <2>1. SocketCap \in Nat
    BY Constants, Zenon
  <2>2. n \in 0..Len(stream)
    BY ONLY <1>1, n \in 1..Len(stream)
  <2>3. QED
    BY ONLY <2>1, <2>2
<1>3. /\ Drop(stream, n) \in Seq(Byte) /\ Len(Drop(stream, n)) = Len(stream) - n
      /\ Take(stream, n) \in Seq(Byte) /\ Len(Take(stream, n)) = n
      /\ Take(stream, n) \o Drop(stream, n) = stream
  BY ONLY <1>1, <1>2, TakeDrop
<1>4. Len(stream) - n <= SocketCap
  BY ONLY <1>1, <1>2
<1>5. QED
  BY <1>3, <1>4, Zenon

\* The receiver after a failure, or when it has returned a payload.
LEMMA FailTypes ==
    ASSUME Types, Fail
    PROVE  ReceiverTypes'
<1>1. Len(<<>>) = 0 /\ <<>> \in Seq(Byte)
  BY EmptySeq
<1>2. QED
  BY <1>1 DEF Types, ReceiverTypes, Fail, HeaderSize

\* When recv_message returns, the next call has nothing of its message yet.
LEMMA ReturnTypes ==
    ASSUME Types, NEW p \in Seq(Byte), Return(p)
    PROVE  ReceiverTypes'
<1>1. Len(<<>>) = 0 /\ <<>> \in Seq(Byte)
  BY EmptySeq
<1>2. received' \in Seq(Seq(Byte))
  BY AppendProperties DEF Types, ReceiverTypes, Return
<1>3. QED
  BY <1>1, <1>2 DEF Types, ReceiverTypes, Return, HeaderSize

\* The receiver waits for a length.
LEMMA RecvLengthTypes ==
    ASSUME Types, RecvLength
    PROVE  Types'
<1>1. PICK n \in 1..Len(stream) : stream' = Drop(stream, n) /\ LengthReceived(n)
  BY RecvLengthEffect
<1>2. /\ recvPc = "length" /\ body = <<>>
      /\ UNCHANGED <<outbox, unsent, sendPc, sent, closed>>
  BY RecvLengthEffect
<1> DEFINE got == header \o Take(stream, n)
<1>3. /\ stream' \in Seq(Byte) /\ Len(stream') <= SocketCap
      /\ Take(stream, n) \in Seq(Byte) /\ Len(Take(stream, n)) = n
  BY <1>1, StreamTaken
<1>4. header \in Seq(Byte) /\ Len(<<>>) = 0 /\ <<>> \in Seq(Byte)
  BY EmptySeq DEF Types, ReceiverTypes
<1>5. got \in Seq(Byte) /\ Len(got) = Len(header) + n
  BY ONLY <1>3, <1>4, Concatenated
<1>6. SenderTypes'
  BY <1>2 DEF Types, SenderTypes
<1> HIDE DEF got
<1>7. ReceiverTypes'
  <2>1. CASE /\ Len(header) + n < HeaderSize
             /\ header' = got
             /\ UNCHANGED <<recvPc, body, failures, received>>
    BY <1>2, <1>5, <2>1 DEF Types, ReceiverTypes
  <2>2. CASE Fail
    BY <2>2, FailTypes
  <2>3. CASE Return(<<>>)
    BY <1>4, <2>3, ReturnTypes
  <2>4. CASE /\ Len(header) + n = HeaderSize /\ ~TooLong(got) /\ LengthIn(got) # 0
             /\ header' = got
             /\ recvPc' = "payload"
             /\ UNCHANGED <<body, failures, received>>
    <3>1. LengthIn(got) \in Nat /\ LengthIn(got) <= MaxMsgSize
      BY <1>5, <2>4, LengthOfHeader
    <3>2. Len(body) < LengthIn(got)
      BY <1>2, <1>4, <2>4, <3>1
    <3>3. QED
      BY <1>2, <1>5, <2>4, <3>1, <3>2 DEF Types, ReceiverTypes
  <2>5. QED
    BY <1>1, <2>1, <2>2, <2>3, <2>4, Zenon DEF LengthReceived, got
<1>8. QED
  BY <1>3, <1>6, <1>7 DEF Types

\* What recv_message does with n bytes of a payload.
PayloadReceived(n) ==
    LET got == body \o Take(stream, n)
    IN  \/ /\ Len(body) + n < LengthIn(header)
           /\ body' = got
           /\ UNCHANGED <<recvPc, header, failures, received>>
        \/ Len(body) + n = LengthIn(header) /\ Return(got)

\* It takes no more than is there and no more than is missing.
LEMMA RecvPayloadEffect ==
    ASSUME Types, RecvPayload
    PROVE  /\ recvPc = "payload" /\ stream # <<>>
           /\ UNCHANGED <<outbox, unsent, sendPc, sent, closed>>
           /\ \E n \in 1..Len(stream) : stream' = Drop(stream, n) /\ PayloadReceived(n)
<1> DEFINE n == Min2(LengthIn(header) - Len(body), Len(stream))
           got == body \o Take(stream, n)
<1>1. /\ stream' = Drop(stream, n)
      /\ IF Len(got) < LengthIn(header)
         THEN body' = got /\ UNCHANGED <<recvPc, header, failures, received>>
         ELSE Return(got)
  BY Zenon DEF RecvPayload
<1>2. /\ recvPc = "payload" /\ stream # <<>>
      /\ UNCHANGED <<outbox, unsent, sendPc, sent, closed>>
      /\ Len(body) < LengthIn(header) /\ body \in Seq(Byte) /\ stream \in Seq(Byte)
      /\ header \in Seq(Byte) /\ Len(header) = HeaderSize
  BY DEF RecvPayload, senderVars, Types, ReceiverTypes
<1>3. /\ Len(body) \in Nat /\ Len(stream) \in Nat /\ Len(stream) # 0
      /\ LengthIn(header) \in Nat
  BY <1>2, LenProperties, EmptySeq, LengthOfHeader
<1>4. n \in 1..Len(stream) /\ n \in 0..Len(stream) /\ Len(body) + n <= LengthIn(header)
  BY ONLY <1>2, <1>3 DEF Min2
<1>5. Len(got) = Len(body) + n
  <2>1. Take(stream, n) \in Seq(Byte) /\ Len(Take(stream, n)) = n
    BY ONLY <1>2, <1>4, TakeDrop
  <2>2. QED
    BY ONLY <1>2, <2>1, Concatenated
<1> HIDE DEF n
<1>6. ~(Len(got) < LengthIn(header)) => Len(body) + n = LengthIn(header)
  BY <1>3, <1>4, <1>5
<1>7. PayloadReceived(n)
  BY <1>1, <1>5, <1>6, Zenon DEF PayloadReceived
<1>8. QED
  BY <1>1, <1>2, <1>4, <1>7, Zenon

\* The receiver waits for a payload.
LEMMA RecvPayloadTypes ==
    ASSUME Types, RecvPayload
    PROVE  Types'
<1>1. PICK n \in 1..Len(stream) : stream' = Drop(stream, n) /\ PayloadReceived(n)
  BY RecvPayloadEffect
<1>2. recvPc = "payload" /\ UNCHANGED <<outbox, unsent, sendPc, sent, closed>>
  BY RecvPayloadEffect
<1> DEFINE got == body \o Take(stream, n)
<1>3. /\ stream' \in Seq(Byte) /\ Len(stream') <= SocketCap
      /\ Take(stream, n) \in Seq(Byte) /\ Len(Take(stream, n)) = n
  BY <1>1, StreamTaken
<1>4. body \in Seq(Byte)
  BY DEF Types, ReceiverTypes
<1>5. got \in Seq(Byte) /\ Len(got) = Len(body) + n
  BY ONLY <1>3, <1>4, Concatenated
<1>6. SenderTypes'
  BY <1>2 DEF Types, SenderTypes
<1> HIDE DEF got
<1>7. ReceiverTypes'
  <2>1. CASE /\ Len(body) + n < LengthIn(header)
             /\ body' = got
             /\ UNCHANGED <<recvPc, header, failures, received>>
    BY <1>2, <1>5, <2>1 DEF Types, ReceiverTypes
  <2>2. CASE Return(got)
    BY <1>5, <2>2, ReturnTypes
  <2>3. QED
    BY <1>1, <2>1, <2>2, Zenon DEF PayloadReceived, got
<1>8. QED
  BY <1>3, <1>6, <1>7 DEF Types

\* The end of the stream.
LEMMA RecvEndTypes == ASSUME Types, RecvEnd PROVE Types'
<1>1. Fail /\ UNCHANGED <<outbox, unsent, sendPc, sent, stream, closed>>
  BY DEF RecvEnd, senderVars
<1>2. ReceiverTypes'
  BY <1>1, FailTypes
<1>3. QED
  BY <1>1, <1>2 DEF Types, SenderTypes

\* Every step keeps the types.
LEMMA NextTypes == Types /\ [Next]_vars => Types'
<1> SUFFICES ASSUME Types, [Next]_vars PROVE Types'
  OBVIOUS
<1>1. ASSUME NEW s \in Senders, SendBegin(s) \/ SendSome(s) PROVE Types'
  BY <1>1, SendBeginTypes, SendSomeTypes
<1>2. CASE UNCHANGED vars
  BY <1>2 DEF vars, senderVars, receiverVars, Types, SenderTypes, ReceiverTypes
<1>3. QED
  BY <1>1, <1>2, CloseTypes, RecvLengthTypes, RecvPayloadTypes, RecvEndTypes DEF Next

\* The part of TypeOK that the types say.
LEMMA TypesImplyTypeOK == Types => TypeOK
<1> SUFFICES ASSUME Types PROVE TypeOK
  OBVIOUS
<1>1. Len(header) \in Nat /\ Len(body) \in Nat
  BY LenProperties DEF Types, ReceiverTypes
<1>2. MaxMsgSize \in Nat
  BY Constants, Zenon
<1>3. recvPc = "payload" => Len(header) = HeaderSize /\ Len(body) < MaxMsgSize
  <2>1. ASSUME recvPc = "payload"
        PROVE  Len(header) = HeaderSize /\ Len(body) < MaxMsgSize
    <3>1. /\ header \in Seq(Byte) /\ Len(header) = HeaderSize
          /\ LengthIn(header) <= MaxMsgSize /\ Len(body) < LengthIn(header)
      BY <2>1 DEF Types, ReceiverTypes
    <3>2. LengthIn(header) \in Nat
      BY <3>1, LengthOfHeader
    <3>3. QED
      BY ONLY <1>1, <1>2, <3>1, <3>2
  <2>2. QED
    BY <2>1
<1>4. Len(header) <= HeaderSize
  <2>1. Len(header) < HeaderSize \/ Len(header) = HeaderSize
    BY Zenon DEF Types, ReceiverTypes
  <2>2. \A k \in Nat : k < HeaderSize \/ k = HeaderSize => k <= HeaderSize
    BY DEF HeaderSize
  <2>3. QED
    BY ONLY <1>1, <2>1, <2>2, Zenon
<1>5. QED
  BY <1>3, <1>4 DEF Types, SenderTypes, ReceiverTypes, TypeOK

\* Type correctness, for any number of senders that interleave as they like:
\* neither what recv_message has of a length nor what it has of a payload
\* outgrows the buffer it is received into.
THEOREM FramingTypeCorrect == Spec => []TypeOK
<1>1. Init => Types
  BY InitTypes
<1>2. Types /\ [Next]_vars => Types'
  BY NextTypes
<1>3. Types => TypeOK
  BY TypesImplyTypeOK
<1>4. QED
  BY <1>1, <1>2, <1>3, PTL DEF Spec

-----------------------------------------------------------------------------
(* Frames. *)

\* A byte of a piece that lies between two cuts.
LEMMA Positions ==
    ASSUME NEW a \in Nat, NEW b \in Nat, NEW n \in Nat, NEW e \in Nat, NEW j \in 1..n,
           a <= b, b + n <= e
    PROVE  (b - a) + j \in 1..(e - a)
OBVIOUS

\* The frame of a message: its length, then its payload.
LEMMA FrameBytes ==
    ASSUME NEW m \in Messages
    PROVE  /\ Frame(m) \in Seq(Byte)
           /\ Len(Frame(m)) = HeaderSize + Len(Payload[m])
           /\ Len(Frame(m)) \in Nat
           /\ \A j \in 1..HeaderSize : Frame(m)[j] = Header(Len(Payload[m]))[j]
           /\ \A j \in 1..Len(Payload[m]) : Frame(m)[HeaderSize + j] = Payload[m][j]
<1> DEFINE h == Header(Len(Payload[m]))
           p == Payload[m]
<1>1. h \in Seq(Byte) /\ Len(h) = HeaderSize /\ p \in Seq(Byte)
  BY PayloadBytes, HeaderBytes
<1>2. Len(p) \in Nat /\ HeaderSize \in Nat
  BY <1>1, LenProperties DEF HeaderSize
<1>3. Frame(m) = h \o p
  BY DEF Frame
<1> HIDE DEF h, p
<1>4. /\ h \o p \in Seq(Byte)
      /\ Len(h \o p) = Len(h) + Len(p)
      /\ \A i \in 1..Len(h) : (h \o p)[i] = h[i]
      /\ \A i \in 1..Len(p) : (h \o p)[Len(h) + i] = p[i]
  <2>1. h \o p \in Seq(Byte) /\ Len(h \o p) = Len(h) + Len(p)
    BY ONLY <1>1, Concatenated
  <2>2. \A i \in 1..Len(h) : (h \o p)[i] = h[i]
    BY ONLY <1>1, Concatenated
  <2>3. \A i \in 1..Len(p) : (h \o p)[Len(h) + i] = p[i]
    BY ONLY <1>1, Concatenated
  <2>4. QED
    BY ONLY <2>1, <2>2, <2>3, Zenon
<1>5. HeaderSize + Len(p) \in Nat
  BY ONLY <1>2
<1>6. QED
  BY <1>1, <1>3, <1>4, <1>5, Zenon DEF h, p

\* When bytes are left, they begin with the frame of the next message.
LEMMA FramedHead ==
    ASSUME NEW w \in Seq(Byte), NEW ms \in Seq(Messages), NEW k \in 0..Len(ms), NEW cut,
           Framed(w, k, ms, cut), Len(w) # 0
    PROVE  /\ k + 1 \in 1..Len(ms)
           /\ Len(Frame(ms[k + 1])) <= Len(w)
           /\ \A j \in 1..Len(Frame(ms[k + 1])) : w[j] = Frame(ms[k + 1])[j]
<1>1. /\ cut \in [0..Len(ms) -> Nat]
      /\ \A i \in 1..Len(ms) : cut[i] = cut[i - 1] + Len(Frame(ms[i]))
      /\ \A i, j \in 0..Len(ms) : i <= j => cut[i] <= cut[j]
      /\ Len(w) = cut[Len(ms)] - cut[k]
      /\ \A i \in (k + 1)..Len(ms) : \A j \in 1..Len(Frame(ms[i])) :
            w[(cut[i - 1] - cut[k]) + j] = Frame(ms[i])[j]
  BY DEF Framed
<1>2. Len(ms) \in Nat /\ k \in Nat /\ k <= Len(ms)
  BY LenProperties
<1>3. cut[k] \in Nat /\ cut[Len(ms)] \in Nat
  BY ONLY <1>1, <1>2
<1>4. k # Len(ms)
  <2>1. cut[k] - cut[k] = 0
    BY ONLY <1>3
  <2>2. QED
    BY <1>1, <2>1, Zenon
<1>5. /\ k + 1 \in 1..Len(ms) /\ k + 1 \in (k + 1)..Len(ms)
      /\ k + 1 \in 0..Len(ms) /\ Len(ms) \in 0..Len(ms)
      /\ k + 1 <= Len(ms) /\ (k + 1) - 1 = k
  BY ONLY <1>2, <1>4
<1> DEFINE f == Frame(ms[k + 1])
<1>6. f \in Seq(Byte) /\ Len(f) \in Nat
  BY <1>5, ElementOfSeq, FrameBytes
<1>7. cut[k + 1] = cut[k] + Len(f) /\ cut[k + 1] <= cut[Len(ms)] /\ cut[k + 1] \in Nat
  BY <1>1, <1>5, Zenon
<1> HIDE DEF f
<1>8. Len(f) <= Len(w)
  BY ONLY <1>1, <1>3, <1>6, <1>7
<1>9. \A j \in 1..Len(f) : w[j] = f[j]
  <2>1. \A j \in 1..Len(f) : w[(cut[k] - cut[k]) + j] = f[j]
    BY <1>1, <1>5, Zenon DEF f
  <2>2. \A j \in 1..Len(f) : (cut[k] - cut[k]) + j = j
    BY ONLY <1>3, <1>6
  <2>3. QED
    BY ONLY <2>1, <2>2, Zenon
<1>10. QED
  BY <1>5, <1>8, <1>9, Zenon DEF f

\* When that frame is taken away, the others are left.
LEMMA FramedDrop ==
    ASSUME NEW x \in Seq(Byte), NEW w \in Seq(Byte), NEW ms \in Seq(Messages), NEW k \in 0..Len(ms), NEW cut,
           Framed(x \o w, k, ms, cut), k + 1 \in 1..Len(ms),
           Len(x) = Len(Frame(ms[k + 1]))
    PROVE  Framed(w, k + 1, ms, cut)
<1> DEFINE z == x \o w
<1>1. /\ cut \in [0..Len(ms) -> Nat]
      /\ \A i \in 1..Len(ms) : cut[i] = cut[i - 1] + Len(Frame(ms[i]))
      /\ \A i, j \in 0..Len(ms) : i <= j => cut[i] <= cut[j]
      /\ Len(z) = cut[Len(ms)] - cut[k]
      /\ \A i \in (k + 1)..Len(ms) : \A j \in 1..Len(Frame(ms[i])) :
            z[(cut[i - 1] - cut[k]) + j] = Frame(ms[i])[j]
  BY DEF Framed
<1>2. /\ Len(z) = Len(x) + Len(w)
      /\ Len(x) \in Nat /\ Len(w) \in Nat
      /\ \A i \in 1..Len(w) : z[Len(x) + i] = w[i]
  BY ONLY x \in Seq(Byte), w \in Seq(Byte), Concatenated
<1>3. Len(ms) \in Nat /\ k \in Nat /\ k + 1 <= Len(ms) /\ (k + 1) - 1 = k
  BY LenProperties
<1>4. /\ cut[k] \in Nat /\ cut[Len(ms)] \in Nat /\ cut[k + 1] \in Nat
      /\ k + 1 \in 0..Len(ms) /\ Len(ms) \in 0..Len(ms)
  <2>1. \A i \in 0..Len(ms) : cut[i] \in Nat
    BY ONLY <1>1
  <2>2. k \in 0..Len(ms) /\ k + 1 \in 0..Len(ms) /\ Len(ms) \in 0..Len(ms)
    BY ONLY <1>3
  <2>3. QED
    BY ONLY <2>1, <2>2, Zenon
<1>5. cut[k + 1] = cut[k] + Len(x)
  BY <1>1, <1>3, Zenon
<1> HIDE DEF z
<1>6. Len(w) = cut[Len(ms)] - cut[k + 1]
  <2>1. Len(z) = cut[Len(ms)] - cut[k] /\ Len(z) \in Nat
    <3>1. \A m, n \in Nat : m + n \in Nat
      OBVIOUS
    <3>2. QED
      BY ONLY <1>1, <1>2, <3>1, Zenon
  <2> DEFINE last == cut[Len(ms)]
             first == cut[k]
             l == Len(x)
             r == Len(w)
  <2>2. /\ Len(z) = l + r /\ Len(z) = last - first
        /\ l \in Nat /\ r \in Nat /\ last \in Nat /\ first \in Nat /\ Len(z) \in Nat
    BY ONLY <1>2, <1>4, <2>1, Zenon
  <2> HIDE DEF last, first, l, r
  <2>3. r = last - (first + l)
    BY ONLY <2>2
  <2>4. QED
    BY ONLY <1>5, <2>3, Zenon DEF last, first, l, r
<1>7. ASSUME NEW i \in (k + 2)..Len(ms), NEW j \in 1..Len(Frame(ms[i]))
      PROVE  w[(cut[i - 1] - cut[k + 1]) + j] = Frame(ms[i])[j]
  <2>1. /\ i \in (k + 1)..Len(ms) /\ i \in 1..Len(ms) /\ i \in 0..Len(ms)
        /\ i - 1 \in 0..Len(ms) /\ k + 1 <= i - 1 /\ i <= Len(ms)
    BY ONLY <1>3, i \in (k + 2)..Len(ms)
  <2>2. /\ cut[k + 1] <= cut[i - 1] /\ cut[i] <= cut[Len(ms)]
        /\ cut[i] = cut[i - 1] + Len(Frame(ms[i]))
    BY ONLY <1>1, <1>4, <2>1, Zenon
  <2>3. cut[i] \in Nat /\ cut[i - 1] \in Nat
    BY ONLY <1>1, <2>1, Zenon
  <2>4. Len(Frame(ms[i])) \in Nat
    BY <2>1, ElementOfSeq, FrameBytes
  <2>5. (cut[i - 1] - cut[k + 1]) + j \in 1..Len(w)
    <3>1. cut[i - 1] + Len(Frame(ms[i])) <= cut[Len(ms)]
      BY ONLY <2>2, Zenon
    <3>2. (cut[i - 1] - cut[k + 1]) + j \in 1..(cut[Len(ms)] - cut[k + 1])
      BY ONLY <1>4, <2>2, <2>3, <2>4, <3>1, j \in 1..Len(Frame(ms[i])), Positions, Zenon
    <3>3. QED
      BY ONLY <1>6, <3>2, Zenon
  <2>6. Len(x) + ((cut[i - 1] - cut[k + 1]) + j) = (cut[i - 1] - cut[k]) + j
    <3> DEFINE a == cut[k + 1]
               b == cut[i - 1]
               c == cut[k]
               l == Len(x)
    <3>1. a \in Nat /\ b \in Nat /\ c \in Nat /\ l \in Nat /\ a = c + l
      BY ONLY <1>2, <1>4, <1>5, <2>3, Zenon
    <3>2. j \in Nat
      BY ONLY <2>4, j \in 1..Len(Frame(ms[i]))
    <3> HIDE DEF a, b, c, l
    <3>3. l + ((b - a) + j) = (b - c) + j
      BY ONLY <3>1, <3>2
    <3>4. QED
      BY ONLY <3>3, Zenon DEF a, b, c, l
  <2>7. z[(cut[i - 1] - cut[k]) + j] = Frame(ms[i])[j]
    BY ONLY <1>1, <2>1, j \in 1..Len(Frame(ms[i])), Zenon
  <2>8. QED
    BY ONLY <1>2, <2>5, <2>6, <2>7, Zenon
<1>8. (k + 1) + 1 = k + 2
  BY <1>3
<1>9. QED
  BY <1>1, <1>6, <1>7, <1>8, Zenon DEF Framed

\* A message that is begun adds its frame.
LEMMA FramedAppend ==
    ASSUME NEW w \in Seq(Byte), NEW ms \in Seq(Messages), NEW k \in 0..Len(ms), NEW cut,
           Framed(w, k, ms, cut), NEW m \in Messages
    PROVE  \E cut2 : Framed(w \o Frame(m), k, Append(ms, m), cut2)
<1> DEFINE f == Frame(m)
           z == w \o f
           ms2 == Append(ms, m)
           L == Len(ms)
           cut2 == [i \in 0..(L + 1) |-> IF i = L + 1 THEN cut[L] + Len(f) ELSE cut[i]]
<1>1. /\ cut \in [0..L -> Nat]
      /\ \A i \in 1..L : cut[i] = cut[i - 1] + Len(Frame(ms[i]))
      /\ \A i, j \in 0..L : i <= j => cut[i] <= cut[j]
      /\ Len(w) = cut[L] - cut[k]
      /\ \A i \in (k + 1)..L : \A j \in 1..Len(Frame(ms[i])) :
            w[(cut[i - 1] - cut[k]) + j] = Frame(ms[i])[j]
  BY DEF Framed
<1>2. f \in Seq(Byte) /\ Len(f) \in Nat
  BY FrameBytes
<1>3. /\ Len(z) = Len(w) + Len(f) /\ Len(w) \in Nat
      /\ \A i \in 1..Len(w) : z[i] = w[i]
      /\ \A i \in 1..Len(f) : z[Len(w) + i] = f[i]
  BY <1>2, Concatenated
<1>4. /\ Len(ms2) = L + 1 /\ L \in Nat
      /\ \A i \in 1..L : ms2[i] = ms[i]
      /\ ms2[L + 1] = m
  BY AppendProperties, LenProperties
<1>5. \A i \in 1..L : Len(Frame(ms[i])) \in Nat
  BY ElementOfSeq, FrameBytes
<1>6. k \in 0..L /\ k \in Nat /\ k <= L
  BY <1>4
<1> HIDE DEF f, z, ms2, L
<1>7. /\ cut[L] \in Nat /\ cut[k] \in Nat
      /\ \A i \in 0..L : cut[i] \in Nat
  BY ONLY <1>1, <1>4, <1>6
<1>8. /\ cut2 \in [0..(L + 1) -> Nat]
      /\ cut2[L + 1] = cut[L] + Len(f)
      /\ \A i \in 0..L : cut2[i] = cut[i]
  BY ONLY <1>2, <1>4, <1>7
<1> HIDE DEF cut2
<1>9. ASSUME NEW i \in 1..(L + 1)
      PROVE  cut2[i] = cut2[i - 1] + Len(Frame(ms2[i]))
  <2>1. CASE i = L + 1
    <3>1. i - 1 = L /\ L \in 0..L
      BY ONLY <1>4, <2>1
    <3>2. QED
      BY ONLY <1>4, <1>8, <2>1, <3>1, Zenon DEF f
  <2>2. CASE i # L + 1
    <3>1. i \in 1..L /\ i \in 0..L /\ i - 1 \in 0..L
      BY ONLY <1>4, <2>2, i \in 1..(L + 1)
    <3>2. QED
      BY ONLY <1>1, <1>4, <1>8, <3>1, Zenon
  <2>3. QED
    BY ONLY <2>1, <2>2, Zenon
<1>10. ASSUME NEW i \in 0..(L + 1), NEW j \in 0..(L + 1), i <= j
       PROVE  cut2[i] <= cut2[j]
  <2>1. CASE j = L + 1 /\ i # L + 1
    <3>1. i \in 0..L /\ L \in 0..L /\ i <= L
      BY ONLY <1>4, <2>1, i \in 0..(L + 1)
    <3>2. cut[i] <= cut[L] /\ cut[i] \in Nat
      BY ONLY <1>1, <1>7, <3>1, Zenon
    <3>3. cut[i] <= cut[L] + Len(f)
      BY ONLY <1>2, <1>7, <3>2
    <3>4. QED
      BY ONLY <1>8, <2>1, <3>1, <3>3, Zenon
  <2>2. CASE i = L + 1
    <3>1. j = i /\ cut2[i] \in Nat
      BY ONLY <1>4, <1>8, <2>2, <1>10
    <3>2. QED
      BY ONLY <3>1
  <2>3. CASE j # L + 1
    <3>1. i \in 0..L /\ j \in 0..L
      BY ONLY <1>4, <2>3, <1>10
    <3>2. QED
      BY ONLY <1>1, <1>8, <1>10, <3>1, Zenon
  <2>4. QED
    BY ONLY <2>1, <2>2, <2>3, Zenon
<1>11. Len(z) = cut2[L + 1] - cut2[k]
  <2>1. cut2[k] = cut[k]
    BY ONLY <1>6, <1>8
  <2>2. Len(w) = cut[L] - cut[k]
    BY ONLY <1>1
  <2>3. cut[L] - cut[k] + Len(f) = (cut[L] + Len(f)) - cut[k]
    BY ONLY <1>2, <1>7
  <2>4. QED
    BY ONLY <1>3, <1>8, <2>1, <2>2, <2>3, Zenon
<1>12. ASSUME NEW i \in (k + 1)..(L + 1), NEW j \in 1..Len(Frame(ms2[i]))
       PROVE  z[(cut2[i - 1] - cut2[k]) + j] = Frame(ms2[i])[j]
  <2>0. cut2[k] = cut[k]
    BY ONLY <1>6, <1>8
  <2>1. CASE i = L + 1
    <3>1. i - 1 = L /\ L \in 0..L /\ ms2[i] = m
      BY ONLY <1>4, <2>1
    <3>2. cut2[i - 1] - cut2[k] = Len(w) /\ j \in 1..Len(f)
      BY ONLY <1>1, <1>8, <2>0, <3>1, j \in 1..Len(Frame(ms2[i])), Zenon DEF f
    <3>3. QED
      BY ONLY <1>3, <3>1, <3>2, Zenon DEF f
  <2>2. CASE i # L + 1
    <3>1. /\ i \in 1..L /\ i - 1 \in 0..L /\ i \in (k + 1)..L /\ i \in 0..L
          /\ k <= i - 1 /\ i <= L /\ L \in 0..L /\ k \in 0..L
      BY ONLY <1>4, <1>6, <2>2, i \in (k + 1)..(L + 1)
    <3>2. /\ ms2[i] = ms[i] /\ cut2[i - 1] = cut[i - 1]
          /\ cut[i] = cut[i - 1] + Len(Frame(ms[i]))
          /\ cut[k] <= cut[i - 1] /\ cut[i] <= cut[L]
          /\ cut[i - 1] \in Nat /\ cut[i] \in Nat /\ Len(Frame(ms[i])) \in Nat
      BY ONLY <1>1, <1>4, <1>5, <1>7, <1>8, <3>1, Zenon
    <3>3. j \in 1..Len(Frame(ms[i]))
      BY ONLY <3>2, j \in 1..Len(Frame(ms2[i])), Zenon
    <3>4. (cut[i - 1] - cut[k]) + j \in 1..Len(w)
      <4>1. cut[i - 1] + Len(Frame(ms[i])) <= cut[L] /\ cut[k] \in Nat /\ cut[L] \in Nat
        BY ONLY <1>7, <3>2, Zenon
      <4>2. (cut[i - 1] - cut[k]) + j \in 1..(cut[L] - cut[k])
        BY ONLY <3>2, <3>3, <4>1, Positions, Zenon
      <4>3. QED
        BY ONLY <1>1, <4>2, Zenon
    <3>5. w[(cut[i - 1] - cut[k]) + j] = Frame(ms[i])[j]
      BY ONLY <1>1, <3>1, <3>3, Zenon
    <3>6. z[(cut[i - 1] - cut[k]) + j] = w[(cut[i - 1] - cut[k]) + j]
      BY ONLY <1>3, <3>4, Zenon
    <3>7. QED
      BY ONLY <2>0, <3>2, <3>5, <3>6, Zenon
  <2>3. QED
    BY ONLY <2>1, <2>2, Zenon
<1>13. Framed(z, k, ms2, cut2)
  BY ONLY <1>4, <1>8, <1>9, <1>10, <1>11, <1>12, Zenon DEF Framed
<1>14. QED
  BY ONLY <1>13, Zenon DEF f, z, ms2

-----------------------------------------------------------------------------
(* One sender. *)

\* A header never stands for a length that recv_message refuses.
LEMMA HeaderOfMessage ==
    ASSUME NEW m \in Messages
    PROVE  LET h == Header(Len(Payload[m]))
           IN  ~TooLong(h) /\ LengthIn(h) = Len(Payload[m]) /\ LengthIn(h) # 0
<1> DEFINE l == Len(Payload[m])
           h == Header(l)
<1>1. l \in Byte /\ l \in 1..255 /\ l <= MaxMsgSize
  BY PayloadBytes
<1>2. h[1] = l /\ \A i \in 2..HeaderSize : h[i] = 0
  BY <1>1, HeaderBytes
<1>3. 2 \in 2..HeaderSize /\ \A i \in 3..HeaderSize : i \in 2..HeaderSize
  BY DEF HeaderSize
<1> HIDE DEF h, l
<1>4. h[2] = 0 /\ \A i \in 3..HeaderSize : h[i] = 0
  BY ONLY <1>2, <1>3, Zenon
<1>5. MaxMsgSize \in Nat
  BY Constants, Zenon
<1>6. h[1] + 256 * h[2] = l /\ ~(l > MaxMsgSize) /\ l # 0
  BY ONLY <1>1, <1>2, <1>4, <1>5
<1>7. ~TooLong(h) /\ LengthIn(h) = l /\ LengthIn(h) # 0
  BY ONLY <1>4, <1>6, Zenon DEF TooLong, LengthIn
<1>8. QED
  BY ONLY <1>7, Zenon DEF h, l

\* Eight bytes at the front of the frames are the length of the next message;
\* what follows them, if it is that long, is its payload, and then the other
\* frames come.
LEMMA NextFrame ==
    ASSUME NEW h \in Seq(Byte), NEW g \in Seq(Byte), NEW q \in Seq(Byte),
           NEW ms \in Seq(Messages), NEW k \in 0..Len(ms), NEW cut,
           Framed((h \o g) \o q, k, ms, cut), Len(h) = HeaderSize
    PROVE  /\ k + 1 \in 1..Len(ms) /\ ms[k + 1] \in Messages
           /\ h = Header(Len(Payload[ms[k + 1]]))
           /\ Len(g) = Len(Payload[ms[k + 1]]) =>
                 g = Payload[ms[k + 1]] /\ Framed(q, k + 1, ms, cut)
<1> DEFINE x == h \o g
           w == x \o q
           m == ms[k + 1]
           f == Frame(m)
           p == Payload[m]
           e == Header(Len(p))
<1>1. /\ x \in Seq(Byte) /\ Len(x) = HeaderSize + Len(g)
      /\ Len(h) \in Nat /\ Len(g) \in Nat
      /\ \A i \in 1..Len(h) : x[i] = h[i]
      /\ \A i \in 1..Len(g) : x[Len(h) + i] = g[i]
  <2>1. x \in Seq(Byte) /\ Len(x) = HeaderSize + Len(g) /\ Len(h) \in Nat /\ Len(g) \in Nat
    BY Concatenated
  <2>2. \A i \in 1..Len(h) : x[i] = h[i]
    BY Concatenated
  <2>3. \A i \in 1..Len(g) : x[Len(h) + i] = g[i]
    BY Concatenated
  <2>4. QED
    BY ONLY <2>1, <2>2, <2>3, Zenon
<1>2. /\ w \in Seq(Byte) /\ Len(w) = Len(x) + Len(q) /\ Len(q) \in Nat
      /\ \A i \in 1..Len(x) : w[i] = x[i]
  <2>1. w \in Seq(Byte) /\ Len(w) = Len(x) + Len(q) /\ Len(q) \in Nat
    BY ONLY <1>1, q \in Seq(Byte), Concatenated
  <2>2. \A i \in 1..Len(x) : w[i] = x[i]
    BY ONLY <1>1, q \in Seq(Byte), Concatenated
  <2>3. QED
    BY ONLY <2>1, <2>2, Zenon
<1> HIDE DEF x
<1>3. Framed(w, k, ms, cut)
  BY DEF x
<1>4. Len(w) # 0
  BY ONLY <1>1, <1>2 DEF HeaderSize
<1> HIDE DEF w
<1>5. /\ k + 1 \in 1..Len(ms)
      /\ Len(f) <= Len(w)
      /\ \A j \in 1..Len(f) : w[j] = f[j]
  BY <1>2, <1>3, <1>4, FramedHead
<1>6. m \in Messages
  BY <1>5, ElementOfSeq
<1>7. /\ Len(f) = HeaderSize + Len(p)
      /\ \A j \in 1..HeaderSize : f[j] = e[j]
      /\ \A j \in 1..Len(p) : f[HeaderSize + j] = p[j]
  BY <1>6, FrameBytes
<1>8. p \in Seq(Byte) /\ Len(p) \in Nat /\ e \in Seq(Byte) /\ Len(e) = HeaderSize
  BY <1>6, PayloadBytes, HeaderBytes, LenProperties
<1> HIDE DEF m, f, p, e
<1>9. HeaderSize \in Nat
  BY DEF HeaderSize
<1>10. h = e
  <2>1. ASSUME NEW j \in 1..HeaderSize PROVE h[j] = e[j]
    <3>1. j \in 1..Len(f) /\ j \in 1..Len(x)
      BY ONLY <1>1, <1>7, <1>8, <1>9, <2>1
    <3>2. j \in 1..Len(h)
      BY Zenon
    <3>3. QED
      BY ONLY <1>1, <1>2, <1>5, <1>7, <3>1, <3>2, <2>1, Zenon
  <2>2. \A j \in 1..Len(h) : h[j] = e[j]
    BY <2>1, Zenon
  <2>3. QED
    BY ONLY <1>8, <2>2, h \in Seq(Byte), Len(h) = HeaderSize, SeqEqual
<1>11. ASSUME Len(g) = Len(p) PROVE g = p /\ Framed(q, k + 1, ms, cut)
  <2>1. ASSUME NEW j \in 1..Len(g) PROVE g[j] = p[j]
    <3>1. HeaderSize + j \in 1..Len(f) /\ HeaderSize + j \in 1..Len(x) /\ j \in 1..Len(p)
      BY ONLY <1>1, <1>7, <1>8, <1>9, <1>11, <2>1
    <3>2. x[HeaderSize + j] = g[j]
      BY ONLY <1>1, <2>1, Len(h) = HeaderSize, Zenon
    <3>3. QED
      BY ONLY <1>2, <1>5, <1>7, <3>1, <3>2, Zenon
  <2>2. g = p
    BY ONLY <1>8, <1>11, <2>1, g \in Seq(Byte), SeqEqual
  <2>3. Len(x) = Len(Frame(ms[k + 1]))
    BY ONLY <1>1, <1>7, <1>11, Zenon DEF f, m
  <2>4. Framed(q, k + 1, ms, cut)
    BY <1>1, <1>3, <1>5, <2>3, FramedDrop DEF w
  <2>5. QED
    BY <2>2, <2>4
<1>12. QED
  BY ONLY <1>5, <1>6, <1>10, <1>11, Zenon DEF e, p, m

\* The pieces of what is pending are bytes.
LEMMA PendingBytes ==
    ASSUME Types, NEW s \in Senders
    PROVE  /\ header \in Seq(Byte) /\ body \in Seq(Byte) /\ stream \in Seq(Byte)
           /\ unsent[s] \in Seq(Byte) /\ Onward(s) \in Seq(Byte)
           /\ header \o body \in Seq(Byte) /\ stream \o Onward(s) \in Seq(Byte)
           /\ Pending(s) \in Seq(Byte)
<1>1. /\ header \in Seq(Byte) /\ body \in Seq(Byte) /\ stream \in Seq(Byte)
      /\ unsent[s] \in Seq(Byte) /\ outbox[s] \in Seq(Messages)
      /\ sendPc[s] = "length" => outbox[s] # <<>>
  BY DEF Types, SenderTypes, ReceiverTypes
<1> DEFINE r == IF sendPc[s] = "length" THEN Payload[Head(outbox[s])] ELSE <<>>
<1>2. r \in Seq(Byte)
  <2>1. CASE sendPc[s] = "length"
    <3>1. Head(outbox[s]) \in Messages
      BY ONLY <1>1, <2>1, HeadTailProperties
    <3>2. QED
      BY <2>1, <3>1, PayloadBytes
  <2>2. CASE sendPc[s] # "length"
    BY <2>2, EmptySeq
  <2>3. QED
    BY <2>1, <2>2
<1>3. Onward(s) = unsent[s] \o r
  BY DEF Onward
<1> HIDE DEF r
<1>4. Onward(s) \in Seq(Byte)
  BY ONLY <1>1, <1>2, <1>3, Concatenated
<1>5. header \o body \in Seq(Byte) /\ stream \o Onward(s) \in Seq(Byte)
  BY ONLY <1>1, <1>4, Concatenated
<1>6. Pending(s) \in Seq(Byte)
  BY ONLY <1>5, Concatenated DEF Pending
<1>7. QED
  BY ONLY <1>1, <1>4, <1>5, <1>6, Zenon

\* When the connection is up or bytes are on the way, recv_message has not
\* failed.
LEMMA NotFailed ==
    ASSUME NEW s \in Senders, Inv(s), ~closed \/ stream # <<>>
    PROVE  /\ failures = FALSE
           /\ \E cut : Framed(Pending(s), Len(received), sent, cut)
           /\ Len(received) \in 0..Len(sent)
           /\ sent \in Seq(Messages)
<1>1. failures = FALSE
  BY DEF Inv, Flow, Ended, Types, ReceiverTypes
<1>2. sent \in Seq(Messages) /\ received \in Seq(Seq(Byte)) /\ Len(received) <= Len(sent)
  BY DEF Inv, Flow, Delivered, Types, SenderTypes, ReceiverTypes
<1>3. Len(received) \in 0..Len(sent)
  BY <1>2, LenProperties
<1>4. QED
  BY <1>1, <1>2, <1>3 DEF Inv, Flow

\* A step that leaves the messages, what was returned and what is pending.
LEMMA QuietStep ==
    ASSUME NEW s \in Senders, Inv(s), ~closed \/ stream # <<>>,
           UNCHANGED <<sent, received, failures>>, Pending(s)' = Pending(s)
    PROVE  Flow(s)'
<1>1. /\ failures' = FALSE
      /\ \E cut : Framed(Pending(s), Len(received), sent, cut)
  BY NotFailed
<1>2. Delivered'
  BY DEF Inv, Flow, Delivered
<1>3. \E cut : Framed(Pending(s)', Len(received'), sent', cut)
  BY <1>1, Zenon
<1>4. QED
  BY <1>1, <1>2, <1>3, Zenon DEF Flow

\* At first nothing is pending.
LEMMA InitFlow == ASSUME NEW s \in Senders, Init PROVE Flow(s)
<1>1. /\ unsent[s] = <<>> /\ sendPc[s] = "idle" /\ stream = <<>>
      /\ header = <<>> /\ body = <<>> /\ failures = FALSE
      /\ sent = <<>> /\ received = <<>>
  BY DEF Init
<1>2. Len(<<>>) = 0 /\ <<>> \in Seq(Byte)
  BY EmptySeq
<1>3. <<>> \o <<>> = <<>>
  BY <1>2, ConcatEmptySeq
<1>4. Pending(s) = <<>>
  BY <1>1, <1>3, Zenon DEF Pending, Onward
<1> DEFINE cut == [i \in 0..0 |-> 0]
<1>5. Framed(<<>>, 0, <<>>, cut)
  <2>1. cut \in [0..0 -> Nat] /\ cut[0] = 0
    OBVIOUS
  <2>2. \A i \in 1..0 : FALSE
    OBVIOUS
  <2>3. \A i \in (0 + 1)..0 : FALSE
    OBVIOUS
  <2>4. \A i, j \in 0..0 : i <= j => cut[i] <= cut[j]
    OBVIOUS
  <2>5. Len(<<>>) = cut[0] - cut[0]
    BY <1>2, <2>1
  <2> HIDE DEF cut
  <2>6. QED
    BY ONLY <1>2, <2>1, <2>2, <2>3, <2>4, <2>5, Zenon DEF Framed
<1>6. \E c : Framed(Pending(s), Len(received), sent, c)
  BY <1>1, <1>2, <1>4, <1>5, Zenon
<1>7. Delivered
  BY <1>1, <1>2 DEF Delivered
<1>8. QED
  BY <1>1, <1>6, <1>7 DEF Flow

\* A message is begun: its frame is pending, after all the others.
LEMMA SendBeginFlow ==
    ASSUME NEW s \in Senders, Inv(s), SendBegin(s)
    PROVE  Flow(s)' /\ ChannelStep
<1> DEFINE m == Head(outbox[s])
           f == Frame(m)
<1>1. /\ sendPc[s] = "idle" /\ ~closed /\ outbox[s] # <<>>
      /\ sendPc' = [sendPc EXCEPT ![s] = "length"]
      /\ unsent' = [unsent EXCEPT ![s] = Header(Len(Payload[m]))]
      /\ sent' = Append(sent, m)
      /\ UNCHANGED <<outbox, stream, closed, recvPc, header, body, failures, received>>
  BY DEF SendBegin, receiverVars
<1>2. /\ Types /\ Delivered /\ outbox[s] \in Seq(Messages) /\ unsent[s] = <<>>
      /\ sendPc \in [Senders -> {"idle", "length", "payload"}]
      /\ unsent \in [Senders -> Seq(Byte)]
  BY <1>1 DEF Inv, Flow, Types, SenderTypes
<1>3. m \in Messages
  BY <1>1, <1>2, HeadTailProperties
<1>4. /\ failures = FALSE
      /\ \E cut : Framed(Pending(s), Len(received), sent, cut)
      /\ Len(received) \in 0..Len(sent) /\ sent \in Seq(Messages)
  BY <1>1, NotFailed
<1>5. header \o body \in Seq(Byte) /\ stream \in Seq(Byte) /\ Pending(s) \in Seq(Byte)
  BY <1>2, PendingBytes
<1>6. f \in Seq(Byte) /\ <<>> \in Seq(Byte)
  BY <1>3, FrameBytes, EmptySeq
<1>7. Onward(s) = <<>>
  BY <1>1, <1>2, <1>6, ConcatEmptySeq DEF Onward
<1>8. Onward(s)' = f
  <2>1. unsent'[s] = Header(Len(Payload[m])) /\ sendPc'[s] = "length" /\ outbox' = outbox
    BY <1>1, <1>2
  <2>2. QED
    BY <2>1, Zenon DEF Onward, Frame
<1> HIDE DEF f
<1>9. Pending(s)' = Pending(s) \o f
  <2>1. Pending(s) = (header \o body) \o stream
    BY <1>5, <1>7, ConcatEmptySeq DEF Pending
  <2>2. Pending(s)' = (header \o body) \o (stream \o f)
    BY <1>1, <1>8, Zenon DEF Pending
  <2>3. QED
    <3>1. Equal(((header \o body) \o stream) \o f, (header \o body) \o (stream \o f))
      BY ONLY <1>5, <1>6, Associative
    <3>2. QED
      BY ONLY <2>1, <2>2, <3>1, Zenon DEF Equal
<1>10. \E cut : Framed(Pending(s)', Len(received'), sent', cut)
  <2>1. PICK cut : Framed(Pending(s), Len(received), sent, cut)
    BY <1>4
  <2>2. \E cut2 : Framed(Pending(s) \o Frame(m), Len(received), Append(sent, m), cut2)
    BY <1>3, <1>4, <1>5, <2>1, FramedAppend
  <2>3. QED
    BY <1>1, <1>9, <2>2, Zenon DEF f
<1>11. Delivered'
  <2>1. /\ Len(sent') = Len(sent) + 1 /\ Len(sent) \in Nat /\ Len(received) \in Nat
        /\ \A i \in 1..Len(sent) : sent'[i] = sent[i]
    BY <1>1, <1>3, <1>4, AppendProperties, LenProperties
  <2>2. Len(received) <= Len(sent) + 1 /\ \A i \in 1..Len(received) : i \in 1..Len(sent)
    BY <1>4, <2>1
  <2>3. QED
    BY <1>1, <1>2, <2>1, <2>2, Zenon DEF Delivered
<1>12. ChannelStep
  BY <1>1, <1>3, Zenon DEF ChannelStep
<1>13. QED
  BY <1>1, <1>4, <1>10, <1>11, <1>12, Zenon DEF Flow

\* Bytes are sent: they are on the way and no longer with the sender.
LEMMA SendSomeFlow ==
    ASSUME NEW s \in Senders, Inv(s), SendSome(s)
    PROVE  Flow(s)' /\ ChannelStep
<1> DEFINE u == unsent[s]
           p == Payload[Head(outbox[s])]
<1>0. Types
  BY DEF Inv
<1>1. PICK n \in 1..Len(u) :
        /\ Len(stream) + n <= SocketCap
        /\ stream' = stream \o Take(u, n)
        /\ \/ /\ unsent' = [unsent EXCEPT ![s] = Drop(u, n)]
              /\ UNCHANGED <<sendPc, outbox>>
           \/ /\ n = Len(u) /\ sendPc[s] = "length"
              /\ unsent' = [unsent EXCEPT ![s] = p]
              /\ sendPc' = [sendPc EXCEPT ![s] = "payload"]
              /\ UNCHANGED outbox
           \/ /\ n = Len(u) /\ sendPc[s] = "payload"
              /\ unsent' = [unsent EXCEPT ![s] = <<>>]
              /\ sendPc' = [sendPc EXCEPT ![s] = "idle"]
              /\ outbox' = [outbox EXCEPT ![s] = Tail(outbox[s])]
  BY <1>0, SendSomeEffect
<1>2. /\ UNCHANGED <<sent, closed, recvPc, header, body, failures, received>>
      /\ outbox[s] # <<>> /\ ~closed
  BY <1>0, SendSomeEffect
<1>3. /\ sendPc \in [Senders -> {"idle", "length", "payload"}]
      /\ unsent \in [Senders -> Seq(Byte)]
      /\ outbox[s] \in Seq(Messages)
  BY <1>0 DEF Types, SenderTypes
<1>4. stream \in Seq(Byte) /\ u \in Seq(Byte) /\ Onward(s) \in Seq(Byte) /\ <<>> \in Seq(Byte)
  BY <1>0, PendingBytes, EmptySeq
<1>5. p \in Seq(Byte)
  <2>1. Head(outbox[s]) \in Messages
    BY <1>2, <1>3, HeadTailProperties
  <2>2. QED
    BY <2>1, PayloadBytes
<1> DEFINE r == IF sendPc[s] = "length" THEN p ELSE <<>>
<1>6. r \in Seq(Byte) /\ Onward(s) = u \o r
  BY <1>4, <1>5 DEF Onward
<1>7. /\ n \in 0..Len(u) /\ Take(u, n) \in Seq(Byte) /\ Drop(u, n) \in Seq(Byte)
      /\ Take(u, n) \o Drop(u, n) = u
      /\ n = Len(u) => Take(u, n) = u
  <2>1. Len(u) \in Nat
    BY <1>4, LenProperties
  <2>2. n \in 0..Len(u)
    BY ONLY <2>1, n \in 1..Len(u)
  <2>3. /\ Take(u, n) \in Seq(Byte) /\ Drop(u, n) \in Seq(Byte)
        /\ Take(u, n) \o Drop(u, n) = u /\ Len(Drop(u, n)) = Len(u) - n
    BY ONLY <1>4, <2>2, TakeDrop
  <2>4. ASSUME n = Len(u) PROVE Take(u, n) = u
    <3>1. Len(Drop(u, n)) = 0
      BY ONLY <2>1, <2>3, <2>4
    <3>2. Drop(u, n) = <<>>
      BY ONLY <2>3, <3>1, EmptySeq
    <3>3. QED
      BY ONLY <2>3, <3>2, ConcatEmptySeq
  <2>5. QED
    BY <2>2, <2>3, <2>4
<1> HIDE DEF u, p, r
<1>8. stream' \o Onward(s)' = stream \o Onward(s)
  <2>1. CASE /\ unsent' = [unsent EXCEPT ![s] = Drop(u, n)]
             /\ UNCHANGED <<sendPc, outbox>>
    <3>1. unsent'[s] = Drop(u, n)
      BY <1>3, <2>1
    <3>2. Onward(s)' = Drop(u, n) \o r
      BY <2>1, <3>1, Zenon DEF Onward, r, p
    <3>3. (stream \o Take(u, n)) \o (Drop(u, n) \o r) = stream \o (u \o r)
      <4> DEFINE out == Take(u, n)
                 left == Drop(u, n)
      <4>1. out \in Seq(Byte) /\ left \in Seq(Byte) /\ out \o left = u
        BY <1>7
      <4> HIDE DEF out, left
      <4>2. stream \in Seq(Byte) /\ r \in Seq(Byte) /\ out \in Seq(Byte) /\ left \in Seq(Byte)
        BY <1>4, <1>6, <4>1
      <4>3. Equal((stream \o out) \o (left \o r), stream \o ((out \o left) \o r))
        BY ONLY <4>2, FourConcatenated
      <4>4. QED
        BY ONLY <4>1, <4>3, Zenon DEF Equal, out, left
    <3>4. QED
      BY <1>1, <1>6, <3>2, <3>3, Zenon
  <2>2. CASE n = Len(u) /\ Onward(s)' = r
    <3>1. stream' = stream \o u
      BY <1>1, <1>7, <2>2, Zenon
    <3>2. Equal((stream \o u) \o r, stream \o (u \o r))
      BY ONLY <1>4, <1>6, Associative
    <3>3. (stream \o u) \o r = stream \o (u \o r)
      BY ONLY <3>2, Zenon DEF Equal
    <3>4. QED
      BY <1>6, <2>2, <3>1, <3>3, Zenon
  <2>3. CASE /\ n = Len(u) /\ sendPc[s] = "length"
             /\ unsent' = [unsent EXCEPT ![s] = p]
             /\ sendPc' = [sendPc EXCEPT ![s] = "payload"]
    <3>1. unsent'[s] = p /\ sendPc'[s] = "payload" /\ r = p
      BY <1>3, <2>3 DEF r
    <3>2. Onward(s)' = p \o <<>>
      BY <3>1 DEF Onward
    <3>3. QED
      BY <1>5, <2>2, <2>3, <3>1, <3>2, ConcatEmptySeq
  <2>4. CASE /\ n = Len(u) /\ sendPc[s] = "payload"
             /\ unsent' = [unsent EXCEPT ![s] = <<>>]
             /\ sendPc' = [sendPc EXCEPT ![s] = "idle"]
    <3>1. unsent'[s] = <<>> /\ sendPc'[s] = "idle" /\ r = <<>>
      BY <1>3, <2>4 DEF r
    <3>2. Onward(s)' = <<>> \o <<>>
      BY <3>1 DEF Onward
    <3>3. QED
      BY <1>4, <2>2, <2>4, <3>1, <3>2, ConcatEmptySeq
  <2>5. QED
    BY <1>1, <2>1, <2>3, <2>4, Zenon
<1>9. Pending(s)' = Pending(s)
  BY <1>2, <1>8, Zenon DEF Pending
<1>10. Flow(s)'
  BY <1>2, <1>9, QuietStep
<1>11. QED
  BY <1>2, <1>10, Zenon DEF ChannelStep

\* The sending process ends: what is pending stays pending.
LEMMA CloseFlow ==
    ASSUME NEW s \in Senders, Inv(s), Close
    PROVE  Flow(s)' /\ ChannelStep
<1>1. /\ ~closed /\ closed'
      /\ UNCHANGED <<outbox, unsent, sendPc, sent, stream, recvPc, header, body, failures, received>>
  BY DEF Close, senderVars, receiverVars
<1>2. Pending(s)' = Pending(s)
  BY <1>1 DEF Pending, Onward
<1>3. Flow(s)'
  BY <1>1, <1>2, QuietStep
<1>4. QED
  BY <1>1, <1>3, Zenon DEF ChannelStep

\* Bytes taken from the stream: what is pending, cut where they end.
LEMMA Taken ==
    ASSUME Types, NEW s \in Senders, NEW n \in 1..Len(stream), stream' = Drop(stream, n),
           UNCHANGED <<outbox, unsent, sendPc>>
    PROVE  /\ Take(stream, n) \in Seq(Byte) /\ Len(Take(stream, n)) = n
           /\ stream' \o Onward(s)' \in Seq(Byte)
           /\ Pending(s) = (header \o (body \o Take(stream, n))) \o (stream' \o Onward(s)')
<1> DEFINE t == Take(stream, n)
           d == stream'
           r == Onward(s)
<1>1. /\ d \in Seq(Byte) /\ t \in Seq(Byte) /\ Len(t) = n
      /\ stream = t \o d
  BY StreamTaken
<1>2. r \in Seq(Byte) /\ header \in Seq(Byte) /\ body \in Seq(Byte)
  BY PendingBytes
<1>3. Onward(s)' = r
  BY DEF Onward
<1>4. Pending(s) = (header \o body) \o ((t \o d) \o r)
  BY <1>1, Zenon DEF Pending
<1> HIDE DEF t, d, r
<1>5. /\ d \in Seq(Byte) /\ t \in Seq(Byte)
  BY <1>1
<1>6. d \o r \in Seq(Byte) /\ body \o t \in Seq(Byte) /\ header \o body \in Seq(Byte)
  BY ONLY <1>2, <1>5, Concatenated
<1>7. (header \o body) \o ((t \o d) \o r) = ((header \o body) \o t) \o (d \o r)
  <2> DEFINE a == header \o body
  <2>1. a \in Seq(Byte) /\ r \in Seq(Byte) /\ t \in Seq(Byte) /\ d \in Seq(Byte)
    BY <1>2, <1>5, <1>6
  <2> HIDE DEF a
  <2>2. Equal((a \o t) \o (d \o r), a \o ((t \o d) \o r))
    BY ONLY <2>1, FourConcatenated
  <2>3. QED
    BY ONLY <2>2, Zenon DEF Equal, a
<1>8. Equal((header \o body) \o t, header \o (body \o t))
  BY ONLY <1>2, <1>5, Associative
<1>9. QED
  BY ONLY <1>1, <1>3, <1>4, <1>6, <1>7, <1>8, Zenon DEF Equal, t, d, r

\* Bytes of a length are received.  When there are eight they are the length of
\* the next message: it is not too large, and it is not 0.
LEMMA RecvLengthFlow ==
    ASSUME NEW s \in Senders, Inv(s), RecvLength
    PROVE  Flow(s)' /\ ChannelStep
<1>0. Types
  BY DEF Inv
<1>1. PICK n \in 1..Len(stream) : stream' = Drop(stream, n) /\ LengthReceived(n)
  BY <1>0, RecvLengthEffect
<1>2. /\ recvPc = "length" /\ body = <<>> /\ stream # <<>>
      /\ UNCHANGED <<outbox, unsent, sendPc, sent, closed>>
  BY <1>0, RecvLengthEffect
<1> DEFINE t == Take(stream, n)
           got == header \o t
           q == stream' \o Onward(s)'
<1>3. /\ t \in Seq(Byte) /\ Len(t) = n /\ q \in Seq(Byte)
      /\ Pending(s) = (header \o (body \o t)) \o q
  BY <1>0, <1>1, <1>2, Taken
<1>4. header \in Seq(Byte) /\ <<>> \in Seq(Byte) /\ Len(<<>>) = 0
  BY <1>0, EmptySeq DEF Types, ReceiverTypes
<1>5. got \in Seq(Byte) /\ Len(got) = Len(header) + n
  BY ONLY <1>3, <1>4, Concatenated
<1>6. <<>> \o t = t /\ got \o <<>> = got
  BY ONLY <1>3, <1>5, ConcatEmptySeq
<1>7. Pending(s) = got \o q
  BY ONLY <1>2, <1>3, <1>6, Zenon
<1>8. header' = got /\ body' = body => Pending(s)' = Pending(s)
  BY <1>2, <1>6, <1>7, Zenon DEF Pending
<1> HIDE DEF t, got, q
<1>9. ASSUME Len(header) + n = HeaderSize
      PROVE  ~TooLong(got) /\ LengthIn(got) # 0
  <2>1. PICK cut : Framed(Pending(s), Len(received), sent, cut)
    BY <1>2, NotFailed
  <2>2. Len(received) \in 0..Len(sent) /\ sent \in Seq(Messages)
    BY <1>2, NotFailed
  <2> DEFINE none == <<>>
  <2>3. Framed((got \o none) \o q, Len(received), sent, cut)
    BY <1>6, <1>7, <2>1, Zenon
  <2>4. none \in Seq(Byte)
    BY <1>4
  <2> HIDE DEF none
  <2>5. PICK m \in Messages : got = Header(Len(Payload[m]))
    <3>1. Len(got) = HeaderSize
      BY <1>5, <1>9
    <3>2. /\ got \in Seq(Byte) /\ none \in Seq(Byte) /\ q \in Seq(Byte)
          /\ sent \in Seq(Messages) /\ Len(received) \in 0..Len(sent)
      BY <1>3, <1>5, <2>2, <2>4
    <3>3. got = Header(Len(Payload[sent[Len(received) + 1]])) /\ sent[Len(received) + 1] \in Messages
      BY ONLY <2>3, <3>1, <3>2, NextFrame
    <3>4. QED
      BY ONLY <3>3, Zenon
  <2>6. QED
    BY <2>5, HeaderOfMessage
<1>10. header' = got /\ UNCHANGED <<body, failures, received>>
  BY <1>1, <1>9, Zenon DEF LengthReceived, got, t
<1>11. Pending(s)' = Pending(s)
  BY <1>8, <1>10
<1>12. Flow(s)'
  BY <1>2, <1>10, <1>11, QuietStep
<1>13. QED
  BY <1>2, <1>10, <1>12, Zenon DEF ChannelStep

\* Bytes of a payload are received.  When there are as many as the length says
\* they are the payload of the next message.
LEMMA RecvPayloadFlow ==
    ASSUME NEW s \in Senders, Inv(s), RecvPayload
    PROVE  Flow(s)' /\ ChannelStep
<1>0. Types /\ Delivered
  BY DEF Inv, Flow
<1>1. PICK n \in 1..Len(stream) : stream' = Drop(stream, n) /\ PayloadReceived(n)
  BY <1>0, RecvPayloadEffect
<1>2. /\ recvPc = "payload" /\ stream # <<>>
      /\ UNCHANGED <<outbox, unsent, sendPc, sent, closed>>
  BY <1>0, RecvPayloadEffect
<1> DEFINE t == Take(stream, n)
           got == body \o t
           q == stream' \o Onward(s)'
           k == Len(received)
<1>3. /\ t \in Seq(Byte) /\ Len(t) = n /\ q \in Seq(Byte)
      /\ Pending(s) = (header \o got) \o q
  BY <1>0, <1>1, <1>2, Taken
<1>4. /\ header \in Seq(Byte) /\ Len(header) = HeaderSize
      /\ body \in Seq(Byte) /\ <<>> \in Seq(Byte)
      /\ received \in Seq(Seq(Byte))
  BY <1>0, <1>2, EmptySeq DEF Types, ReceiverTypes
<1>5. got \in Seq(Byte) /\ Len(got) = Len(body) + n
  BY ONLY <1>3, <1>4, Concatenated
<1>6. /\ failures = FALSE
      /\ \E cut : Framed(Pending(s), k, sent, cut)
      /\ k \in 0..Len(sent)
      /\ sent \in Seq(Messages)
  BY <1>2, NotFailed
<1>7. CASE /\ body' = got
           /\ UNCHANGED <<recvPc, header, failures, received>>
  <2>1. Pending(s)' = Pending(s)
    BY <1>3, <1>7, Zenon DEF Pending
  <2>2. Flow(s)'
    BY <1>2, <1>7, <2>1, QuietStep
  <2>3. QED
    BY <1>2, <1>7, <2>2, Zenon DEF ChannelStep
<1>8. CASE Len(body) + n = LengthIn(header) /\ Return(got)
  <2>1. /\ received' = Append(received, got)
        /\ header' = <<>> /\ body' = <<>> /\ failures' = failures
    BY <1>8 DEF Return
  <2>2. Pending(s)' = q
    <3>1. <<>> \o <<>> = <<>> /\ <<>> \o q = q
      BY ONLY <1>3, <1>4, ConcatEmptySeq
    <3>2. QED
      BY <2>1, <3>1, Zenon DEF Pending
  <2> HIDE DEF t, got, q, k
  <2>3. PICK cut : Framed((header \o got) \o q, k, sent, cut)
    BY <1>3, <1>6, Zenon
  <2> DEFINE m == sent[k + 1]
  <2>4. /\ k + 1 \in 1..Len(sent) /\ m \in Messages
        /\ header = Header(Len(Payload[m]))
        /\ Len(got) = Len(Payload[m]) => got = Payload[m] /\ Framed(q, k + 1, sent, cut)
    BY <1>3, <1>4, <1>5, <1>6, <2>3, NextFrame
  <2>5. LengthIn(header) = Len(Payload[m])
    BY <2>4, HeaderOfMessage
  <2>6. got = Payload[m] /\ Framed(q, k + 1, sent, cut)
    BY <1>5, <1>8, <2>4, <2>5, Zenon
  <2>7. /\ Len(received') = k + 1
        /\ \A i \in 1..k : received'[i] = received[i]
        /\ received'[k + 1] = got
        /\ k \in Nat
    BY <1>4, <1>5, <2>1, AppendProperties, LenProperties DEF k
  <2>8. k < Len(sent) /\ k + 1 <= Len(sent) /\ \A i \in 1..(k + 1) : i \in 1..k \/ i = k + 1
    BY ONLY <2>4, <2>7
  <2>9. Delivered'
    BY <1>0, <1>2, <2>6, <2>7, <2>8, Zenon DEF Delivered, k
  <2>10. Flow(s)'
    BY <1>2, <1>6, <2>1, <2>2, <2>6, <2>7, <2>9, Zenon DEF Flow
  <2>11. ChannelStep
    BY <1>2, <2>1, <2>6, <2>8, Zenon DEF ChannelStep, k
  <2>12. QED
    BY <2>10, <2>11
<1>9. QED
  BY <1>1, <1>7, <1>8, Zenon DEF PayloadReceived

\* The end of the stream: whatever the receiver has of a message is dropped.
LEMMA RecvEndFlow ==
    ASSUME NEW s \in Senders, Inv(s), RecvEnd
    PROVE  Flow(s)' /\ ChannelStep
<1>1. /\ closed /\ stream = <<>>
      /\ failures' = TRUE /\ recvPc' = "length" /\ header' = <<>> /\ body' = <<>>
      /\ UNCHANGED <<received, sent, stream, closed>>
  BY DEF RecvEnd, Fail, senderVars
<1>2. Delivered' /\ Ended'
  BY <1>1 DEF Inv, Flow, Delivered, Ended
<1>3. QED
  BY <1>1, <1>2, Zenon DEF Flow, ChannelStep

\* The invariant holds at first, every step keeps it, and every step is one of
\* the channel's.
LEMMA OneSenderStep ==
    ASSUME NEW s, Senders = {s}
    PROVE  /\ Init => Inv(s)
           /\ Inv(s) /\ [Next]_vars => Inv(s)'
           /\ Inv(s) /\ [Next]_vars => ChannelStep
<1>1. s \in Senders /\ \A x \in Senders : x = s
  OBVIOUS
<1>2. Init => Inv(s)
  BY <1>1, InitTypes, InitFlow DEF Inv
<1>3. ASSUME Inv(s), [Next]_vars PROVE Flow(s)' /\ ChannelStep
  <2>1. ASSUME NEW x \in Senders, SendBegin(x) \/ SendSome(x)
        PROVE  Flow(s)' /\ ChannelStep
    <3>1. SendBegin(s) \/ SendSome(s)
      BY <1>1, <2>1
    <3>2. QED
      BY <1>1, <1>3, <3>1, SendBeginFlow, SendSomeFlow
  <2>2. CASE UNCHANGED vars
    <3>1. UNCHANGED <<outbox, unsent, sendPc, sent, stream, closed,
                      recvPc, header, body, failures, received>>
      BY <2>2 DEF vars, senderVars, receiverVars
    <3>2. Flow(s)'
      BY <1>3, <3>1 DEF Inv, Flow, Delivered, Ended, Pending, Onward
    <3>3. QED
      BY <3>1, <3>2, Zenon DEF ChannelStep
  <2>3. QED
    BY <1>1, <1>3, <2>1, <2>2, CloseFlow, RecvLengthFlow, RecvPayloadFlow, RecvEndFlow, Zenon DEF Next
<1>4. Inv(s) /\ [Next]_vars => Inv(s)'
  BY <1>3, NextTypes DEF Inv
<1>5. QED
  BY <1>2, <1>3, <1>4

\* With one sender recv_message fails only when the connection has been closed:
\* the stream never loses its frame.
THEOREM StaysSynchronised ==
    ASSUME NEW s, Senders = {s}
    PROVE  Spec => []NeverDesynchronised
<1>1. Init => Inv(s)
  BY OneSenderStep
<1>2. Inv(s) /\ [Next]_vars => Inv(s)'
  BY OneSenderStep
<1>3. Inv(s) => NeverDesynchronised
  BY DEF Inv, Flow, Ended, NeverDesynchronised
<1>4. QED
  BY <1>1, <1>2, <1>3, PTL DEF Spec

-----------------------------------------------------------------------------
(* The channel. *)

\* The payloads of the messages.
LEMMA PayloadsOf ==
    ASSUME NEW ms \in Seq(Messages)
    PROVE  /\ Payloads(ms) \in Seq(Seq(Byte))
           /\ Len(Payloads(ms)) = Len(ms)
           /\ \A i \in 1..Len(ms) : Payloads(ms)[i] = Payload[ms[i]]
<1>1. Len(ms) \in Nat /\ DOMAIN ms = 1..Len(ms)
  BY LenProperties
<1>2. \A i \in 1..Len(ms) : Payload[ms[i]] \in Seq(Byte)
  BY ElementOfSeq, PayloadBytes
<1>3. Payloads(ms) \in [1..Len(ms) -> Seq(Byte)]
  BY <1>1, <1>2 DEF Payloads
<1>4. Payloads(ms) \in Seq(Seq(Byte))
  BY <1>1, <1>3, SeqDef
<1>5. Len(Payloads(ms)) = Len(ms)
  <2>1. DOMAIN Payloads(ms) = 1..Len(ms)
    BY <1>3
  <2>2. DOMAIN Payloads(ms) = 1..Len(Payloads(ms)) /\ Len(Payloads(ms)) \in Nat
    BY <1>4, LenProperties
  <2>3. QED
    BY <1>1, <2>1, <2>2
<1>6. QED
  BY <1>1, <1>4, <1>5 DEF Payloads

\* One message more is one payload more.
LEMMA PayloadsAppend ==
    ASSUME NEW ms \in Seq(Messages), NEW m \in Messages
    PROVE  Payloads(Append(ms, m)) = Append(Payloads(ms), Payload[m])
<1> DEFINE ms2 == Append(ms, m)
           L == Len(ms)
           a == Payloads(ms2)
           b == Append(Payloads(ms), Payload[m])
<1>1. /\ ms2 \in Seq(Messages) /\ Len(ms2) = L + 1 /\ L \in Nat
      /\ \A i \in 1..L : ms2[i] = ms[i]
      /\ ms2[L + 1] = m
  BY AppendProperties, LenProperties
<1> HIDE DEF ms2
<1>2. /\ a \in Seq(Seq(Byte)) /\ Len(a) = L + 1
      /\ \A i \in 1..(L + 1) : a[i] = Payload[ms2[i]]
  BY <1>1, PayloadsOf
<1>3. /\ Payloads(ms) \in Seq(Seq(Byte)) /\ Len(Payloads(ms)) = L
      /\ \A i \in 1..L : Payloads(ms)[i] = Payload[ms[i]]
      /\ Payload[m] \in Seq(Byte)
  BY PayloadsOf, PayloadBytes
<1>4. /\ b \in Seq(Seq(Byte)) /\ Len(b) = L + 1
      /\ \A i \in 1..L : b[i] = Payloads(ms)[i]
      /\ b[L + 1] = Payload[m]
  BY <1>3, AppendProperties
<1> HIDE DEF a, b, L
<1>5. ASSUME NEW i \in 1..(L + 1) PROVE a[i] = b[i]
  <2>1. i \in 1..L \/ i = L + 1
    BY ONLY <1>1, <1>5
  <2>2. a[i] = Payload[ms2[i]]
    BY ONLY <1>2, <1>5, Zenon
  <2>3. CASE i \in 1..L
    <3>1. b[i] = Payload[ms[i]] /\ ms2[i] = ms[i]
      BY ONLY <1>1, <1>3, <1>4, <2>3, Zenon
    <3>2. QED
      BY ONLY <2>2, <3>1, Zenon
  <2>4. CASE i = L + 1
    <3>1. b[i] = Payload[m] /\ ms2[i] = m
      BY ONLY <1>1, <1>4, <2>4, Zenon
    <3>2. QED
      BY ONLY <2>2, <3>1, Zenon
  <2>5. QED
    BY ONLY <2>1, <2>3, <2>4, Zenon
<1>6. a = b
  BY ONLY <1>2, <1>4, <1>5, SeqEqual
<1>7. QED
  BY <1>6 DEF a, b, ms2

\* With one sender the bytes, however send() and recv() cut them, implement the
\* channel of messages: at first nothing is sent or received, and every step
\* sends a message, receives the one that is next, breaks the connection, or
\* changes nothing of the channel.
THEOREM StepsAreChannelSteps ==
    ASSUME NEW s, Senders = {s}
    PROVE  Spec => Channel!ChannelInit /\ [][Channel!ChannelNext]_(Channel!channelVars)
<1>1. Init => Inv(s)
  BY OneSenderStep
<1>2. Inv(s) /\ [Next]_vars => Inv(s)'
  BY OneSenderStep
<1>3. Init => Channel!ChannelInit
  <2>1. ASSUME Init PROVE sent = <<>> /\ received = <<>> /\ closed = FALSE
    BY <2>1 DEF Init
  <2>2. Payloads(<<>>) = <<>>
    <3>1. <<>> \in Seq(Messages) /\ Len(<<>>) = 0
      BY EmptySeq
    <3>2. Payloads(<<>>) \in Seq(Seq(Byte)) /\ Len(Payloads(<<>>)) = 0
      BY <3>1, PayloadsOf
    <3>3. QED
      BY ONLY <3>2, EmptySeq
  <2>3. QED
    BY <2>1, <2>2, Zenon DEF Channel!ChannelInit
<1>4. Inv(s) /\ [Next]_vars => [Channel!ChannelNext]_(Channel!channelVars)
  <2> SUFFICES ASSUME Inv(s), [Next]_vars
               PROVE  [Channel!ChannelNext]_(Channel!channelVars)
    OBVIOUS
  <2>1. ChannelStep
    BY OneSenderStep
  <2>2. sent \in Seq(Messages) /\ received \in Seq(Seq(Byte)) /\ Len(received) <= Len(sent)
    BY DEF Inv, Flow, Delivered, Types, SenderTypes, ReceiverTypes
  <2>3. CASE UNCHANGED <<sent, received, closed>>
    BY <2>3 DEF Channel!channelVars
  <2>4. CASE /\ ~closed
             /\ \E m \in Messages : sent' = Append(sent, m)
             /\ UNCHANGED <<received, closed>>
    <3>1. PICK m \in Messages : sent' = Append(sent, m)
      BY <2>4
    <3>2. Payloads(sent)' = Append(Payloads(sent), Payload[m])
      BY <2>2, <3>1, PayloadsAppend
    <3>3. Channel!Send(Payload[m])
      BY <2>4, <3>2, Zenon DEF Channel!Send
    <3>4. Payload[m] \in {Payload[x] : x \in Messages}
      OBVIOUS
    <3>5. QED
      BY <3>3, <3>4 DEF Channel!ChannelNext
  <2>5. CASE /\ Len(received) < Len(sent)
             /\ received' = Append(received, Payload[sent[Len(received) + 1]])
             /\ UNCHANGED <<sent, closed>>
    <3>1. Len(received) + 1 \in 1..Len(sent)
      BY <2>2, <2>5, LenProperties
    <3>2. /\ Len(Payloads(sent)) = Len(sent)
          /\ Payloads(sent)[Len(received) + 1] = Payload[sent[Len(received) + 1]]
      BY <2>2, <3>1, PayloadsOf
    <3>3. Channel!Receive
      BY <2>5, <3>2, Zenon DEF Channel!Receive
    <3>4. QED
      BY <3>3 DEF Channel!ChannelNext
  <2>6. CASE ~closed /\ closed' /\ UNCHANGED <<sent, received>>
    <3>1. closed' = TRUE
      <4>1. Types'
        BY NextTypes DEF Inv
      <4>2. QED
        BY <2>6, <4>1 DEF Types, SenderTypes
    <3>2. Channel!Break
      BY <2>6, <3>1, Zenon DEF Channel!Break
    <3>3. QED
      BY <3>2 DEF Channel!ChannelNext
  <2>7. QED
    BY <2>1, <2>3, <2>4, <2>5, <2>6, Zenon DEF ChannelStep
<1>5. QED
  BY <1>1, <1>2, <1>3, <1>4, PTL DEF Spec
=============================================================================
