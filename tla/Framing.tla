------------------------------ MODULE Framing ------------------------------
(***************************************************************************)
(* The messages of the launchers as bytes: send_message and recv_message   *)
(* (the same code in luncher/server/src/Server.cpp and                     *)
(* luncher/client/src/Client.cpp) over one direction of a TCP connection.  *)
(*                                                                         *)
(* A message is its length, a size_t, and then its payload, each handed to *)
(* send() as often as it takes.  The sender threads share the socket       *)
(* without a lock: the monitor_child threads of a client launcher on one   *)
(* side, main and a handler of the server launcher on the other.  One      *)
(* thread receives.                                                        *)
(***************************************************************************)
EXTENDS Naturals, Sequences

CONSTANTS
    Senders,              \* the threads that send
    Messages,             \* what they send
    Payload,              \* the bytes of each message
    Outbox,               \* the messages each thread sends, in order
    MaxMsgSize,           \* MAX_MSG_SIZE
    SocketCap             \* bound: bytes on the way

ASSUME FramingAssumption ==
    /\ MaxMsgSize \in Nat \ {0} /\ MaxMsgSize < 256 * 256
    /\ Payload \in [Messages -> Seq(0..255)]
    /\ \A m \in Messages : Len(Payload[m]) \in 1..255 /\ Len(Payload[m]) <= MaxMsgSize
    /\ Outbox \in [Senders -> Seq(Messages)]
    /\ SocketCap \in Nat \ {0}

VARIABLES
    outbox,               \* the messages each thread has still to finish
    unsent,               \* what is left of the buffer each thread is sending
    sendPc,               \* where each thread is in send_message
    stream,               \* the bytes on the way
    closed,               \* the sending process is gone
    recvPc,               \* where the receiver is in recv_message
    header,               \* the bytes of len it has
    body,                 \* the bytes of the payload it has
    failures,             \* recv_message has returned -1
    sent, received        \* history: the messages begun, the payloads returned

senderVars == <<outbox, unsent, sendPc, sent>>
receiverVars == <<recvPc, header, body, failures, received>>
vars == <<senderVars, stream, closed, receiverVars>>

HeaderSize == 8           \* sizeof(size_t)

Min2(a, b) == IF a < b THEN a ELSE b
Take(s, n) == SubSeq(s, 1, n)
Drop(s, n) == SubSeq(s, n + 1, Len(s))

\* A size_t as the machine stores it, for the lengths that messages have.
Header(n) == [i \in 1..HeaderSize |-> IF i = 1 THEN n ELSE 0]

\* The length eight bytes stand for is more than MaxMsgSize; the length itself
\* when it is not.
TooLong(h) ==
    \/ \E i \in 3..HeaderSize : h[i] # 0
    \/ h[1] + 256 * h[2] > MaxMsgSize
LengthIn(h) == h[1] + 256 * h[2]

Init ==
    /\ outbox = Outbox
    /\ unsent = [s \in Senders |-> <<>>]
    /\ sendPc = [s \in Senders |-> "idle"]
    /\ stream = <<>>
    /\ closed = FALSE
    /\ recvPc = "length"
    /\ header = <<>>
    /\ body = <<>>
    /\ failures = FALSE
    /\ sent = <<>>
    /\ received = <<>>

-----------------------------------------------------------------------------
(* send_message *)

SendBegin(s) ==
    /\ sendPc[s] = "idle"
    /\ ~closed
    /\ outbox[s] # <<>>
    /\ sendPc' = [sendPc EXCEPT ![s] = "length"]
    /\ unsent' = [unsent EXCEPT ![s] = Header(Len(Payload[Head(outbox[s])]))]
    /\ sent' = Append(sent, Head(outbox[s]))
    /\ UNCHANGED <<outbox, stream, closed, receiverVars>>

\* Mutated form: what one send() did not take is given up.
SendSomeOnce(s) ==
    /\ sendPc[s] # "idle"
    /\ ~closed
    /\ \E n \in 1..Min2(Len(unsent[s]), SocketCap - Len(stream)) :
        /\ stream' = stream \o Take(unsent[s], n)
        /\ IF sendPc[s] = "length"
           THEN /\ unsent' = [unsent EXCEPT ![s] = Payload[Head(outbox[s])]]
                /\ sendPc' = [sendPc EXCEPT ![s] = "payload"]
                /\ UNCHANGED outbox
           ELSE /\ unsent' = [unsent EXCEPT ![s] = <<>>]
                /\ sendPc' = [sendPc EXCEPT ![s] = "idle"]
                /\ outbox' = [outbox EXCEPT ![s] = Tail(@)]
    /\ UNCHANGED <<sent, closed, receiverVars>>

\* send() takes as much of the buffer as it likes, and waits when there is no
\* room; when the length is out the payload follows.
SendSome(s) ==
    /\ sendPc[s] # "idle"
    /\ ~closed
    /\ \E n \in 1..Min2(Len(unsent[s]), SocketCap - Len(stream)) :
        /\ stream' = stream \o Take(unsent[s], n)
        /\ IF n < Len(unsent[s])
           THEN /\ unsent' = [unsent EXCEPT ![s] = Drop(@, n)]
                /\ UNCHANGED <<sendPc, outbox>>
           ELSE IF sendPc[s] = "length"
           THEN /\ unsent' = [unsent EXCEPT ![s] = Payload[Head(outbox[s])]]
                /\ sendPc' = [sendPc EXCEPT ![s] = "payload"]
                /\ UNCHANGED outbox
           ELSE /\ unsent' = [unsent EXCEPT ![s] = <<>>]
                /\ sendPc' = [sendPc EXCEPT ![s] = "idle"]
                /\ outbox' = [outbox EXCEPT ![s] = Tail(@)]
    /\ UNCHANGED <<sent, closed, receiverVars>>

\* The process of the senders ends, possibly in the middle of a message.
Close ==
    /\ ~closed
    /\ closed' = TRUE
    /\ UNCHANGED <<senderVars, stream, receiverVars>>

-----------------------------------------------------------------------------
(* recv_message, called again and again; a failure is not looked at *)

Fail ==
    /\ failures' = TRUE
    /\ recvPc' = "length"
    /\ header' = <<>>
    /\ body' = <<>>
    /\ UNCHANGED received

Return(payload) ==
    /\ received' = Append(received, payload)
    /\ recvPc' = "length"
    /\ header' = <<>>
    /\ body' = <<>>
    /\ UNCHANGED failures

\* Mutated form: the length is received into whatever room there is.
RecvLengthAll ==
    /\ recvPc = "length"
    /\ stream # <<>>
    /\ header' = header \o stream
    /\ stream' = <<>>
    /\ recvPc' = IF Len(header') < HeaderSize THEN "length" ELSE "payload"
    /\ UNCHANGED <<body, failures, received, senderVars, closed>>

\* recv() gets what there is, but no more than is missing.  A length that is
\* too large is an error, and the payload that follows it stays in the stream.
RecvLength ==
    /\ recvPc = "length"
    /\ stream # <<>>
    /\ LET n == Min2(HeaderSize - Len(header), Len(stream))
           got == header \o Take(stream, n)
       IN  /\ stream' = Drop(stream, n)
           /\ CASE Len(got) < HeaderSize ->
                     header' = got /\ UNCHANGED <<recvPc, body, failures, received>>
                [] Len(got) = HeaderSize /\ TooLong(got) -> Fail
                [] Len(got) = HeaderSize /\ ~TooLong(got) /\ LengthIn(got) = 0 -> Return(<<>>)
                [] OTHER ->
                     header' = got /\ recvPc' = "payload" /\ UNCHANGED <<body, failures, received>>
    /\ UNCHANGED <<senderVars, closed>>

RecvPayload ==
    /\ recvPc = "payload"
    /\ stream # <<>>
    /\ LET n == Min2(LengthIn(header) - Len(body), Len(stream))
           got == body \o Take(stream, n)
       IN  /\ stream' = Drop(stream, n)
           /\ IF Len(got) < LengthIn(header)
              THEN body' = got /\ UNCHANGED <<recvPc, header, failures, received>>
              ELSE Return(got)
    /\ UNCHANGED <<senderVars, closed>>

\* Mutated form: what has been received of the payload is returned.
RecvEndReturns ==
    /\ closed
    /\ stream = <<>>
    /\ IF recvPc = "payload" THEN Return(body) ELSE Fail
    /\ UNCHANGED <<senderVars, stream, closed>>

\* recv() returns 0 at the end of the stream, and does so ever after.
RecvEnd ==
    /\ closed
    /\ stream = <<>>
    /\ Fail
    /\ UNCHANGED <<senderVars, stream, closed>>

-----------------------------------------------------------------------------
Next ==
    \/ \E s \in Senders : SendBegin(s) \/ SendSome(s)
    \/ Close
    \/ RecvLength
    \/ RecvPayload
    \/ RecvEnd

Spec == Init /\ [][Next]_vars

\* The threads run; nothing obliges the sending process to end.
FairSpec ==
    /\ Spec
    /\ \A s \in Senders : WF_vars(SendBegin(s)) /\ SF_vars(SendSome(s))
    /\ WF_vars(RecvLength \/ RecvPayload)

-----------------------------------------------------------------------------
(* Properties. *)

\* Type invariant: what the two functions keep of a message never outgrows it.
TypeOK ==
    /\ \A s \in Senders : sendPc[s] \in {"idle", "length", "payload"}
    /\ Len(stream) <= SocketCap
    /\ closed \in BOOLEAN
    /\ recvPc \in {"length", "payload"}
    /\ Len(header) <= HeaderSize
    /\ recvPc = "payload" => Len(header) = HeaderSize /\ Len(body) < MaxMsgSize

Payloads(ms) == [i \in DOMAIN ms |-> Payload[ms[i]]]

\* With one sender the stream never loses its frame: recv_message only fails
\* when the connection has been closed.
NeverDesynchronised == failures => closed

\* A connection that is closed in the middle of a message does not make the
\* receiver return anything that was not sent.
Channel ==
    INSTANCE MessageChannel
        WITH Messages <- {Payload[m] : m \in Messages},
             sent <- Payloads(sent),
             received <- received,
             broken <- closed

ImplementsChannel == Channel!ChannelSpec

\* When every thread has sent its message and the connection holds, one of them
\* at least is received as it was sent: the handler of the server launcher
\* learns that something crashed.
SomeMessageArrives ==
    (\A s \in Senders : outbox[s] = <<>>) ~>
        \/ \E i \in DOMAIN received, m \in Messages : received[i] = Payload[m]
        \/ closed
=============================================================================
