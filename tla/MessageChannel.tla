--------------------------- MODULE MessageChannel ---------------------------
(***************************************************************************)
(* What send_message and recv_message of the launchers promise together: a *)
(* message that is received was sent, messages are received in the order   *)
(* in which they were sent and once each, until the connection breaks.     *)
(***************************************************************************)
EXTENDS Naturals, Sequences

CONSTANT Messages

VARIABLES
    sent,                 \* the messages sent so far, in order
    received,             \* the messages received so far, in order
    broken                \* the connection is gone

channelVars == <<sent, received, broken>>

ChannelInit ==
    /\ sent = <<>>
    /\ received = <<>>
    /\ broken = FALSE

Send(m) ==
    /\ ~broken
    /\ sent' = Append(sent, m)
    /\ UNCHANGED <<received, broken>>

Receive ==
    /\ Len(received) < Len(sent)
    /\ received' = Append(received, sent[Len(received) + 1])
    /\ UNCHANGED <<sent, broken>>

Break ==
    /\ ~broken
    /\ broken' = TRUE
    /\ UNCHANGED <<sent, received>>

ChannelNext ==
    \/ \E m \in Messages : Send(m)
    \/ Receive
    \/ Break

\* What was sent is received as long as the connection holds.
ChannelSpec ==
    /\ ChannelInit
    /\ [][ChannelNext]_channelVars
    /\ WF_channelVars(~broken /\ Receive)
=============================================================================
