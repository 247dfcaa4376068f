------------------------------ MODULE TcpRelay ------------------------------
(***************************************************************************)
(* The TCP side of the proxy (proxy/src/TCPHandler.cpp and                 *)
(* proxy/src/TCPConnection.cpp): a listen thread per redirection accepts a *)
(* client, connects to the server and starts two threads, one that         *)
(* forwards what the client sends and one that forwards what the server    *)
(* sends.                                                                  *)
(*                                                                         *)
(* A socket of the proxy is named by the connection it belongs to and the  *)
(* peer at its other end.  A chunk is what one send of a peer carries; the *)
(* fuzz that the proxy appends to it is left out, except where there is    *)
(* nothing it could be appended to.  The peers, the network and what may   *)
(* fail are not part of the code.                                          *)
(***************************************************************************)
EXTENDS Naturals, Sequences, FiniteSets

CONSTANTS
    Listeners,            \* the redirections, each with its listen thread
    Conns,                \* the connections that clients make
    Via,                  \* the redirection that each of them goes through
    None,                 \* no connection
    Limits,               \* how many descriptors the proxy may have
    Ending,               \* the sockets whose peers may end
    Stalling,             \* the sockets whose peers may stop to read
    Failing,              \* what may fail
    MaxSends              \* bound: chunks that each peer sends

Sides == {"client", "server"}
Other(s) == IF s = "client" THEN "server" ELSE "client"
Sockets == Conns \X Sides

ASSUME TcpAssumption ==
    /\ Via \in [Conns -> Listeners]
    /\ None \notin Conns
    /\ Limits \subseteq Nat
    /\ Ending \subseteq Sockets
    /\ Stalling \subseteq Sockets
    /\ Failing \subseteq {"connect", "pthread_create", "malloc", "radamsa"}
    /\ MaxSends \in [Sockets -> Nat]

\* The i-th chunk that the peer at socket k sends.
Chunks == UNION {{k} \X (1..MaxSends[k]) : k \in Sockets}

VARIABLES
    proxyUp,              \* the proxy has neither exited nor been killed
    handlerAlive,         \* the TCPHandler has not been destroyed
    backlog,              \* the connections each listen thread has to accept
    maxFds,               \* how many descriptors it may have
    listenPc, accepted,   \* where it is, and the connection it is working on
    open,                 \* the sockets the proxy has open
    peer,                 \* the state of the peer at each socket
    sent,                 \* how many chunks it has sent
    wire,                 \* the chunks on their way from it
    threadPc,             \* the thread that receives from each socket
    sendFd,               \* the socket it forwards to
    buffer,               \* what it has received
    got,                  \* history: the chunks that were delivered to each peer
    lost,                 \* history: the chunks of each peer that were not sent on
    noise                 \* history: a peer was sent fuzz and nothing else

listenVars == <<handlerAlive, maxFds, backlog, listenPc, accepted>>
peerVars   == <<peer, sent, got, lost, noise>>
threadVars == <<threadPc, sendFd, buffer>>
vars == <<proxyUp, listenVars, open, peerVars, wire, threadVars>>

Init ==
    /\ proxyUp = TRUE
    /\ handlerAlive = TRUE
    /\ maxFds \in Limits
    /\ backlog = [l \in Listeners |-> <<>>]
    /\ listenPc = [l \in Listeners |-> "accept"]
    /\ accepted = [l \in Listeners |-> None]
    /\ open = {}
    /\ peer = [k \in Sockets |-> "none"]
    /\ sent = [k \in Sockets |-> 0]
    /\ wire = [k \in Sockets |-> <<>>]
    /\ threadPc = [k \in Sockets |-> "none"]
    /\ sendFd = [k \in Sockets |-> None]
    /\ buffer = [k \in Sockets |-> <<>>]
    /\ got = [k \in Sockets |-> <<>>]
    /\ lost = [k \in Sockets |-> {}]
    /\ noise = [k \in Sockets |-> FALSE]

\* exit(-1), or a signal: every thread and every connection ends with it.
ProxyDies == proxyUp' = FALSE

-----------------------------------------------------------------------------
(* The peers. *)

ClientConnects(c) ==
    /\ proxyUp
    /\ peer[<<c, "client">>] = "none"
    /\ peer' = [peer EXCEPT ![<<c, "client">>] = "open"]
    /\ backlog' = [backlog EXCEPT ![Via[c]] = Append(@, c)]
    /\ UNCHANGED <<proxyUp, handlerAlive, maxFds, listenPc, accepted, open, sent, got,
                   lost, noise, wire, threadVars>>

PeerSends(k) ==
    /\ proxyUp
    /\ peer[k] \in {"open", "stalled"}
    /\ sent[k] < MaxSends[k]
    /\ sent' = [sent EXCEPT ![k] = @ + 1]
    /\ wire' = [wire EXCEPT ![k] = Append(@, <<k, sent[k] + 1>>)]
    /\ UNCHANGED <<proxyUp, listenVars, open, peer, got, lost, noise, threadVars>>

\* A peer stops to read, and what it is sent soon fills its buffers.
PeerStalls(k) ==
    /\ proxyUp
    /\ k \in Stalling
    /\ peer[k] = "open"
    /\ peer' = [peer EXCEPT ![k] = "stalled"]
    /\ UNCHANGED <<proxyUp, listenVars, open, sent, got, lost, noise, wire, threadVars>>

\* A peer closes the connection, or crashes; with data it had not read the
\* proxy is sent a reset and what was on the way is lost.
PeerEnds(k) ==
    /\ proxyUp
    /\ k \in Ending
    /\ \/ /\ peer[k] = "open"
          /\ peer' = [peer EXCEPT ![k] = "closed"]
          /\ UNCHANGED wire
       \/ /\ peer[k] \in {"open", "stalled"}
          /\ peer' = [peer EXCEPT ![k] = "reset"]
          /\ wire' = [wire EXCEPT ![k] = <<>>]
    /\ UNCHANGED <<proxyUp, listenVars, open, sent, got, lost, noise, threadVars>>

-----------------------------------------------------------------------------
(* The listen threads. *)

Listen(l, from, to) ==
    /\ proxyUp
    /\ listenPc[l] = from
    /\ listenPc' = [listenPc EXCEPT ![l] = to]

\* accept; without a descriptor it fails, and is tried again after three
\* seconds.
ListenAccept(l) ==
    /\ Listen(l, "accept", "connect")
    /\ backlog[l] # <<>>
    /\ Cardinality(open) < maxFds
    /\ accepted' = [accepted EXCEPT ![l] = Head(backlog[l])]
    /\ backlog' = [backlog EXCEPT ![l] = Tail(@)]
    /\ open' = open \cup {<<Head(backlog[l]), "client">>}
    /\ UNCHANGED <<proxyUp, handlerAlive, maxFds, peerVars, wire, threadVars>>

\* socket and, a second later, connect: either failure ends the proxy.
ListenConnect(l) ==
    LET k == <<accepted[l], "server">> IN
    \/ /\ Listen(l, "connect", "pair")
       /\ Cardinality(open) < maxFds
       /\ open' = open \cup {k}
       /\ peer' = [peer EXCEPT ![k] = "open"]
       /\ UNCHANGED <<proxyUp, handlerAlive, maxFds, backlog, accepted, sent, got,
                      lost, noise, wire, threadVars>>
    \/ /\ Listen(l, "connect", "connect")
       /\ "connect" \in Failing \/ Cardinality(open) >= maxFds
       /\ ProxyDies
       /\ UNCHANGED <<handlerAlive, maxFds, backlog, accepted, open, peerVars, wire,
                      threadVars>>

\* Mutated forms: the threads are given the pair by address; only the thread of
\* the client is started.
ListenPairByAddress(l) ==
    LET c == accepted[l] IN
    /\ Listen(l, "pair", "accept")
    /\ accepted' = [accepted EXCEPT ![l] = None]
    /\ threadPc' = [k \in Sockets |-> IF k[1] = c THEN "recv" ELSE threadPc[k]]
    /\ sendFd' = [k \in Sockets |-> IF k[1] = c THEN <<accepted'[l], Other(k[2])>> ELSE sendFd[k]]
    /\ UNCHANGED <<proxyUp, handlerAlive, maxFds, backlog, open, peerVars, wire, buffer>>

ListenPairOneWay(l) ==
    LET k == <<accepted[l], "client">> IN
    /\ Listen(l, "pair", "accept")
    /\ accepted' = [accepted EXCEPT ![l] = None]
    /\ threadPc' = [threadPc EXCEPT ![k] = "recv"]
    /\ sendFd' = [sendFd EXCEPT ![k] = <<k[1], "server">>]
    /\ UNCHANGED <<proxyUp, handlerAlive, maxFds, backlog, open, peerVars, wire, buffer>>

\* startChannelThreads gives each thread the two sockets by value.  That one is
\* not created is never noticed: pthread_create returns a positive errno and the
\* code waits for a negative one.  The arguments are written to what malloc
\* returned.  addChannelPair then writes to the handler, whose destructor has run
\* when main has left its try block.
ListenPair(l) ==
    LET c == accepted[l] IN
    /\ Listen(l, "pair", "accept")
    /\ accepted' = [accepted EXCEPT ![l] = None]
    /\ \E started \in SUBSET Sides :
        /\ "pthread_create" \in Failing \/ started = Sides
        /\ threadPc' = [k \in Sockets |->
              IF k[1] # c THEN threadPc[k]
              ELSE IF k[2] \in started THEN "recv" ELSE "missing"]
    /\ sendFd' = [k \in Sockets |-> IF k[1] = c THEN <<c, Other(k[2])>> ELSE sendFd[k]]
    /\ \/ UNCHANGED proxyUp
       \/ ~handlerAlive /\ ProxyDies
       \/ "malloc" \in Failing /\ ProxyDies
    /\ UNCHANGED <<handlerAlive, maxFds, backlog, open, peerVars, wire, buffer>>

\* main: proxy goes out of scope, and the handler with it.
MainLeavesTry ==
    /\ proxyUp
    /\ handlerAlive
    /\ handlerAlive' = FALSE
    /\ UNCHANGED <<proxyUp, maxFds, backlog, listenPc, accepted, open, peerVars, wire,
                   threadVars>>

-----------------------------------------------------------------------------
(* The connection threads. *)

Thread(k, from, to) ==
    /\ proxyUp
    /\ threadPc[k] = from
    /\ threadPc' = [threadPc EXCEPT ![k] = to]

\* Mutated form: the buffer is static.
ThreadRecvStatic(k) ==
    /\ Thread(k, "recv", "fuzz")
    /\ peer[k] # "reset"
    /\ \E n \in 1..Len(wire[k]) :
        /\ buffer' = [j \in Sockets |-> SubSeq(wire[k], 1, n)]
        /\ wire' = [wire EXCEPT ![k] = SubSeq(@, n + 1, Len(@))]
    /\ UNCHANGED <<proxyUp, listenVars, open, peerVars, sendFd>>

\* recv takes some of what there is.
ThreadRecv(k) ==
    /\ Thread(k, "recv", "fuzz")
    /\ peer[k] # "reset"
    /\ \E n \in 1..Len(wire[k]) :
        /\ buffer' = [buffer EXCEPT ![k] = SubSeq(wire[k], 1, n)]
        /\ wire' = [wire EXCEPT ![k] = SubSeq(@, n + 1, Len(@))]
    /\ UNCHANGED <<proxyUp, listenVars, open, peerVars, sendFd>>

\* recv returns 0, which is not told from data.
ThreadRecvEnd(k) ==
    /\ Thread(k, "recv", "fuzz")
    /\ peer[k] = "closed"
    /\ wire[k] = <<>>
    /\ buffer' = [buffer EXCEPT ![k] = <<>>]
    /\ UNCHANGED <<proxyUp, listenVars, open, peerVars, wire, sendFd>>

\* recv returns -1: exit(-1).
ThreadRecvError(k) ==
    /\ Thread(k, "recv", "recv")
    /\ peer[k] = "reset"
    /\ ProxyDies
    /\ UNCHANGED <<listenVars, open, peerVars, wire, sendFd, buffer>>

Received(k) == {buffer[k][i] : i \in DOMAIN buffer[k]}

\* postFuzzing: what was received with its fuzz, or a null pointer when a malloc
\* failed.  It does not return when runRadamsa waits for an end of input that
\* does not come, or when there is nothing that runRadamsaExpanded could repeat
\* until it is long enough.
ThreadFuzz(k) ==
    /\ \/ /\ Thread(k, "fuzz", "send")
          /\ UNCHANGED lost
       \/ /\ "malloc" \in Failing
          /\ Thread(k, "fuzz", "sendNull")
          /\ lost' = [lost EXCEPT ![k] = @ \cup Received(k)]
       \/ /\ "radamsa" \in Failing \/ buffer[k] = <<>>
          /\ Thread(k, "fuzz", "stuck")
          /\ UNCHANGED lost
    /\ UNCHANGED <<proxyUp, listenVars, open, peer, sent, got, noise, wire, sendFd, buffer>>

\* send, whose result nobody looks at.  It waits for a peer that does not read.
\* A peer that has closed answers with a reset; after a reset the send may raise
\* a SIGPIPE.
ThreadSend(k) ==
    LET to == sendFd[k] IN
    /\ Thread(k, "send", "recv")
    /\ \/ /\ peer[to] = "open"
          /\ got' = [got EXCEPT ![to] = @ \o buffer[k]]
          /\ noise' = [noise EXCEPT ![to] = @ \/ buffer[k] = <<>>]
          /\ UNCHANGED <<proxyUp, peer, wire>>
       \/ /\ peer[to] = "closed"
          /\ peer' = [peer EXCEPT ![to] = "reset"]
          /\ wire' = [wire EXCEPT ![to] = <<>>]
          /\ UNCHANGED <<proxyUp, got, noise>>
       \/ /\ peer[to] = "reset"
          /\ proxyUp' \in BOOLEAN
          /\ UNCHANGED <<peer, wire, got, noise>>
    /\ UNCHANGED <<listenVars, open, sent, lost, sendFd, buffer>>

\* send of no bytes: the peer sees nothing of it.
ThreadSendNothing(k) ==
    /\ Thread(k, "sendNull", "recv")
    /\ \/ UNCHANGED proxyUp
       \/ peer[sendFd[k]] = "reset" /\ ProxyDies
    /\ UNCHANGED <<listenVars, open, peerVars, wire, sendFd, buffer>>

-----------------------------------------------------------------------------
ListenStep(l) == ListenAccept(l) \/ ListenConnect(l) \/ ListenPair(l)

ThreadStep(k) ==
    \/ ThreadRecv(k)
    \/ ThreadRecvEnd(k)
    \/ ThreadRecvError(k)
    \/ ThreadFuzz(k)
    \/ ThreadSend(k)
    \/ ThreadSendNothing(k)

Next ==
    \/ \E c \in Conns : ClientConnects(c)
    \/ \E k \in Sockets : PeerSends(k) \/ PeerStalls(k) \/ PeerEnds(k)
    \/ \E l \in Listeners : ListenStep(l)
    \/ MainLeavesTry
    \/ \E k \in Sockets : ThreadStep(k)

Spec == Init /\ [][Next]_vars

\* The threads of the proxy run; nothing obliges a peer to do anything.
FairSpec ==
    /\ Spec
    /\ \A l \in Listeners : WF_vars(ListenStep(l))
    /\ \A k \in Sockets : WF_vars(ThreadStep(k))

-----------------------------------------------------------------------------
(* Properties. *)

\* Type invariant.
TypeOK ==
    /\ proxyUp \in BOOLEAN
    /\ handlerAlive \in BOOLEAN
    /\ maxFds \in Limits
    /\ backlog \in [Listeners -> Seq(Conns)]
    /\ listenPc \in [Listeners -> {"accept", "connect", "pair"}]
    /\ accepted \in [Listeners -> Conns \cup {None}]
    /\ open \subseteq Sockets /\ Cardinality(open) <= maxFds
    /\ peer \in [Sockets -> {"none", "open", "stalled", "closed", "reset"}]
    /\ \A k \in Sockets : sent[k] \in 0..MaxSends[k]
    /\ wire \in [Sockets -> Seq(Chunks)]
    /\ threadPc \in [Sockets -> {"none", "missing", "recv", "fuzz", "send", "sendNull", "stuck"}]
    /\ sendFd \in [Sockets -> Sockets \cup {None}]
    /\ buffer \in [Sockets -> Seq(Chunks)]
    /\ got \in [Sockets -> Seq(Chunks)]
    /\ lost \in [Sockets -> SUBSET Chunks]
    /\ noise \in [Sockets -> BOOLEAN]

\* A peer is delivered what the other peer of its own connection sent, in order
\* and nothing twice, however the connections and the threads interleave.  A gap
\* is what a failed malloc lost, and fuzz alone comes only when that other peer
\* has ended.
InOrder ==
    \A c \in Conns, s \in Sides :
        LET from == <<c, s>>
            data == got[<<c, Other(s)>>]
        IN  /\ \A i \in DOMAIN data : data[i][1] = from
            /\ \A i, j \in DOMAIN data : i < j => data[i][2] < data[j][2]
            /\ \A i \in DOMAIN data : \A n \in 1..data[i][2] :
                   <<from, n>> \in lost[from] \/ \E j \in DOMAIN data : data[j] = <<from, n>>
            /\ noise[<<c, Other(s)>>] => peer[from] \in {"closed", "reset"}

\* What keeps the chunks of socket k from being received for good: its thread was
\* not created, does not come back from radamsa or waits for a peer that does not
\* read, or its connection is not accepted for want of a descriptor.
Excused(k) ==
    \/ threadPc[k] \in {"missing", "stuck"}
    \/ threadPc[k] = "send" /\ peer[sendFd[k]] = "stalled"
    \/ /\ Cardinality(open) >= maxFds
       /\ \E i \in DOMAIN backlog[Via[k[1]]] : backlog[Via[k[1]]][i] = k[1]

\* A chunk is received from its socket unless the proxy or the peer that sent
\* it is gone, or its own connection is excused: a listen thread that is busy
\* with one client, or a thread of another connection that is stuck, does not
\* keep the others from being served.
EveryChunkTaken ==
    \A k \in Sockets : wire[k] # <<>> ~> wire[k] = <<>> \/ ~proxyUp \/ Excused(k)
=============================================================================
