------------------------------ MODULE UdpRelay ------------------------------
(***************************************************************************)
(* One UDP connection of the proxy (proxy/src/UDPHandler.cpp and           *)
(* proxy/inc/UDPConnection.hpp): two entities, A and B, four sockets with  *)
(* a thread each, and the queue of dynamic ports the threads share.        *)
(*                                                                         *)
(* An entity's datagrams reach the recv socket of its side.  The recv      *)
(* thread forwards them to the other entity from the send socket of the    *)
(* other side, where that entity's answers arrive; the send thread takes   *)
(* the answers back.  A side whose port is not known in advance (-1) is    *)
(* Dynamic: its source ports are queued and the answers are sent to the    *)
(* port at the head of the queue.                                          *)
(*                                                                         *)
(* Of a payload only whether there is one is kept; a datagram carries the  *)
(* port of the request it belongs to.  The entities are not part of the    *)
(* code: they send requests and answer them once each, in order.           *)
(***************************************************************************)
EXTENDS Naturals, Sequences

CONSTANTS
    Dynamic,              \* -1 in the configuration
    Port,                 \* the configured port of each side, or Dynamic
    Ports,                \* the ports each entity really sends from
    NoPort,               \* 65535: what htons makes of -1
    Requesters,           \* the sides whose entity sends requests
    EmptyDatagrams,       \* whether requests and answers may be empty
    MayIgnore,            \* whether an entity may leave a request unanswered
    Failing,              \* what may fail
    MaxRequests           \* bound: requests sent

Sides == {"A", "B"}
Other(s) == IF s = "A" THEN "B" ELSE "A"

ASSUME RelayAssumption ==
    /\ \A s \in Sides : Port[s] = Dynamic \/ Ports[s] = {Port[s]}
    /\ Ports["A"] \cap Ports["B"] = {}
    /\ \A s \in Sides : NoPort \notin Ports[s] /\ Dynamic \notin Ports[s]
    /\ Requesters \subseteq Sides
    /\ EmptyDatagrams \in BOOLEAN
    /\ MayIgnore \in BOOLEAN
    /\ Failing \subseteq {"pthread_create", "malloc", "radamsa"}
    /\ MaxRequests \in Nat

AllPorts == Ports["A"] \cup Ports["B"] \cup {NoPort}

\* The sockets of recv_sockets_ and send_sockets_, named by the entity whose
\* datagrams arrive there.
Sockets == {"recv", "send"} \X Sides
Recv(s) == <<"recv", s>>
Send(s) == <<"send", s>>

\* A datagram as a thread of the proxy receives it.
Datagram == [from : AllPorts, request : AllPorts, empty : BOOLEAN]

\* A datagram as it arrives at an entity: on which port, and from which of the
\* two sockets of the other side.
Delivery == [to : AllPorts, via : {"recv", "send"}, request : AllPorts, empty : BOOLEAN]

VARIABLES
    proxyUp,              \* the proxy has neither exited nor been killed
    handlerAlive,         \* the UDPHandler, with its fuzzer, has not been destroyed
    queue,                \* dynamic_ports_
    inbox,                \* the datagrams waiting at each socket
    pc,                   \* where the thread of each socket is
    current,              \* the datagram it is working on
    target,               \* its target_port
    delivered,            \* the datagrams waiting at each entity
    requests              \* bound counter: the requests sent

process == <<proxyUp, handlerAlive>>
vars == <<process, queue, inbox, pc, current, target, delivered, requests>>

NoDatagram == [from |-> NoPort, request |-> NoPort, empty |-> FALSE]

\* startSendThreads starts no thread when both ports are configured.
SendThreads == \E s \in Sides : Port[s] = Dynamic

\* The constructor of ProxyBase has started the threads, or reported that it could
\* not start one of them and gone on.
Init ==
    /\ proxyUp = TRUE
    /\ handlerAlive = TRUE
    /\ queue = <<>>
    /\ inbox = [k \in Sockets |-> <<>>]
    /\ \E missing \in SUBSET Sockets :
        /\ "pthread_create" \in Failing \/ missing = {}
        /\ pc = [k \in Sockets |-> IF k[1] = "send" /\ ~SendThreads THEN "none"
                                  ELSE IF k \in missing THEN "missing" ELSE "recvfrom"]
    /\ current = [k \in Sockets |-> NoDatagram]
    /\ target = [k \in Sockets |-> NoPort]
    /\ delivered = [s \in Sides |-> <<>>]
    /\ requests = 0

Goto(k, from, to) ==
    /\ proxyUp
    /\ pc[k] = from
    /\ pc' = [pc EXCEPT ![k] = to]

-----------------------------------------------------------------------------
(* The process. *)

\* It is killed by a restart, or ended by a TCP thread or by an allocation that
\* throws.
ProxyEnds ==
    /\ proxyUp
    /\ proxyUp' = FALSE
    /\ UNCHANGED <<handlerAlive, queue, inbox, pc, current, target, delivered, requests>>

\* main: proxy goes out of scope, and the handler and its fuzzer with it; the
\* threads still find both at their old address.
MainLeavesTry ==
    /\ proxyUp
    /\ handlerAlive
    /\ handlerAlive' = FALSE
    /\ UNCHANGED <<proxyUp, queue, inbox, pc, current, target, delivered, requests>>

-----------------------------------------------------------------------------
(* The entities. *)

\* The entity of side s sends a request; the redirection of its container
\* takes it to the recv socket of the side.
EntityRequests(s) ==
    /\ proxyUp
    /\ requests < MaxRequests
    /\ requests' = requests + 1
    /\ \E p \in Ports[s], empty \in {FALSE, EmptyDatagrams} :
        inbox' = [inbox EXCEPT ![Recv(s)] =
                     Append(@, [from |-> p, request |-> p, empty |-> empty])]
    /\ UNCHANGED <<process, queue, pc, current, target, delivered>>

\* It answers a request, if it comes to a port it has, to where it came from,
\* with nothing perhaps when there was nothing in it; and it only takes note of an
\* answer.
EntityReceives(s) ==
    /\ proxyUp
    /\ delivered[s] # <<>>
    /\ delivered' = [delivered EXCEPT ![s] = Tail(@)]
    /\ LET d == Head(delivered[s])
           isRequest == d.via = "send" /\ d.to \in Ports[s]
       IN  \/ /\ isRequest
              /\ \E empty \in {FALSE, EmptyDatagrams \/ d.empty} :
                  inbox' = [inbox EXCEPT ![Send(s)] =
                      Append(@, [from |-> d.to, request |-> d.request, empty |-> empty])]
           \/ /\ ~isRequest \/ MayIgnore
              /\ UNCHANGED inbox
    /\ UNCHANGED <<process, queue, pc, current, target, requests>>

-----------------------------------------------------------------------------
(* The threads of the proxy. *)

\* recvfrom.  An empty datagram ends the thread and closes its socket, as an
\* error would.
Receive(k) ==
    /\ inbox[k] # <<>>
    /\ inbox' = [inbox EXCEPT ![k] = Tail(@)]
    /\ current' = [current EXCEPT ![k] = Head(inbox[k])]
    /\ Goto(k, "recvfrom", IF Head(inbox[k]).empty THEN "closed" ELSE "target")
    /\ UNCHANGED <<process, queue, target, delivered, requests>>

\* Mutated form: the newest port is taken.
ChooseTargetNewest(k, otherwise) ==
    LET configured == Port[Other(k[2])] IN
    IF configured # Dynamic
    THEN target' = [target EXCEPT ![k] = configured] /\ UNCHANGED queue
    ELSE IF queue # <<>>
    THEN /\ target' = [target EXCEPT ![k] = queue[Len(queue)]]
         /\ queue' = SubSeq(queue, 1, Len(queue) - 1)
    ELSE target' = [target EXCEPT ![k] = otherwise] /\ UNCHANGED queue

\* Where the datagram goes: the configured port of the other side, or the head
\* of the queue, or, when the queue is empty, otherwise.
ChooseTarget(k, otherwise) ==
    LET configured == Port[Other(k[2])] IN
    IF configured # Dynamic
    THEN target' = [target EXCEPT ![k] = configured] /\ UNCHANGED queue
    ELSE IF queue # <<>>
    THEN target' = [target EXCEPT ![k] = Head(queue)] /\ queue' = Tail(queue)
    ELSE target' = [target EXCEPT ![k] = otherwise] /\ UNCHANGED queue

\* recvThreadEntry leaves -1 when there is nothing to pop.
RecvTarget(s) ==
    /\ Goto(Recv(s), "target", "store")
    /\ ChooseTarget(Recv(s), NoPort)
    /\ UNCHANGED <<process, inbox, current, delivered, requests>>

\* Mutated forms: the port of the configuration is pushed; the port is pushed
\* only when it is a new one.
RecvStoreConfigured(s) ==
    /\ Goto(Recv(s), "store", "sendto")
    /\ queue' = Append(queue, Port[s])
    /\ UNCHANGED <<process, inbox, current, target, delivered, requests>>

RecvStoreNew(s) ==
    /\ Goto(Recv(s), "store", "sendto")
    /\ queue' = IF Port[s] = Dynamic /\ \A i \in DOMAIN queue : queue[i] # current[Recv(s)].from
                THEN Append(queue, current[Recv(s)].from) ELSE queue
    /\ UNCHANGED <<process, inbox, current, target, delivered, requests>>

\* pushDynamicPort, a second critical section.
RecvStore(s) ==
    /\ Goto(Recv(s), "store", "sendto")
    /\ queue' = IF Port[s] = Dynamic THEN Append(queue, current[Recv(s)].from) ELSE queue
    /\ UNCHANGED <<process, inbox, current, target, delivered, requests>>

\* Mutated form: a send thread queues its ports as a recv thread does.
SendTargetStore(s) ==
    /\ Goto(Send(s), "target", "sendto")
    /\ target' = [target EXCEPT ![Send(s)] = IF queue = <<>> THEN current[Send(s)].from ELSE Head(queue)]
    /\ queue' = IF queue = <<>> THEN queue ELSE Append(Tail(queue), current[Send(s)].from)
    /\ UNCHANGED <<process, inbox, current, delivered, requests>>

\* sendThreadEntry falls back to the port the datagram came from.
SendTarget(s) ==
    /\ Goto(Send(s), "target", "sendto")
    /\ ChooseTarget(Send(s), current[Send(s)].from)
    /\ UNCHANGED <<process, inbox, current, delivered, requests>>

\* The socket of the other side a thread sends from: the recv thread uses the
\* send socket, the send thread the recv socket.
Exit(k) == IF k[1] = "recv" THEN Send(Other(k[2])) ELSE Recv(Other(k[2]))

\* Mutated form: the thread ends with its first datagram.
ForwardOnce(k) ==
    /\ Goto(k, "sendto", "closed")
    /\ delivered' = [delivered EXCEPT ![Other(k[2])] =
                        Append(@, [to      |-> target[k],
                                   via     |-> Exit(k)[1],
                                   request |-> current[k].request,
                                   empty   |-> FALSE])]
    /\ UNCHANGED <<process, queue, inbox, current, target, requests>>

\* postFuzzing and sendto.  A null result is sent as an empty datagram; on a
\* socket that was closed sendto fails.  postFuzzing does not return when
\* runRadamsa waits for an end of input that does not come, or runs with what has
\* become of the arguments of a fuzzer that was freed.
Forward(k) ==
    /\ \/ /\ Goto(k, "sendto", "recvfrom")
          /\ \E empty \in {FALSE, "malloc" \in Failing} :
              delivered' = IF pc[Exit(k)] = "closed" THEN delivered
                           ELSE [delivered EXCEPT ![Other(k[2])] =
                               Append(@, [to      |-> target[k],
                                          via     |-> Exit(k)[1],
                                          request |-> current[k].request,
                                          empty   |-> empty])]
       \/ /\ "radamsa" \in Failing \/ ~handlerAlive
          /\ Goto(k, "sendto", "stuck")
          /\ UNCHANGED delivered
    /\ UNCHANGED <<process, queue, inbox, current, target, requests>>

-----------------------------------------------------------------------------
ThreadStep(k) ==
    \/ Receive(k)
    \/ k[1] = "recv" /\ RecvTarget(k[2])
    \/ k[1] = "recv" /\ RecvStore(k[2])
    \/ k[1] = "send" /\ SendTarget(k[2])
    \/ Forward(k)

Next ==
    \/ ProxyEnds
    \/ MainLeavesTry
    \/ \E s \in Requesters : EntityRequests(s)
    \/ \E s \in Sides : EntityReceives(s)
    \/ \E k \in Sockets : ThreadStep(k)

Spec == Init /\ [][Next]_vars

\* The threads of the proxy run.
FairSpec == Spec /\ \A k \in Sockets : WF_vars(ThreadStep(k))

-----------------------------------------------------------------------------
(* Properties. *)

\* Type invariant of the connection.
TypeOK ==
    /\ proxyUp \in BOOLEAN
    /\ handlerAlive \in BOOLEAN
    /\ queue \in Seq(AllPorts)
    /\ inbox \in [Sockets -> Seq(Datagram)]
    /\ pc \in [Sockets -> {"none", "missing", "recvfrom", "target", "store", "sendto",
                         "stuck", "closed"}]
    /\ current \in [Sockets -> Datagram]
    /\ target \in [Sockets -> AllPorts]
    /\ delivered \in [Sides -> Seq(Delivery)]
    /\ requests \in 0..MaxRequests

\* When one side is dynamic, the queue both sides share holds ports of that side
\* only: whatever a thread pops is a port of the entity it sends to.
QueueOfDynamicSide ==
    \A s \in Sides :
        Port[s] = Dynamic /\ Port[Other(s)] # Dynamic =>
            \A i \in DOMAIN queue : queue[i] \in Ports[s]

\* When one side is dynamic and only it asks, an answer always finds a port in
\* the queue: the port is pushed before the request is forwarded.
NoFallback ==
    \A s \in Sides :
        pc[Send(s)] = "target" /\ Port[Other(s)] = Dynamic => queue # <<>>

\* An answer goes to the port its request came from.
AnswerReachesRequester ==
    \A s \in Sides : \A i \in DOMAIN delivered[s] :
        delivered[s][i].via = "recv" => delivered[s][i].to = delivered[s][i].request

\* The proxy takes in every datagram that arrives at one of its threads, unless
\* the thread could not be started, an empty datagram has ended it or it does not
\* come back from radamsa: the threads of the other sockets do not hold it up.
EveryDatagramTaken ==
    \A k \in Sockets :
        inbox[k] # <<>> ~> \/ inbox[k] = <<>>
                           \/ ~proxyUp
                           \/ pc[k] \in {"missing", "stuck"}
                           \/ pc[k] = "closed" /\ current[k].empty
=============================================================================
