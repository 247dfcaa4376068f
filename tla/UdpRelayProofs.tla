---------------------------- MODULE UdpRelayProofs ----------------------------
(***************************************************************************)
(* Proofs about UdpRelay.tla, for any configuration of the two ports, any  *)
(* ports the entities use and any number of requests.                      *)
(***************************************************************************)
EXTENDS UdpRelay, SequenceTheorems, TLAPS

\* What can arrive at the recv socket of a side, which the redirection of that
\* side's container leads to.
OwnDatagram(s) == [from : Ports[s], request : AllPorts, empty : BOOLEAN]

\* Whatever waits at the recv socket of a side, or is being worked on there,
\* comes from a port of that side: this is what pushDynamicPort is given.
RecvHoldsOwnPorts ==
    \A s \in Sides :
        /\ inbox[Recv(s)] \in Seq(OwnDatagram(s))
        /\ pc[Recv(s)] \in {"target", "store"} => current[Recv(s)] \in OwnDatagram(s)

\* The queue, when one side is dynamic.
QueueTyped ==
    \A s \in Sides :
        Port[s] = Dynamic /\ Port[Other(s)] # Dynamic => queue \in Seq(Ports[s])

\* The inductive invariant.
Inv == TypeOK /\ RecvHoldsOwnPorts /\ QueueTyped

-----------------------------------------------------------------------------
(* Sockets and datagrams. *)

\* The four sockets are four different ones.
LEMMA SocketsDiffer ==
    /\ \A s \in Sides : Recv(s) \in Sockets /\ Send(s) \in Sockets
    /\ \A s, t \in Sides : Recv(s) # Send(t)
    /\ \A s, t \in Sides : Recv(s) = Recv(t) => s = t
    /\ \A s, t \in Sides : Send(s) = Send(t) => s = t
    /\ \A s \in Sides : Other(s) \in Sides /\ Other(s) # s
    /\ \A k \in Sockets : /\ k[1] \in {"recv", "send"}
                          /\ k[2] \in Sides
                          /\ k = <<k[1], k[2]>>
BY DEF Sockets, Recv, Send, Sides, Other

\* A port that is not dynamic is a port.
LEMMA ConfiguredIsPort ==
    ASSUME NEW s \in Sides, Port[s] # Dynamic
    PROVE  Port[s] \in AllPorts
BY RelayAssumption DEF AllPorts, Sides

\* A datagram of a side is a datagram.
LEMMA OwnIsDatagram ==
    ASSUME NEW s \in Sides
    PROVE  OwnDatagram(s) \subseteq Datagram
BY DEF OwnDatagram, Datagram, AllPorts, Sides

\* A counter below its bound stays within it when it is incremented.
LEMMA RequestsCounted ==
    ASSUME NEW n \in Nat, NEW i \in 0..n, i < n
    PROVE  i + 1 \in 0..n
OBVIOUS

\* popDynamicPort returns a port, and leaves a queue of what was in it.
LEMMA ChooseTargetResult ==
    ASSUME Inv, NEW k \in Sockets, NEW otherwise \in AllPorts,
           ChooseTarget(k, otherwise)
    PROVE  /\ target' \in [Sockets -> AllPorts]
           /\ queue' \in Seq(AllPorts)
           /\ QueueTyped'
<1> USE SocketsDiffer DEF Inv, TypeOK
<1>1. Other(k[2]) \in Sides
  BY SocketsDiffer
<1>2. CASE Port[Other(k[2])] # Dynamic
  <2>1. Port[Other(k[2])] \in AllPorts
    BY <1>1, <1>2, ConfiguredIsPort
  <2>2. target' = [target EXCEPT ![k] = Port[Other(k[2])]] /\ queue' = queue
    BY <1>2 DEF ChooseTarget
  <2>3. QED
    BY <2>1, <2>2 DEF QueueTyped
<1>3. CASE Port[Other(k[2])] = Dynamic /\ queue # <<>>
  <2>1. target' = [target EXCEPT ![k] = Head(queue)] /\ queue' = Tail(queue)
    BY <1>3 DEF ChooseTarget
  <2>2. Head(queue) \in AllPorts /\ Tail(queue) \in Seq(AllPorts)
    BY <1>3, HeadTailProperties
  <2>3. ASSUME NEW s \in Sides, Port[s] = Dynamic, Port[Other(s)] # Dynamic
        PROVE  queue' \in Seq(Ports[s])
    <3>1. queue \in Seq(Ports[s])
      BY <2>3 DEF QueueTyped
    <3>2. QED
      BY <1>3, <2>1, <3>1, HeadTailProperties
  <2>4. QED
    BY <2>1, <2>2, <2>3 DEF QueueTyped
<1>4. CASE Port[Other(k[2])] = Dynamic /\ queue = <<>>
  <2>1. target' = [target EXCEPT ![k] = otherwise] /\ queue' = queue
    BY <1>4 DEF ChooseTarget
  <2>2. QED
    BY <2>1 DEF QueueTyped
<1>5. QED
  BY <1>2, <1>3, <1>4

-----------------------------------------------------------------------------
(* The steps. *)

\* Initially nothing is queued and nothing has arrived.
LEMMA InitInv == Init => Inv
<1> SUFFICES ASSUME Init PROVE Inv
  OBVIOUS
<1> USE SocketsDiffer DEF Init
<1>0. PICK missing \in SUBSET Sockets :
         pc = [k \in Sockets |-> IF k[1] = "send" /\ ~SendThreads THEN "none"
                               ELSE IF k \in missing THEN "missing" ELSE "recvfrom"]
  OBVIOUS
<1>1. TypeOK
  <2>1. pc \in [Sockets -> {"none", "missing", "recvfrom", "target", "store", "sendto",
                           "stuck", "closed"}]
    BY ONLY <1>0
  <2>2. QED
    BY <2>1, RelayAssumption
       DEF TypeOK, NoDatagram, Datagram, AllPorts, Sockets
<1>2. RecvHoldsOwnPorts
  <2>1. ASSUME NEW s \in Sides
        PROVE  pc[Recv(s)] \in {"missing", "recvfrom"}
    BY <1>0, <2>1 DEF Recv
  <2>2. QED
    BY <2>1 DEF RecvHoldsOwnPorts
<1>3. QueueTyped
  BY DEF QueueTyped
<1>4. QED
  BY <1>1, <1>2, <1>3 DEF Inv

\* A request comes from a port of the entity that sends it.
LEMMA EntityRequestsInv ==
    ASSUME Inv, NEW s \in Sides, EntityRequests(s)
    PROVE  Inv'
<1> USE SocketsDiffer DEF Inv
<1>1. PICK p \in Ports[s], empty \in {FALSE, EmptyDatagrams} :
        inbox' = [inbox EXCEPT ![Recv(s)] =
                     Append(@, [from |-> p, request |-> p, empty |-> empty])]
  BY DEF EntityRequests
<1> DEFINE d == [from |-> p, request |-> p, empty |-> empty]
<1>2. d \in OwnDatagram(s) /\ d \in Datagram
  BY RelayAssumption DEF OwnDatagram, Datagram, AllPorts, Sides
<1> HIDE DEF d
<1>3. inbox' = [inbox EXCEPT ![Recv(s)] = Append(inbox[Recv(s)], d)]
  BY <1>1 DEF d
<1>4. /\ UNCHANGED <<process, queue, pc, current, target, delivered>>
      /\ requests' \in 0..MaxRequests
  <2>1. requests < MaxRequests /\ requests' = requests + 1
    BY DEF EntityRequests
  <2>2. requests' \in 0..MaxRequests
    <3>1. MaxRequests \in Nat /\ requests \in 0..MaxRequests
      BY RelayAssumption DEF TypeOK
    <3>2. QED
      BY <2>1, <3>1, RequestsCounted
  <2>3. UNCHANGED <<process, queue, pc, current, target, delivered>>
    BY DEF EntityRequests
  <2>4. QED
    BY <2>2, <2>3
<1>5. inbox' \in [Sockets -> Seq(Datagram)]
  BY <1>2, <1>3, AppendProperties DEF TypeOK
<1>6. TypeOK'
  BY <1>4, <1>5 DEF TypeOK, process
<1>7. RecvHoldsOwnPorts'
  <2>1. ASSUME NEW t \in Sides
        PROVE  inbox'[Recv(t)] \in Seq(OwnDatagram(t))
    <3>1. CASE t = s
      <4>1. inbox'[Recv(t)] = Append(inbox[Recv(s)], d)
        BY <1>3, <3>1 DEF TypeOK
      <4>2. QED
        BY <1>2, <3>1, <4>1, AppendProperties DEF RecvHoldsOwnPorts
    <3>2. CASE t # s
      BY <1>3, <3>2 DEF RecvHoldsOwnPorts, TypeOK
    <3>3. QED
      BY <3>1, <3>2
  <2>2. QED
    BY <1>4, <2>1 DEF RecvHoldsOwnPorts
<1>8. QueueTyped'
  BY <1>4 DEF QueueTyped
<1>9. QED
  BY <1>6, <1>7, <1>8

\* An answer goes to a send socket.
LEMMA EntityReceivesInv ==
    ASSUME Inv, NEW s \in Sides, EntityReceives(s)
    PROVE  Inv'
<1> USE SocketsDiffer DEF Inv
<1> DEFINE d == Head(delivered[s])
           Answer(empty) == [from |-> d.to, request |-> d.request, empty |-> empty]
<1>1. d \in Delivery /\ Tail(delivered[s]) \in Seq(Delivery)
  <2>1. delivered[s] \in Seq(Delivery) /\ delivered[s] # <<>>
    BY DEF EntityReceives, TypeOK
  <2>2. QED
    BY <2>1, HeadTailProperties
<1>2. \A empty \in BOOLEAN : Answer(empty) \in Datagram
  BY <1>1 DEF Delivery, Datagram
<1>3. \/ \E empty \in BOOLEAN :
            inbox' = [inbox EXCEPT ![Send(s)] = Append(inbox[Send(s)], Answer(empty))]
      \/ inbox' = inbox
  <2>1. (EmptyDatagrams \/ d.empty) \in BOOLEAN
    OBVIOUS
  <2>2. QED
    BY <2>1 DEF EntityReceives
<1>4. /\ UNCHANGED <<process, queue, pc, current, target, requests>>
      /\ delivered' = [delivered EXCEPT ![s] = Tail(delivered[s])]
  BY DEF EntityReceives
<1> HIDE DEF d, Answer
<1>5. inbox' \in [Sockets -> Seq(Datagram)]
  <2>1. inbox[Send(s)] \in Seq(Datagram)
    BY DEF TypeOK
  <2>2. \A empty \in BOOLEAN : Append(inbox[Send(s)], Answer(empty)) \in Seq(Datagram)
    BY <1>2, <2>1, AppendProperties
  <2>3. CASE inbox' = inbox
    BY <2>3 DEF TypeOK
  <2>4. ASSUME NEW empty \in BOOLEAN,
               inbox' = [inbox EXCEPT ![Send(s)] = Append(inbox[Send(s)], Answer(empty))]
        PROVE  inbox' \in [Sockets -> Seq(Datagram)]
    <3>1. Append(inbox[Send(s)], Answer(empty)) \in Seq(Datagram)
      BY <2>2
    <3>2. inbox \in [Sockets -> Seq(Datagram)]
      BY DEF TypeOK
    <3>3. QED
      BY ONLY <2>4, <3>1, <3>2
  <2>5. QED
    BY <1>3, <2>3, <2>4
<1>6. \A t \in Sides : inbox'[Recv(t)] = inbox[Recv(t)]
  BY <1>3 DEF TypeOK
<1>7. TypeOK'
  BY <1>1, <1>4, <1>5 DEF TypeOK, process
<1>8. RecvHoldsOwnPorts'
  BY <1>4, <1>6 DEF RecvHoldsOwnPorts
<1>9. QueueTyped'
  BY <1>4 DEF QueueTyped
<1>10. QED
  BY <1>7, <1>8, <1>9

\* recvfrom takes a datagram from its own socket.
LEMMA ReceiveInv ==
    ASSUME Inv, NEW k \in Sockets, Receive(k)
    PROVE  Inv'
<1> USE SocketsDiffer DEF Inv
<1>1. /\ UNCHANGED <<process, queue, target, delivered, requests>>
      /\ inbox' = [inbox EXCEPT ![k] = Tail(inbox[k])]
      /\ current' = [current EXCEPT ![k] = Head(inbox[k])]
      /\ pc' = [pc EXCEPT ![k] = IF Head(inbox[k]).empty THEN "closed" ELSE "target"]
      /\ inbox[k] # <<>>
  BY DEF Receive, Goto
<1>2. inbox[k] \in Seq(Datagram)
  BY DEF TypeOK
<1>3. Head(inbox[k]) \in Datagram /\ Tail(inbox[k]) \in Seq(Datagram)
  BY <1>1, <1>2, HeadTailProperties
<1>4. TypeOK'
  <2>1. inbox' \in [Sockets -> Seq(Datagram)] /\ current' \in [Sockets -> Datagram]
    BY <1>1, <1>3 DEF TypeOK
  <2>2. pc' \in [Sockets -> {"none", "missing", "recvfrom", "target", "store", "sendto", "stuck", "closed"}]
    BY <1>1 DEF TypeOK
  <2>3. QED
    BY ONLY TypeOK, <1>1, <2>1, <2>2 DEF TypeOK, process
<1>5. ASSUME NEW s \in Sides
      PROVE  /\ inbox'[Recv(s)] \in Seq(OwnDatagram(s))
             /\ pc'[Recv(s)] \in {"target", "store"} => current'[Recv(s)] \in OwnDatagram(s)
  <2>1. CASE k = Recv(s)
    <3>1. inbox[k] \in Seq(OwnDatagram(s))
      BY <2>1 DEF RecvHoldsOwnPorts
    <3>2. Head(inbox[k]) \in OwnDatagram(s) /\ Tail(inbox[k]) \in Seq(OwnDatagram(s))
      BY <1>1, <3>1, HeadTailProperties
    <3>3. inbox'[Recv(s)] = Tail(inbox[k]) /\ current'[Recv(s)] = Head(inbox[k])
      BY <1>1, <2>1 DEF TypeOK
    <3>4. QED
      BY <3>2, <3>3
  <2>2. CASE k # Recv(s)
    BY <1>1, <2>2 DEF TypeOK, RecvHoldsOwnPorts
  <2>3. QED
    BY <2>1, <2>2
<1>6. QueueTyped'
  BY <1>1 DEF QueueTyped
<1>7. QED
  BY <1>4, <1>5, <1>6 DEF RecvHoldsOwnPorts

\* A thread that chooses its target does not touch what it received.
LEMMA TargetInv ==
    ASSUME Inv, NEW s \in Sides, RecvTarget(s) \/ SendTarget(s)
    PROVE  Inv'
<1> USE SocketsDiffer DEF Inv
<1>1. PICK k \in {Recv(s), Send(s)}, otherwise \in AllPorts :
        /\ ChooseTarget(k, otherwise)
        /\ \E to \in {"store", "sendto"} : Goto(k, "target", to)
  BY DEF RecvTarget, SendTarget, AllPorts, TypeOK, Datagram
<1>2. UNCHANGED <<process, inbox, current, delivered, requests>>
  BY DEF RecvTarget, SendTarget
<1>3. /\ target' \in [Sockets -> AllPorts]
      /\ queue' \in Seq(AllPorts)
      /\ QueueTyped'
  BY <1>1, ChooseTargetResult
<1>4. TypeOK'
  <2>1. pc' \in [Sockets -> {"none", "missing", "recvfrom", "target", "store", "sendto", "stuck", "closed"}]
    BY <1>1 DEF TypeOK, Goto
  <2>2. QED
    BY ONLY TypeOK, <1>2, <1>3, <2>1 DEF TypeOK, process
<1>5. RecvHoldsOwnPorts'
  BY <1>1, <1>2 DEF RecvHoldsOwnPorts, TypeOK, Goto
<1>6. QED
  BY <1>3, <1>4, <1>5

\* What is pushed is a port of the side whose port is dynamic.
LEMMA RecvStoreInv ==
    ASSUME Inv, NEW s \in Sides, RecvStore(s)
    PROVE  Inv'
<1> USE SocketsDiffer DEF Inv
<1> DEFINE p == current[Recv(s)].from
<1>1. p \in Ports[s] /\ p \in AllPorts
  BY DEF RecvStore, Goto, RecvHoldsOwnPorts, OwnDatagram, TypeOK, Datagram
<1>2. /\ UNCHANGED <<process, inbox, current, target, delivered, requests>>
      /\ pc' = [pc EXCEPT ![Recv(s)] = "sendto"]
      /\ queue' = IF Port[s] = Dynamic THEN Append(queue, p) ELSE queue
  BY DEF RecvStore, Goto
<1> HIDE DEF p
<1>3. queue' \in Seq(AllPorts)
  BY <1>1, <1>2, AppendProperties DEF TypeOK
<1>4. TypeOK'
  BY <1>2, <1>3 DEF TypeOK, process
<1>5. RecvHoldsOwnPorts'
  BY <1>2 DEF RecvHoldsOwnPorts, TypeOK
<1>6. ASSUME NEW t \in Sides, Port[t] = Dynamic, Port[Other(t)] # Dynamic
      PROVE  queue' \in Seq(Ports[t])
  <2>1. queue \in Seq(Ports[t])
    BY <1>6 DEF QueueTyped
  <2>2. CASE t = s
    BY <1>1, <1>2, <2>1, <2>2, AppendProperties
  <2>3. CASE t # s
    <3>1. s = Other(t)
      BY <2>3 DEF Sides, Other
    <3>2. QED
      BY <1>2, <1>6, <2>1, <3>1
  <2>4. QED
    BY <2>2, <2>3
<1>7. QED
  BY <1>4, <1>5, <1>6 DEF QueueTyped

\* sendto hands the datagram over, or fails, and the thread receives again.
LEMMA ForwardInv ==
    ASSUME Inv, NEW k \in Sockets, Forward(k)
    PROVE  Inv'
<1> USE SocketsDiffer DEF Inv
<1> DEFINE Sent(empty) == [to |-> target[k], via |-> Exit(k)[1],
                           request |-> current[k].request, empty |-> empty]
           t == Other(k[2])
<1>1. t \in Sides /\ Exit(k)[1] \in {"recv", "send"}
  BY DEF Exit, Recv, Send
<1>2. \A empty \in BOOLEAN : Sent(empty) \in Delivery
  BY <1>1 DEF Delivery, TypeOK, Datagram
<1>3. /\ UNCHANGED <<process, queue, inbox, current, target, requests>>
      /\ \E to \in {"recvfrom", "stuck"} : pc' = [pc EXCEPT ![k] = to]
      /\ \/ delivered' = delivered
         \/ \E empty \in BOOLEAN :
               delivered' = [delivered EXCEPT ![t] = Append(delivered[t], Sent(empty))]
  <2>1. ("malloc" \in Failing) \in BOOLEAN
    OBVIOUS
  <2>2. QED
    BY <2>1 DEF Forward, Goto
<1> HIDE DEF Sent, t
<1>4. delivered' \in [Sides -> Seq(Delivery)]
  <2>1. delivered[t] \in Seq(Delivery)
    BY <1>1 DEF TypeOK
  <2>2. \A empty \in BOOLEAN : Append(delivered[t], Sent(empty)) \in Seq(Delivery)
    BY <1>2, <2>1, AppendProperties
  <2>3. CASE delivered' = delivered
    BY <2>3 DEF TypeOK
  <2>4. ASSUME NEW empty \in BOOLEAN,
               delivered' = [delivered EXCEPT ![t] = Append(delivered[t], Sent(empty))]
        PROVE  delivered' \in [Sides -> Seq(Delivery)]
    BY <2>2, <2>4 DEF TypeOK
  <2>5. QED
    BY <1>3, <2>3, <2>4
<1>5. TypeOK'
  BY <1>3, <1>4 DEF TypeOK, process
<1>6. RecvHoldsOwnPorts'
  BY <1>3 DEF RecvHoldsOwnPorts, TypeOK
<1>7. QueueTyped'
  BY <1>3 DEF QueueTyped
<1>8. QED
  BY <1>5, <1>6, <1>7

\* The invariant is inductive.
LEMMA NextInv == Inv /\ [Next]_vars => Inv'
<1> SUFFICES ASSUME Inv, [Next]_vars PROVE Inv'
  OBVIOUS
<1>1. ASSUME NEW s \in Requesters, EntityRequests(s) PROVE Inv'
  BY <1>1, EntityRequestsInv, RelayAssumption
<1>2. ASSUME NEW s \in Sides, EntityReceives(s) PROVE Inv'
  BY <1>2, EntityReceivesInv
<1>3. ASSUME NEW k \in Sockets, ThreadStep(k) PROVE Inv'
  <2>1. k[2] \in Sides
    BY SocketsDiffer
  <2>2. QED
    BY <1>3, <2>1, ReceiveInv, TargetInv, RecvStoreInv, ForwardInv DEF ThreadStep
<1>4. CASE ProxyEnds \/ MainLeavesTry \/ UNCHANGED vars
  BY <1>4 DEF ProxyEnds, MainLeavesTry, vars, process, Inv, TypeOK, RecvHoldsOwnPorts, QueueTyped
<1>5. QED
  BY <1>1, <1>2, <1>3, <1>4 DEF Next

\* Inv holds in every reachable state.
THEOREM RelayInvariance == Spec => []Inv
BY InitInv, NextInv, PTL DEF Spec

-----------------------------------------------------------------------------
(* The theorems. *)

\* The threads of a connection keep the types of its state.
THEOREM RelayTypeCorrect == Spec => []TypeOK
<1>1. Inv => TypeOK
  BY DEF Inv
<1>2. QED
  BY <1>1, RelayInvariance, PTL

\* With one dynamic side, dynamic_ports_ only ever holds ports of that side,
\* whoever asks, and whether requests are answered or not.
THEOREM QueueHoldsDynamicPorts == Spec => []QueueOfDynamicSide
<1>1. Inv => QueueOfDynamicSide
  <2> SUFFICES ASSUME Inv, NEW s \in Sides, Port[s] = Dynamic,
                      Port[Other(s)] # Dynamic, NEW i \in DOMAIN queue
               PROVE  queue[i] \in Ports[s]
    BY DEF QueueOfDynamicSide
  <2>1. queue \in Seq(Ports[s])
    BY DEF Inv, QueueTyped
  <2>2. QED
    BY <2>1, ElementOfSeq
<1>2. QED
  BY <1>1, RelayInvariance, PTL

-----------------------------------------------------------------------------
(* When one side asks. *)

\* One side asks and its port alone is dynamic: the case the handler is written
\* for, a client on ports of its own choice and a server.
Asks(a) ==
    /\ a \in Sides
    /\ Port[a] = Dynamic /\ Port[Other(a)] # Dynamic
    /\ Requesters \subseteq {a}

\* Nothing goes against the direction of the requests but answers: neither the
\* recv thread of the other side nor the send thread of the asking one is given
\* anything.  A request goes to the configured port, and comes from the port it is
\* to be answered at.
OneWay(a) ==
    LET b == Other(a) IN
    /\ inbox[Recv(b)] = <<>> /\ pc[Recv(b)] \in {"missing", "recvfrom"}
    /\ inbox[Send(a)] = <<>> /\ pc[Send(a)] \in {"missing", "recvfrom"}
    /\ \A i \in 1..Len(inbox[Recv(a)]) : inbox[Recv(a)][i].from = inbox[Recv(a)][i].request
    /\ pc[Recv(a)] \in {"target", "store"} => current[Recv(a)].from = current[Recv(a)].request
    /\ pc[Recv(a)] \in {"store", "sendto"} => target[Recv(a)] = Port[b]
    /\ \A i \in 1..Len(delivered[b]) : delivered[b][i].via = "send" /\ delivered[b][i].to = Port[b]
    /\ \A i \in 1..Len(delivered[a]) : delivered[a][i].via = "recv"

\* Whether the send thread is about to pop a port for an answer, and whether the
\* recv thread has pushed one for a request that it has not forwarded yet.
Popping(a)    == IF pc[Send(Other(a))] = "target" THEN 1 ELSE 0
Forwarding(a) == IF pc[Recv(a)] \in {"sendto", "stuck"} THEN 1 ELSE 0

\* There is a port in the queue for each answer that is on its way to a pop and
\* for each request that is still to be answered.
PortForEach(a) ==
    Len(queue) >= Popping(a) + Len(inbox[Send(Other(a))])
                     + Len(delivered[Other(a)]) + Forwarding(a)

\* The queue q holds the port x of the answer being worked on if t = 1, those of
\* the answers w, those of the requests d, and the port y of the request being
\* forwarded if r = 1.
Aligned(q, t, x, w, d, r, y) ==
    /\ Len(q) = t + Len(w) + Len(d) + r
    /\ t = 1 => q[1] = x
    /\ \A i \in 1..Len(w) : q[t + i] = w[i].request
    /\ \A i \in 1..Len(d) : q[t + Len(w) + i] = d[i].request
    /\ r = 1 => q[t + Len(w) + Len(d) + 1] = y

\* The ports are in the order of the answers, if every request is answered, until
\* an empty answer ends the thread that pops them.
PortsInOrder(a) ==
    pc[Send(Other(a))] # "closed" =>
    Aligned(queue,
            Popping(a), current[Send(Other(a))].request,
            inbox[Send(Other(a))], delivered[Other(a)],
            Forwarding(a), current[Recv(a)].request)

\* And then each goes where its request came from.
Addressed(a) ==
    /\ pc[Send(Other(a))] = "sendto" =>
          target[Send(Other(a))] = current[Send(Other(a))].request
    /\ \A i \in 1..Len(delivered[a]) : delivered[a][i].to = delivered[a][i].request

\* The ports of the answers.
AnswersFound(a) == PortForEach(a) /\ (~MayIgnore => PortsInOrder(a) /\ Addressed(a))

\* The inductive invariant when a asks.
AskInv(a) == Inv /\ OneWay(a) /\ AnswersFound(a)

\* What there is of sockets, seen from the side that asks.
LEMMA AskSockets ==
    ASSUME NEW a, Asks(a)
    PROVE  /\ Other(a) \in Sides /\ Other(a) # a /\ Other(Other(a)) = a
           /\ \A s \in Sides : s = a \/ s = Other(a)
           /\ Exit(Recv(a)) = Send(Other(a)) /\ Exit(Send(Other(a))) = Recv(a)
           /\ \A s \in Sides : /\ Recv(s)[1] = "recv" /\ Recv(s)[2] = s
                               /\ Send(s)[1] = "send" /\ Send(s)[2] = s
           /\ \A k \in Sockets : k \in {Recv(a), Recv(Other(a)), Send(a), Send(Other(a))}
           /\ Port[Other(a)] \in Ports[Other(a)]
BY RelayAssumption DEF Asks, Sides, Other, Recv, Send, Sockets, Exit

-----------------------------------------------------------------------------
(* Ports and answers side by side. *)

\* A port is pushed for the request that is about to be forwarded.
LEMMA AlignedStore ==
    ASSUME NEW q \in Seq(AllPorts), NEW t \in {0, 1}, NEW x, NEW w \in Seq(Datagram),
           NEW d \in Seq(Delivery), NEW y, NEW z \in AllPorts, Aligned(q, t, x, w, d, 0, y)
    PROVE  Aligned(Append(q, z), t, x, w, d, 1, z)
<1>1. /\ Len(q) \in Nat /\ Len(w) \in Nat /\ Len(d) \in Nat /\ t \in Nat
      /\ Len(Append(q, z)) = Len(q) + 1
      /\ \A i \in 1..Len(q) : Append(q, z)[i] = q[i]
      /\ Append(q, z)[Len(q) + 1] = z
  BY AppendProperties, LenProperties
<1>2. Len(q) = t + Len(w) + Len(d)
  BY <1>1 DEF Aligned
<1>3. \A i \in 1..Len(w) : t + i \in 1..Len(q)
  BY <1>1, <1>2
<1>4. \A i \in 1..Len(d) : t + Len(w) + i \in 1..Len(q)
  BY <1>1, <1>2
<1>5. t = 1 => 1 \in 1..Len(q)
  BY <1>1, <1>2
<1>6. QED
  BY <1>1, <1>2, <1>3, <1>4, <1>5 DEF Aligned

\* A request is forwarded.
LEMMA AlignedForward ==
    ASSUME NEW q \in Seq(AllPorts), NEW t \in {0, 1}, NEW x, NEW w \in Seq(Datagram),
           NEW d \in Seq(Delivery), NEW y, NEW e \in Delivery, e.request = y,
           Aligned(q, t, x, w, d, 1, y)
    PROVE  \A z : Aligned(q, t, x, w, Append(d, e), 0, z)
<1>1. /\ Len(q) \in Nat /\ Len(w) \in Nat /\ Len(d) \in Nat /\ t \in Nat
      /\ Len(Append(d, e)) = Len(d) + 1
      /\ \A i \in 1..Len(d) : Append(d, e)[i] = d[i]
      /\ Append(d, e)[Len(d) + 1] = e
  BY AppendProperties, LenProperties
<1>2. /\ Len(q) = t + Len(w) + Len(d) + 1
      /\ q[t + Len(w) + Len(d) + 1] = y
  BY <1>1 DEF Aligned
<1>3. \A i \in 1..Len(Append(d, e)) : i \in 1..Len(d) \/ i = Len(d) + 1
  BY <1>1
<1>4. t + Len(w) + (Len(d) + 1) = t + Len(w) + Len(d) + 1
  BY <1>1
<1>5. \A i \in 1..Len(Append(d, e)) : q[t + Len(w) + i] = Append(d, e)[i].request
  BY <1>1, <1>2, <1>3, <1>4 DEF Aligned
<1>6. QED
  BY <1>1, <1>2, <1>4, <1>5 DEF Aligned

\* A request is answered.
LEMMA AlignedAnswer ==
    ASSUME NEW q \in Seq(AllPorts), NEW t \in {0, 1}, NEW x, NEW w \in Seq(Datagram),
           NEW d \in Seq(Delivery), NEW r \in {0, 1}, NEW y, NEW e \in Datagram,
           d # <<>>, e.request = Head(d).request,
           Aligned(q, t, x, w, d, r, y)
    PROVE  Aligned(q, t, x, Append(w, e), Tail(d), r, y)
<1>1. /\ Len(q) \in Nat /\ Len(w) \in Nat /\ Len(d) \in Nat /\ t \in Nat /\ r \in Nat
      /\ Len(Append(w, e)) = Len(w) + 1
      /\ \A i \in 1..Len(w) : Append(w, e)[i] = w[i]
      /\ Append(w, e)[Len(w) + 1] = e
      /\ Len(Tail(d)) = Len(d) - 1
      /\ \A i \in 1..Len(Tail(d)) : Tail(d)[i] = d[i + 1]
      /\ Len(d) # 0
  BY AppendProperties, LenProperties, HeadTailProperties, EmptySeq
<1>2. Head(d) = d[1] /\ 1 \in 1..Len(d)
  BY <1>1
<1>3. \A i \in 1..Len(Append(w, e)) : i \in 1..Len(w) \/ i = Len(w) + 1
  BY <1>1
<1>4. t + Len(w) + 1 = t + (Len(w) + 1)
  BY <1>1
<1>5. \A i \in 1..Len(Append(w, e)) : q[t + i] = Append(w, e)[i].request
  BY <1>1, <1>2, <1>3, <1>4 DEF Aligned
<1>6. \A i \in 1..Len(Tail(d)) : /\ i + 1 \in 1..Len(d)
                                 /\ t + (Len(w) + 1) + i = t + Len(w) + (i + 1)
  BY <1>1
<1>7. \A i \in 1..Len(Tail(d)) : q[t + (Len(w) + 1) + i] = Tail(d)[i].request
  BY <1>1, <1>6 DEF Aligned
<1>8. /\ t + (Len(w) + 1) + (Len(d) - 1) = t + Len(w) + Len(d)
      /\ t + (Len(w) + 1) + (Len(d) - 1) + r = t + Len(w) + Len(d) + r
      /\ t + (Len(w) + 1) + (Len(d) - 1) + 1 = t + Len(w) + Len(d) + 1
  BY <1>1
<1>9. QED
  BY <1>1, <1>5, <1>7, <1>8 DEF Aligned

\* An answer is received.
LEMMA AlignedReceive ==
    ASSUME NEW q \in Seq(AllPorts), NEW x, NEW w \in Seq(Datagram),
           NEW d \in Seq(Delivery), NEW r \in {0, 1}, NEW y, w # <<>>,
           Aligned(q, 0, x, w, d, r, y)
    PROVE  Aligned(q, 1, Head(w).request, Tail(w), d, r, y)
<1>1. /\ Len(q) \in Nat /\ Len(w) \in Nat /\ Len(d) \in Nat /\ r \in Nat
      /\ Len(Tail(w)) = Len(w) - 1
      /\ \A i \in 1..Len(Tail(w)) : Tail(w)[i] = w[i + 1]
      /\ Len(w) # 0
  BY LenProperties, HeadTailProperties, EmptySeq
<1>2. Head(w) = w[1] /\ 1 \in 1..Len(w) /\ 0 + 1 = 1
  BY <1>1
<1>3. q[1] = Head(w).request
  BY <1>2 DEF Aligned
<1>4. \A i \in 1..Len(Tail(w)) : i + 1 \in 1..Len(w) /\ 0 + (i + 1) = 1 + i
  BY <1>1
<1>5. \A i \in 1..Len(Tail(w)) : q[1 + i] = Tail(w)[i].request
  BY <1>1, <1>4 DEF Aligned
<1>6. 1 + (Len(w) - 1) = 0 + Len(w)
  BY <1>1
<1>7. QED
  BY <1>1, <1>3, <1>5, <1>6 DEF Aligned

\* What is left of q once the port of x is popped.
PopsTo(q, x, w, d, r, y) ==
    Head(q) = x /\ \A z : Aligned(Tail(q), 0, z, w, d, r, y)

\* The port is popped.
LEMMA AlignedPop ==
    ASSUME NEW q \in Seq(AllPorts), NEW x, NEW w \in Seq(Datagram),
           NEW d \in Seq(Delivery), NEW r \in {0, 1}, NEW y,
           Aligned(q, 1, x, w, d, r, y)
    PROVE  PopsTo(q, x, w, d, r, y)
<1>1. /\ Len(q) \in Nat /\ Len(w) \in Nat /\ Len(d) \in Nat /\ r \in Nat
      /\ Len(q) = 1 + Len(w) + Len(d) + r
  BY LenProperties DEF Aligned
<1>2. q # <<>>
  BY <1>1
<1>3. /\ Len(Tail(q)) = Len(q) - 1
      /\ \A i \in 1..Len(Tail(q)) : Tail(q)[i] = q[i + 1]
  BY <1>2, HeadTailProperties
<1>4. Head(q) = x
  BY <1>1 DEF Aligned
<1>5. \A i \in 1..Len(w) : 0 + i \in 1..Len(Tail(q)) /\ (0 + i) + 1 = 1 + i
  BY <1>1, <1>3
<1>6. \A i \in 1..Len(d) : /\ 0 + Len(w) + i \in 1..Len(Tail(q))
                           /\ (0 + Len(w) + i) + 1 = 1 + Len(w) + i
  BY <1>1, <1>3
<1>7. r = 1 => /\ 0 + Len(w) + Len(d) + 1 \in 1..Len(Tail(q))
               /\ (0 + Len(w) + Len(d) + 1) + 1 = 1 + Len(w) + Len(d) + 1
  BY <1>1, <1>3
<1>8. Len(Tail(q)) = 0 + Len(w) + Len(d) + r
  BY <1>1, <1>3
<1>9. \A z : Aligned(Tail(q), 0, z, w, d, r, y)
  BY <1>3, <1>5, <1>6, <1>7, <1>8 DEF Aligned
<1>10. QED
  BY ONLY <1>4, <1>9, Zenon DEF PopsTo

-----------------------------------------------------------------------------
(* The steps when one side asks. *)

\* The lengths of the sequences that are compared.
LEMMA AskTypes ==
    ASSUME NEW a, AskInv(a)
    PROVE  /\ queue \in Seq(AllPorts) /\ Len(queue) \in Nat
           /\ \A k \in Sockets : inbox[k] \in Seq(Datagram) /\ Len(inbox[k]) \in Nat
           /\ \A s \in Sides : delivered[s] \in Seq(Delivery) /\ Len(delivered[s]) \in Nat
           /\ Popping(a) \in {0, 1} /\ Forwarding(a) \in {0, 1}
           /\ \A k \in Sockets : current[k] \in Datagram /\ target[k] \in AllPorts
<1>1. TypeOK
  BY DEF AskInv, Inv
<1>2. /\ queue \in Seq(AllPorts)
      /\ \A k \in Sockets : inbox[k] \in Seq(Datagram) /\ current[k] \in Datagram
                             /\ target[k] \in AllPorts
      /\ \A s \in Sides : delivered[s] \in Seq(Delivery)
  BY ONLY <1>1 DEF TypeOK
<1>3. Popping(a) \in {0, 1} /\ Forwarding(a) \in {0, 1}
  BY ONLY Zenon DEF Popping, Forwarding
<1>4. QED
  BY ONLY <1>2, <1>3, LenProperties

\* A delivery that becomes at most one answer leaves a port for each.
LEMMA StillAPort ==
    ASSUME NEW q \in Nat, NEW p \in Nat, NEW n \in Nat, NEW d \in Nat, NEW f \in Nat,
           NEW n2 \in {n, n + 1}, NEW d2, d2 = d - 1,
           q >= p + n + d + f
    PROVE  q >= p + n2 + d2 + f
OBVIOUS

\* The functions of the state.
LEMMA AskFunctions ==
    ASSUME NEW a, AskInv(a)
    PROVE  /\ inbox \in [Sockets -> Seq(Datagram)]
           /\ current \in [Sockets -> Datagram]
           /\ delivered \in [Sides -> Seq(Delivery)]
           /\ \E S : pc \in [Sockets -> S]
BY DEF AskInv, Inv, TypeOK

\* A function with one new value.
LEMMA OneUpdated ==
    ASSUME NEW D, NEW S, NEW f \in [D -> S], NEW k \in D, NEW v
    PROVE  /\ [f EXCEPT ![k] = v][k] = v
           /\ \A j \in D : j # k => [f EXCEPT ![k] = v][j] = f[j]
OBVIOUS

\* One less on both sides.
LEMMA OneLess ==
    \A n, x, y, z \in Nat : n >= 1 + x + y + z => n >= 1 /\ n - 1 >= 0 + x + y + z
OBVIOUS

\* What leaves the ports and the answers alone.
LEMMA AnswersKept ==
    ASSUME NEW a, AnswersFound(a),
           queue' = queue,
           inbox'[Send(Other(a))] = inbox[Send(Other(a))],
           delivered' = delivered,
           target'[Send(Other(a))] = target[Send(Other(a))],
           current'[Send(Other(a))] = current[Send(Other(a))],
           pc'[Send(Other(a))] = pc[Send(Other(a))],
           pc'[Recv(a)] \in {"sendto", "stuck"} <=> pc[Recv(a)] \in {"sendto", "stuck"},
           pc'[Recv(a)] \in {"sendto", "stuck"} => current'[Recv(a)] = current[Recv(a)]
    PROVE  AnswersFound(a)'
<1>1. Popping(a)' = Popping(a) /\ Forwarding(a)' = Forwarding(a)
  BY DEF Popping, Forwarding, Send, Recv, Other
<1>2. Forwarding(a) = 1 => pc'[Recv(a)] \in {"sendto", "stuck"}
  BY DEF Forwarding
<1>3. PortForEach(a)'
  BY <1>1 DEF AnswersFound, PortForEach, Send, Other
<1>4. PortsInOrder(a) => PortsInOrder(a)'
  BY <1>1, <1>2 DEF PortsInOrder, Aligned, Send, Recv, Other
<1>5. Addressed(a) => Addressed(a)'
  BY DEF Addressed, Send, Other
<1>6. QED
  BY <1>3, <1>4, <1>5 DEF AnswersFound

\* A request: only the asking side makes one.
LEMMA AskEntityRequests ==
    ASSUME NEW a, Asks(a), AskInv(a), NEW s \in Requesters, EntityRequests(s)
    PROVE  (OneWay(a) /\ AnswersFound(a))'
<1> DEFINE b == Other(a)
           w == inbox[Recv(a)]
<1> USE SocketsDiffer, AskSockets DEF Asks
<1>1. s = a
  OBVIOUS
<1>2. PICK p \in Ports[a], empty \in {FALSE, EmptyDatagrams} :
        inbox' = [inbox EXCEPT ![Recv(a)] =
                     Append(w, [from |-> p, request |-> p, empty |-> empty])]
  BY <1>1 DEF EntityRequests
<1> DEFINE e == [from |-> p, request |-> p, empty |-> empty]
<1>3. e \in Datagram /\ e.from = e.request
  BY RelayAssumption DEF Datagram, AllPorts, Sides
<1>4. w \in Seq(Datagram) /\ Len(w) \in Nat
  BY AskTypes
<1> HIDE DEF e, w
<1>5. /\ Len(Append(w, e)) = Len(w) + 1
      /\ \A i \in 1..Len(w) : Append(w, e)[i] = w[i]
      /\ Append(w, e)[Len(w) + 1] = e
  BY <1>3, <1>4, AppendProperties
<1>6. /\ UNCHANGED <<process, queue, pc, current, target, delivered>>
      /\ \A k \in Sockets : k # Recv(a) => inbox'[k] = inbox[k]
      /\ inbox'[Recv(a)] = Append(w, e)
  <2>1. UNCHANGED <<process, queue, pc, current, target, delivered>>
    BY DEF EntityRequests
  <2>2. inbox' = [inbox EXCEPT ![Recv(a)] = Append(w, e)]
    BY ONLY <1>2, Zenon DEF e
  <2>3. inbox \in [Sockets -> Seq(Datagram)] /\ Recv(a) \in Sockets
    BY AskFunctions
  <2>4. QED
    BY ONLY <2>1, <2>2, <2>3, OneUpdated
<1>7. \A i \in 1..Len(inbox'[Recv(a)]) : inbox'[Recv(a)][i].from = inbox'[Recv(a)][i].request
  <2>1. \A i \in 1..Len(Append(w, e)) : i \in 1..Len(w) \/ i = Len(w) + 1
    BY <1>4, <1>5
  <2>2. \A i \in 1..Len(w) : w[i].from = w[i].request
    BY DEF AskInv, OneWay, w
  <2>3. QED
    BY <1>3, <1>5, <1>6, <2>1, <2>2
<1>8. OneWay(a)'
  BY <1>6, <1>7 DEF AskInv, OneWay
<1>9. AnswersFound(a)'
  BY <1>6, AnswersKept DEF AskInv
<1>10. QED
  BY <1>8, <1>9

\* The asking side takes note of an answer.
LEMMA AskerReceives ==
    ASSUME NEW a, Asks(a), AskInv(a), EntityReceives(a)
    PROVE  (OneWay(a) /\ AnswersFound(a))'
<1> DEFINE w == delivered[a]
<1> USE SocketsDiffer, AskSockets DEF Asks
<1>1. w \in Seq(Delivery) /\ Len(w) \in Nat /\ w # <<>>
  BY AskTypes DEF EntityReceives
<1>2. Head(w).via = "recv"
  <2>1. 1 \in 1..Len(w) /\ Head(w) = w[1]
    BY <1>1, EmptySeq
  <2>2. \A i \in 1..Len(w) : w[i].via = "recv"
    BY DEF AskInv, OneWay
  <2>3. QED
    BY <2>1, <2>2
<1>3. /\ delivered' = [delivered EXCEPT ![a] = Tail(w)]
      /\ UNCHANGED <<process, queue, inbox, pc, current, target, requests>>
  BY <1>2 DEF EntityReceives
<1> HIDE DEF w
<1>4. delivered'[a] = Tail(w) /\ delivered'[Other(a)] = delivered[Other(a)]
  BY <1>3 DEF AskInv, Inv, TypeOK
<1>5. /\ \A i \in 1..Len(Tail(w)) : Tail(w)[i] = w[i + 1]
      /\ \A i \in 1..Len(Tail(w)) : i + 1 \in 1..Len(w)
  BY <1>1, HeadTailProperties
<1>6. OneWay(a)'
  <2>1. \A i \in 1..Len(w) : w[i].via = "recv"
    BY DEF AskInv, OneWay, w
  <2>2. \A i \in 1..Len(delivered'[a]) : delivered'[a][i].via = "recv"
    BY <1>4, <1>5, <2>1
  <2>3. QED
    BY <1>3, <1>4, <2>2 DEF AskInv, OneWay
<1>7. AnswersFound(a)'
  <2>1. Popping(a)' = Popping(a) /\ Forwarding(a)' = Forwarding(a)
    BY <1>3 DEF Popping, Forwarding
  <2>2. PortForEach(a)'
    BY <1>3, <1>4, <2>1 DEF AskInv, AnswersFound, PortForEach
  <2>3. PortsInOrder(a) => PortsInOrder(a)'
    BY <1>3, <1>4, <2>1 DEF PortsInOrder, Aligned
  <2>4. Addressed(a) => Addressed(a)'
    <3>1. Addressed(a) => \A i \in 1..Len(w) : w[i].to = w[i].request
      BY DEF Addressed, w
    <3>2. Addressed(a) => \A i \in 1..Len(delivered'[a]) : delivered'[a][i].to = delivered'[a][i].request
      BY <1>4, <1>5, <3>1
    <3>3. QED
      BY <1>3, <3>2 DEF Addressed
  <2>5. QED
    BY <2>2, <2>3, <2>4 DEF AskInv, AnswersFound
<1>8. QED
  BY <1>6, <1>7

\* The other side answers a request, or ignores it: the answer takes the place of
\* the request.
LEMMA AnswererReceives ==
    ASSUME NEW a, Asks(a), AskInv(a), EntityReceives(Other(a))
    PROVE  (OneWay(a) /\ AnswersFound(a))'
<1> DEFINE b == Other(a)
           d == delivered[b]
           w == inbox[Send(b)]
           Answer(empty) == [from |-> Head(d).to, request |-> Head(d).request, empty |-> empty]
<1> USE SocketsDiffer, AskSockets DEF Asks
<1>1. /\ d \in Seq(Delivery) /\ Len(d) \in Nat /\ d # <<>>
      /\ w \in Seq(Datagram) /\ Len(w) \in Nat
  BY AskTypes DEF EntityReceives
<1>2. Head(d).via = "send" /\ Head(d).to \in Ports[b]
  <2>1. 1 \in 1..Len(d) /\ Head(d) = d[1]
    BY <1>1, EmptySeq
  <2>2. QED
    BY <2>1 DEF AskInv, OneWay
<1>4. Head(d) \in Delivery
  BY <1>1, HeadTailProperties
<1>0. PICK empty \in BOOLEAN :
        /\ UNCHANGED <<process, queue, pc, current, target, requests>>
        /\ delivered' = [delivered EXCEPT ![b] = Tail(d)]
        /\ \/ inbox' = [inbox EXCEPT ![Send(b)] = Append(w, Answer(empty))]
           \/ MayIgnore /\ inbox' = inbox
  <2>1. (EmptyDatagrams \/ Head(d).empty) \in BOOLEAN
    OBVIOUS
  <2>2. QED
    BY <1>2, <2>1 DEF EntityReceives
<1> DEFINE e == Answer(empty)
<1>3. /\ UNCHANGED <<process, queue, pc, current, target, requests>>
      /\ delivered' = [delivered EXCEPT ![b] = Tail(d)]
      /\ \/ inbox' = [inbox EXCEPT ![Send(b)] = Append(w, e)]
         \/ MayIgnore /\ inbox' = inbox
  BY <1>0
<1>5. e \in Datagram /\ e.request = Head(d).request
  BY <1>4 DEF Delivery, Datagram
<1> HIDE DEF d, w, e, b, Answer
<1>6. /\ Len(Append(w, e)) = Len(w) + 1
      /\ \A i \in 1..Len(w) : Append(w, e)[i] = w[i]
      /\ Append(w, e)[Len(w) + 1] = e
  BY <1>1, <1>5, AppendProperties
<1>7. /\ Len(Tail(d)) = Len(d) - 1
      /\ \A i \in 1..Len(Tail(d)) : Tail(d)[i] = d[i + 1]
      /\ \A i \in 1..Len(Tail(d)) : i + 1 \in 1..Len(d)
      /\ Len(d) # 0
  BY <1>1, HeadTailProperties, EmptySeq
<1>8. /\ delivered'[b] = Tail(d) /\ delivered'[a] = delivered[a]
      /\ \A k \in Sockets : k # Send(b) => inbox'[k] = inbox[k]
      /\ inbox'[Send(b)] = Append(w, e) \/ (MayIgnore /\ inbox'[Send(b)] = w)
  <2>1. b \in Sides /\ b # a /\ Send(b) \in Sockets
    BY DEF b
  <2>2. delivered'[b] = Tail(d) /\ delivered'[a] = delivered[a]
    BY <1>3, <2>1 DEF AskInv, Inv, TypeOK
  <2>3. /\ \A k \in Sockets : k # Send(b) => inbox'[k] = inbox[k]
        /\ inbox'[Send(b)] = Append(w, e) \/ (MayIgnore /\ inbox'[Send(b)] = w)
    <3>1. inbox \in [Sockets -> Seq(Datagram)] /\ inbox[Send(b)] = w
      BY DEF AskInv, Inv, TypeOK, w
    <3>2. CASE inbox' = [inbox EXCEPT ![Send(b)] = Append(w, e)]
      BY ONLY <2>1, <3>1, <3>2
    <3>3. CASE MayIgnore /\ inbox' = inbox
      BY <3>1, <3>3
    <3>4. QED
      BY <1>3, <3>2, <3>3
  <2>4. QED
    BY <2>2, <2>3
<1>9. OneWay(a)'
  <2>1. \A i \in 1..Len(delivered'[b]) : delivered'[b][i].via = "send" /\ delivered'[b][i].to = Port[b]
    <3>1. \A i \in 1..Len(d) : d[i].via = "send" /\ d[i].to = Port[b]
      BY DEF AskInv, OneWay, b, d
    <3>2. QED
      BY <1>7, <1>8, <3>1
  <2>3. OneWay(a)
    BY DEF AskInv
  <2>4. /\ inbox'[Recv(b)] = inbox[Recv(b)] /\ inbox'[Send(a)] = inbox[Send(a)]
        /\ inbox'[Recv(a)] = inbox[Recv(a)]
    BY <1>8 DEF b
  <2>5. /\ pc' = pc /\ current' = current /\ target' = target
        /\ delivered'[a] = delivered[a]
    BY ONLY <1>3, <1>8
  <2>6. QED
    BY ONLY <2>1, <2>3, <2>4, <2>5, Zenon DEF OneWay, b
<1>10. Popping(a)' = Popping(a) /\ Forwarding(a)' = Forwarding(a)
  BY <1>3 DEF Popping, Forwarding
<1>11. PortForEach(a)'
  <2>1. Len(queue) >= Popping(a) + Len(w) + Len(d) + Forwarding(a)
    BY DEF AskInv, AnswersFound, PortForEach, b, d, w
  <2>2. Popping(a) \in Nat /\ Forwarding(a) \in Nat /\ Len(queue) \in Nat
    <3>1. Len(queue) \in Nat /\ Popping(a) \in {0, 1} /\ Forwarding(a) \in {0, 1}
      BY ONLY AskInv(a), AskTypes
    <3>2. QED
      BY ONLY <3>1
  <2>3. Len(inbox'[Send(b)]) \in {Len(w), Len(w) + 1}
    BY <1>6, <1>8
  <2>4. Len(delivered'[b]) = Len(d) - 1
    BY <1>7, <1>8
  <2>5. Len(queue) >= Popping(a) + Len(inbox'[Send(b)]) + Len(delivered'[b]) + Forwarding(a)
    <3>1. Len(w) \in Nat /\ Len(d) \in Nat
      BY ONLY <1>1
    <3>2. QED
      BY ONLY <2>1, <2>2, <2>3, <2>4, <3>1, StillAPort, Zenon
  <2>6. QED
    BY <1>3, <1>10, <2>5 DEF PortForEach, b
<1>12. ASSUME ~MayIgnore
       PROVE  PortsInOrder(a)' /\ Addressed(a)'
  <2>1. ASSUME pc[Send(b)] # "closed"
        PROVE  Aligned(queue, Popping(a), current[Send(b)].request, w, d, Forwarding(a),
                       current[Recv(a)].request)
    BY <1>12, <2>1 DEF AskInv, AnswersFound, PortsInOrder, b, w, d
  <2>2. pc[Send(b)] # "closed" =>
        Aligned(queue, Popping(a), current[Send(b)].request, Append(w, e), Tail(d),
                Forwarding(a), current[Recv(a)].request)
    <3>1. queue \in Seq(AllPorts) /\ Popping(a) \in {0, 1} /\ Forwarding(a) \in {0, 1}
      BY AskTypes
    <3>2. e.request = Head(d).request /\ e \in Datagram
      BY <1>5
    <3>3. QED
      BY ONLY <1>1, <2>1, <3>1, <3>2, AlignedAnswer
  <2>3. inbox'[Send(b)] = Append(w, e)
    BY <1>8, <1>12
  <2>4. PortsInOrder(a)'
    <3>1. /\ queue' = queue /\ current' = current /\ pc' = pc
          /\ delivered'[b] = Tail(d) /\ inbox'[Send(b)] = Append(w, e)
      BY <1>3, <1>8, <2>3
    <3>2. QED
      BY ONLY <1>10, <2>2, <3>1 DEF PortsInOrder, Aligned, b
  <2>5. Addressed(a)'
    BY <1>3, <1>8, <1>12 DEF AskInv, AnswersFound, Addressed, b
  <2>6. QED
    BY <2>4, <2>5
<1>13. QED
  BY <1>9, <1>11, <1>12 DEF AnswersFound

\* The recv thread of the asking side receives a request.
LEMMA AskReceive ==
    ASSUME NEW a, Asks(a), AskInv(a), Receive(Recv(a))
    PROVE  (OneWay(a) /\ AnswersFound(a))'
<1> DEFINE k == Recv(a)
           w == inbox[k]
<1> USE SocketsDiffer, AskSockets DEF Asks
<1>1. /\ w \in Seq(Datagram) /\ Len(w) \in Nat /\ w # <<>>
      /\ k \in Sockets
  BY AskTypes DEF Receive
<1>2. /\ UNCHANGED <<process, queue, target, delivered, requests>>
      /\ inbox' = [inbox EXCEPT ![k] = Tail(w)]
      /\ current' = [current EXCEPT ![k] = Head(w)]
      /\ pc[k] = "recvfrom"
      /\ pc' = [pc EXCEPT ![k] = IF Head(w).empty THEN "closed" ELSE "target"]
  BY DEF Receive, Goto
<1>3. Head(w).from = Head(w).request
  <2>1. 1 \in 1..Len(w) /\ Head(w) = w[1]
    BY <1>1, EmptySeq
  <2>2. \A i \in 1..Len(w) : w[i].from = w[i].request
    BY DEF AskInv, OneWay
  <2>3. QED
    BY <2>1, <2>2
<1> HIDE DEF w, k
<1>4. /\ \A i \in 1..Len(Tail(w)) : Tail(w)[i] = w[i + 1]
      /\ \A i \in 1..Len(Tail(w)) : i + 1 \in 1..Len(w)
  BY <1>1, HeadTailProperties
<1>5. \A j \in Sockets : j # k => /\ inbox'[j] = inbox[j]
                                  /\ current'[j] = current[j]
                                  /\ pc'[j] = pc[j]
  BY <1>2 DEF AskInv, Inv, TypeOK
<1>6. inbox'[k] = Tail(w) /\ current'[k] = Head(w) /\ pc'[k] \in {"closed", "target"}
  BY <1>1, <1>2 DEF AskInv, Inv, TypeOK
<1>7. OneWay(a)'
  <2>1. \A i \in 1..Len(inbox'[k]) : inbox'[k][i].from = inbox'[k][i].request
    <3>1. \A i \in 1..Len(w) : w[i].from = w[i].request
      BY DEF AskInv, OneWay, w, k
    <3>2. QED
      BY <1>4, <1>6, <3>1
  <2>2. QED
    BY <1>2, <1>3, <1>5, <1>6, <2>1 DEF AskInv, OneWay, k
<1>8. AnswersFound(a)'
  BY <1>2, <1>5, <1>6, AnswersKept DEF AskInv, k
<1>9. QED
  BY <1>7, <1>8

\* The send thread of the other side receives an answer, for which there is a port.
LEMMA AnswerReceive ==
    ASSUME NEW a, Asks(a), AskInv(a), Receive(Send(Other(a)))
    PROVE  (OneWay(a) /\ AnswersFound(a))'
<1> DEFINE b == Other(a)
           k == Send(b)
           w == inbox[k]
<1> USE SocketsDiffer, AskSockets DEF Asks
<1>0. /\ Len(queue) \in Nat /\ Forwarding(a) \in {0, 1}
      /\ \A t \in Sides : Len(delivered[t]) \in Nat
  BY ONLY AskInv(a), AskTypes, Zenon
<1>1. /\ w \in Seq(Datagram) /\ Len(w) \in Nat /\ w # <<>>
      /\ k \in Sockets
  BY AskTypes DEF Receive
<1> DEFINE to == IF Head(w).empty THEN "closed" ELSE "target"
<1>3. /\ UNCHANGED <<process, queue, target, delivered, requests>>
      /\ inbox' = [inbox EXCEPT ![k] = Tail(w)]
      /\ current' = [current EXCEPT ![k] = Head(w)]
      /\ pc[k] = "recvfrom"
      /\ pc' = [pc EXCEPT ![k] = to]
      /\ to \in {"closed", "target"}
  BY DEF Receive, Goto
<1> HIDE DEF w, k, b, to
<1>4. /\ \A i \in 1..Len(Tail(w)) : Tail(w)[i] = w[i + 1]
      /\ \A i \in 1..Len(Tail(w)) : i + 1 \in 1..Len(w)
      /\ Len(Tail(w)) = Len(w) - 1
  BY <1>1, HeadTailProperties
<1>5. \A j \in Sockets : j # k => /\ inbox'[j] = inbox[j]
                                  /\ current'[j] = current[j]
                                  /\ pc'[j] = pc[j]
  BY <1>3 DEF AskInv, Inv, TypeOK
<1>6. inbox'[k] = Tail(w) /\ current'[k] = Head(w) /\ pc'[k] = to
  BY <1>1, <1>3 DEF AskInv, Inv, TypeOK
<1>7. OneWay(a)'
  <2>2. OneWay(a)
    BY DEF AskInv
  <2>3. \A j \in {Recv(b), Send(a), Recv(a)} :
            inbox'[j] = inbox[j] /\ current'[j] = current[j] /\ pc'[j] = pc[j]
    BY <1>5 DEF k, b
  <2>4. delivered' = delivered /\ target' = target
    BY ONLY <1>3, <1>6
  <2>5. QED
    BY ONLY <2>2, <2>3, <2>4 DEF OneWay, k, b
<1>8. Recv(a) # k
  BY DEF k, b
<1>9. /\ Popping(a) = 0 /\ Popping(a)' = IF to = "target" THEN 1 ELSE 0
      /\ Forwarding(a)' = Forwarding(a)
  BY <1>3, <1>5, <1>6, <1>8 DEF Popping, Forwarding, k, b
<1>10. PortForEach(a)'
  <2>1. Len(queue) >= 0 + Len(w) + Len(delivered[b]) + Forwarding(a)
    BY <1>9 DEF AskInv, AnswersFound, PortForEach, b, k, w
  <2>2. Forwarding(a) \in Nat /\ Len(queue) \in Nat /\ Len(delivered[b]) \in Nat
    <3>1. b \in Sides
      BY DEF b
    <3>2. QED
      BY ONLY <3>1, <1>0, 0 \in Nat /\ 1 \in Nat, Zenon
  <2>3. Len(queue) >= 1 + Len(Tail(w)) + Len(delivered[b]) + Forwarding(a)
    BY <1>1, <1>4, <2>1, <2>2
  <2>4. Len(Tail(w)) \in Nat
    BY <1>1, <1>4, EmptySeq
  <2>5. Len(queue) >= 0 + Len(Tail(w)) + Len(delivered[b]) + Forwarding(a)
    <3> DEFINE x == Len(Tail(w))
               y == Len(delivered[b])
               z == Forwarding(a)
               n == Len(queue)
    <3>1. x \in Nat /\ y \in Nat /\ z \in Nat /\ n \in Nat /\ n >= 1 + x + y + z
      BY ONLY <2>2, <2>3, <2>4
    <3> HIDE DEF x, y, z, n
    <3>2. n >= 0 + x + y + z
      BY ONLY <3>1
    <3>3. QED
      BY ONLY <3>2 DEF x, y, z, n
  <2>6. QED
    BY <1>3, <1>6, <1>9, <2>3, <2>5 DEF PortForEach, b, k
<1>11. ASSUME ~MayIgnore
       PROVE  PortsInOrder(a)' /\ Addressed(a)'
  <2>1. Aligned(queue, 0, current[k].request, w, delivered[b], Forwarding(a),
                current[Recv(a)].request)
    BY <1>3, <1>9, <1>11 DEF AskInv, AnswersFound, PortsInOrder, b, k, w
  <2>2. Aligned(queue, 1, Head(w).request, Tail(w), delivered[b], Forwarding(a),
                current[Recv(a)].request)
    <3>1. /\ queue \in Seq(AllPorts) /\ delivered[b] \in Seq(Delivery)
          /\ Forwarding(a) \in {0, 1}
      BY AskTypes DEF b
    <3>2. QED
      BY ONLY <1>1, <2>1, <3>1, AlignedReceive
  <2>3. /\ queue' = queue /\ delivered' = delivered
        /\ current'[k] = Head(w) /\ current'[Recv(a)] = current[Recv(a)]
        /\ inbox'[k] = Tail(w) /\ pc'[k] = to
    BY <1>3, <1>5, <1>6, <1>8
  <2>4. PortsInOrder(a)'
    <3>1. pc'[k] # "closed" => to = "target"
      BY ONLY <1>3, <2>3
    <3>2. QED
      BY ONLY <1>9, <2>2, <2>3, <3>1 DEF PortsInOrder, Aligned, b, k
  <2>5. Addressed(a)'
    <3>1. pc'[k] # "sendto"
      BY ONLY <1>3, <1>6
    <3>2. QED
      BY <1>3, <1>11, <3>1 DEF AskInv, AnswersFound, Addressed, k, b
  <2>6. QED
    BY <2>4, <2>5
<1>12. QED
  BY <1>7, <1>10, <1>11 DEF AnswersFound

\* The recv thread chooses the configured port, and leaves the queue alone.
LEMMA AskTarget ==
    ASSUME NEW a, Asks(a), AskInv(a), RecvTarget(a)
    PROVE  (OneWay(a) /\ AnswersFound(a))'
<1> USE SocketsDiffer, AskSockets DEF Asks
<1>1. /\ UNCHANGED <<process, inbox, current, delivered, requests, queue>>
      /\ pc[Recv(a)] = "target"
      /\ pc' = [pc EXCEPT ![Recv(a)] = "store"]
      /\ target' = [target EXCEPT ![Recv(a)] = Port[Other(a)]]
  BY DEF RecvTarget, ChooseTarget, Goto
<1>2. /\ \A j \in Sockets : j # Recv(a) => pc'[j] = pc[j] /\ target'[j] = target[j]
      /\ pc'[Recv(a)] = "store" /\ target'[Recv(a)] = Port[Other(a)]
  BY <1>1 DEF AskInv, Inv, TypeOK
<1>3. OneWay(a)'
  BY <1>1, <1>2 DEF AskInv, OneWay
<1>4. AnswersFound(a)'
  BY <1>1, <1>2, AnswersKept DEF AskInv
<1>5. QED
  BY <1>3, <1>4

\* It pushes the port of the request before it forwards the request.
LEMMA AskStore ==
    ASSUME NEW a, Asks(a), AskInv(a), RecvStore(a)
    PROVE  (OneWay(a) /\ AnswersFound(a))'
<1> DEFINE b == Other(a)
           k == Recv(a)
           p == current[k].request
<1> USE SocketsDiffer, AskSockets DEF Asks
<1>1. /\ UNCHANGED <<process, inbox, current, target, delivered, requests>>
      /\ pc[k] = "store"
      /\ pc' = [pc EXCEPT ![k] = "sendto"]
      /\ queue' = Append(queue, p)
  BY DEF RecvStore, Goto, AskInv, OneWay
<1>2. p \in AllPorts /\ queue \in Seq(AllPorts) /\ Len(queue) \in Nat
  BY AskTypes DEF Datagram
<1>3. Len(Append(queue, p)) = Len(queue) + 1
  BY <1>2, AppendProperties
<1> HIDE DEF p, k, b
<1>4. /\ \A j \in Sockets : j # k => pc'[j] = pc[j]
      /\ pc'[k] = "sendto"
  BY <1>1 DEF AskInv, Inv, TypeOK, k
<1>5. OneWay(a)'
  BY <1>1, <1>4 DEF AskInv, OneWay, k
<1>6. /\ Popping(a)' = Popping(a)
      /\ Forwarding(a) = 0 /\ Forwarding(a)' = 1
  BY <1>1, <1>4 DEF Popping, Forwarding, k
<1>7. PortForEach(a)'
  <2>1. Len(queue) >= Popping(a) + Len(inbox[Send(b)]) + Len(delivered[b]) + 0
    BY <1>6 DEF AskInv, AnswersFound, PortForEach, b
  <2>2. Popping(a) \in Nat /\ Len(inbox[Send(b)]) \in Nat /\ Len(delivered[b]) \in Nat
    BY AskTypes DEF b
  <2>3. Len(queue') >= Popping(a) + Len(inbox[Send(b)]) + Len(delivered[b]) + 1
    BY <1>1, <1>2, <1>3, <2>1, <2>2
  <2>4. QED
    BY <1>1, <1>6, <2>3 DEF PortForEach, b
<1>8. ASSUME ~MayIgnore
      PROVE  PortsInOrder(a)' /\ Addressed(a)'
  <2>1. pc[Send(b)] # "closed" =>
        Aligned(queue, Popping(a), current[Send(b)].request, inbox[Send(b)], delivered[b], 0, p)
    BY <1>6, <1>8 DEF AskInv, AnswersFound, PortsInOrder, b, k, p
  <2>2. pc[Send(b)] # "closed" =>
        Aligned(Append(queue, p), Popping(a), current[Send(b)].request, inbox[Send(b)],
                delivered[b], 1, p)
    <3>1. /\ inbox[Send(b)] \in Seq(Datagram) /\ delivered[b] \in Seq(Delivery)
          /\ Popping(a) \in {0, 1}
      BY AskTypes DEF b
    <3>2. QED
      BY ONLY <1>2, <2>1, <3>1, AlignedStore
  <2>4. Send(b) # k /\ Send(b) \in Sockets
    BY DEF b, k
  <2>3. PortsInOrder(a)'
    <3>1. pc'[Send(b)] = pc[Send(b)]
      BY ONLY <1>4, <2>4
    <3>2. QED
      BY ONLY <1>1, <1>6, <2>2, <3>1 DEF PortsInOrder, Aligned, b, k, p
  <2>5. Addressed(a)'
    BY <1>1, <1>4, <1>8, <2>4 DEF AskInv, AnswersFound, Addressed, b
  <2>6. QED
    BY <2>3, <2>5
<1>9. QED
  BY <1>5, <1>7, <1>8 DEF AnswersFound

\* The send thread finds a port in the queue, that of the answer.
LEMMA AnswerTarget ==
    ASSUME NEW a, Asks(a), AskInv(a), SendTarget(Other(a))
    PROVE  (OneWay(a) /\ AnswersFound(a))'
<1> DEFINE b == Other(a)
           k == Send(b)
<1> USE SocketsDiffer, AskSockets DEF Asks
<1>1. pc[k] = "target" /\ k \in Sockets
  BY DEF SendTarget, Goto
<1>2. queue \in Seq(AllPorts) /\ Len(queue) \in Nat
  BY AskTypes
<1>3. Popping(a) = 1
  BY <1>1 DEF Popping
<1>4. Len(queue) >= 1 + Len(inbox[k]) + Len(delivered[b]) + Forwarding(a)
  BY <1>3 DEF AskInv, AnswersFound, PortForEach
<1>5. Len(queue) >= 1 /\ Len(queue) - 1 >= 0 + Len(inbox[k]) + Len(delivered[b]) + Forwarding(a)
  <2>1. Forwarding(a) \in Nat /\ Len(inbox[k]) \in Nat /\ Len(delivered[b]) \in Nat
    BY AskTypes
  <2>2. QED
    BY ONLY <1>2, <1>4, <2>1, OneLess
<1>6. queue # <<>>
  BY ONLY <1>5
<1>7. /\ UNCHANGED <<process, inbox, current, delivered, requests>>
      /\ pc' = [pc EXCEPT ![k] = "sendto"]
      /\ target' = [target EXCEPT ![k] = Head(queue)]
      /\ queue' = Tail(queue)
  BY <1>6 DEF SendTarget, ChooseTarget, Goto
<1>8. Len(Tail(queue)) = Len(queue) - 1
  BY <1>2, <1>6, HeadTailProperties
<1> HIDE DEF k, b
<1>9. /\ \A j \in Sockets : j # k => pc'[j] = pc[j] /\ target'[j] = target[j]
      /\ pc'[k] = "sendto" /\ target'[k] = Head(queue)
  BY <1>1, <1>7 DEF AskInv, Inv, TypeOK
<1>10. Recv(a) # k /\ Send(a) # k /\ Recv(b) # k
  BY DEF k, b
<1>11. OneWay(a)'
  BY <1>7, <1>9, <1>10 DEF AskInv, OneWay, k, b
<1>12. Popping(a)' = 0 /\ Forwarding(a)' = Forwarding(a)
  BY <1>9, <1>10 DEF Popping, Forwarding, k, b
<1>13. PortForEach(a)'
  <2>1. Len(queue') >= 0 + Len(inbox[k]) + Len(delivered[b]) + Forwarding(a)
    BY <1>5, <1>7, <1>8
  <2>2. QED
    BY <1>7, <1>12, <2>1 DEF PortForEach, k, b
<1>14. ASSUME ~MayIgnore
       PROVE  PortsInOrder(a)' /\ Addressed(a)'
  <2>1. Aligned(queue, 1, current[k].request, inbox[k], delivered[b], Forwarding(a),
                current[Recv(a)].request)
    BY <1>1, <1>3, <1>14 DEF AskInv, AnswersFound, PortsInOrder, b, k
  <2>2. /\ Head(queue) = current[k].request
        /\ Aligned(Tail(queue), 0, current[k].request, inbox[k], delivered[b],
                   Forwarding(a), current[Recv(a)].request)
    <3>1. /\ inbox[k] \in Seq(Datagram) /\ delivered[b] \in Seq(Delivery)
          /\ Forwarding(a) \in {0, 1}
      BY <1>1, AskTypes DEF b
    <3>2. queue \in Seq(AllPorts)
      BY <1>2
    <3> DEFINE x == current[k].request
               y == current[Recv(a)].request
               w == inbox[k]
               d == delivered[b]
               f == Forwarding(a)
    <3>3. w \in Seq(Datagram) /\ d \in Seq(Delivery) /\ f \in {0, 1} /\ Aligned(queue, 1, x, w, d, f, y)
      BY ONLY <2>1, <3>1
    <3> HIDE DEF x, y, w, d, f
    <3>4. PopsTo(queue, x, w, d, f, y)
      BY ONLY <3>2, <3>3, AlignedPop
    <3>5. QED
      BY ONLY <3>4, Zenon DEF PopsTo, x, y, w, d, f
  <2>3. PortsInOrder(a)'
    BY ONLY <1>7, <1>12, <2>2 DEF PortsInOrder, Aligned, b, k
  <2>4. Addressed(a)'
    BY <1>7, <1>9, <1>14, <2>2 DEF AskInv, AnswersFound, Addressed, b, k
  <2>5. QED
    BY <2>3, <2>4
<1>15. QED
  BY <1>11, <1>13, <1>14 DEF AnswersFound

\* The recv thread forwards a request to the other side, whose send socket is open.
LEMMA AskForward ==
    ASSUME NEW a, Asks(a), AskInv(a), Forward(Recv(a))
    PROVE  (OneWay(a) /\ AnswersFound(a))'
<1> DEFINE b == Other(a)
           k == Recv(a)
           d == delivered[b]
           Sent(empty) == [to |-> Port[b], via |-> "send", request |-> current[k].request,
                           empty |-> empty]
<1> USE SocketsDiffer, AskSockets DEF Asks
<1>0. /\ UNCHANGED <<process, queue, inbox, current, target, requests>>
      /\ pc[k] = "sendto"
      /\ \/ /\ pc' = [pc EXCEPT ![k] = "recvfrom"]
            /\ pc[Send(b)] # "closed"
            /\ \E empty \in BOOLEAN : delivered' = [delivered EXCEPT ![b] = Append(d, Sent(empty))]
         \/ /\ pc' = [pc EXCEPT ![k] = "recvfrom"]
            /\ pc[Send(b)] = "closed" /\ delivered' = delivered
         \/ pc' = [pc EXCEPT ![k] = "stuck"] /\ delivered' = delivered
  <2>1. Exit(k) = Send(b) /\ Exit(k)[1] = "send" /\ Other(k[2]) = b
    OBVIOUS
  <2>2. pc[k] = "sendto" /\ target[k] = Port[b]
    BY DEF Forward, Goto, AskInv, OneWay
  <2>3. ("malloc" \in Failing) \in BOOLEAN
    OBVIOUS
  <2>4. /\ UNCHANGED <<process, queue, inbox, current, target, requests>>
        /\ \/ /\ pc' = [pc EXCEPT ![k] = "recvfrom"]
              /\ \E empty \in BOOLEAN :
                    delivered' = IF pc[Send(b)] = "closed" THEN delivered
                                 ELSE [delivered EXCEPT ![b] = Append(d, Sent(empty))]
           \/ pc' = [pc EXCEPT ![k] = "stuck"] /\ delivered' = delivered
    <3>1. Exit(k)[1] = "send" /\ Other(k[2]) = b /\ Exit(k) = Send(b) /\ target[k] = Port[b]
      BY <2>1, <2>2
    <3>2. Forward(k)
      OBVIOUS
    <3> HIDE DEF k, b
    <3>3. QED
      BY ONLY <2>3, <3>1, <3>2 DEF Forward, Goto, d, Sent
  <2>5. QED
    BY <2>2, <2>4
<1>a. CASE pc' = [pc EXCEPT ![k] = "stuck"] /\ delivered' = delivered
  <2>1. /\ \A j \in Sockets : j # k => pc'[j] = pc[j]
        /\ pc'[k] = "stuck"
    BY <1>a DEF AskInv, Inv, TypeOK
  <2>2. OneWay(a)'
    BY <1>0, <1>a, <2>1 DEF AskInv, OneWay
  <2>3. AnswersFound(a)'
    BY <1>0, <1>a, <2>1, AnswersKept DEF AskInv
  <2>4. QED
    BY <2>2, <2>3
<1>b. CASE pc' = [pc EXCEPT ![k] = "recvfrom"] /\ pc[Send(b)] = "closed" /\ delivered' = delivered
  <2>1. /\ \A j \in Sockets : j # k => pc'[j] = pc[j]
        /\ pc'[k] = "recvfrom"
    BY <1>b DEF AskInv, Inv, TypeOK
  <2>2. OneWay(a)'
    BY <1>0, <1>b, <2>1 DEF AskInv, OneWay
  <2>3. Popping(a)' = Popping(a) /\ Forwarding(a) = 1 /\ Forwarding(a)' = 0
    BY <1>0, <2>1 DEF Popping, Forwarding
  <2>4. PortForEach(a)'
    <3> DEFINE n == Len(queue)
               x == Popping(a)
               y == Len(inbox[Send(b)])
               z == Len(delivered[b])
    <3>1. n \in Nat /\ x \in {0, 1} /\ y \in Nat /\ z \in Nat
      BY AskTypes
    <3>2. n >= x + y + z + 1
      BY <2>3 DEF AskInv, AnswersFound, PortForEach
    <3> HIDE DEF n, x, y, z
    <3>3. n >= x + y + z + 0
      BY ONLY <3>1, <3>2
    <3>4. QED
      BY <1>0, <1>b, <2>3, <3>3 DEF PortForEach, n, x, y, z
  <2>5. PortsInOrder(a)' /\ (Addressed(a) => Addressed(a)')
    BY <1>0, <1>b, <2>1 DEF PortsInOrder, Addressed
  <2>6. QED
    BY <2>2, <2>4, <2>5 DEF AskInv, AnswersFound
<1> SUFFICES ASSUME NEW empty \in BOOLEAN,
                    pc' = [pc EXCEPT ![k] = "recvfrom"],
                    delivered' = [delivered EXCEPT ![b] = Append(d, Sent(empty))]
             PROVE  (OneWay(a) /\ AnswersFound(a))'
  BY <1>0, <1>a, <1>b
<1> DEFINE e == Sent(empty)
<1>1. /\ UNCHANGED <<process, queue, inbox, current, target, requests>>
      /\ pc[k] = "sendto"
      /\ pc' = [pc EXCEPT ![k] = "recvfrom"]
      /\ delivered' = [delivered EXCEPT ![b] = Append(d, e)]
  BY <1>0
<1>2. d \in Seq(Delivery) /\ Len(d) \in Nat
  BY AskTypes
<1>3. e \in Delivery
  <2>1. current[k] \in Datagram /\ Port[b] \in AllPorts
    BY AskTypes, ConfiguredIsPort
  <2>2. QED
    BY <2>1 DEF Delivery, Datagram
<1>4. e.to = Port[b] /\ e.via = "send" /\ e.request = current[k].request
  OBVIOUS
<1> HIDE DEF b, k, d, e, Sent
<1>5. /\ Len(Append(d, e)) = Len(d) + 1
      /\ \A i \in 1..Len(d) : Append(d, e)[i] = d[i]
      /\ Append(d, e)[Len(d) + 1] = e
  BY <1>2, <1>3, AppendProperties
<1>6. /\ \A j \in Sockets : j # k => pc'[j] = pc[j]
      /\ pc'[k] = "recvfrom"
  BY <1>1 DEF AskInv, Inv, TypeOK, k
<1>7. delivered'[b] = Append(d, e) /\ delivered'[a] = delivered[a]
  <2>1. delivered \in [Sides -> Seq(Delivery)] /\ a \in Sides /\ b \in Sides /\ a # b
    BY AskFunctions DEF b
  <2>2. delivered' = [delivered EXCEPT ![b] = Append(d, e)]
    BY <1>1
  <2>3. QED
    BY ONLY <2>1, <2>2, OneUpdated
<1>8. OneWay(a)'
  <2>1. \A i \in 1..Len(delivered'[b]) : delivered'[b][i].via = "send" /\ delivered'[b][i].to = Port[b]
    <3>1. \A i \in 1..Len(d) : d[i].via = "send" /\ d[i].to = Port[b]
      BY DEF AskInv, OneWay, b, d
    <3>2. \A i \in 1..Len(Append(d, e)) : i \in 1..Len(d) \/ i = Len(d) + 1
      BY <1>2, <1>5
    <3>3. QED
      BY <1>4, <1>5, <1>7, <3>1, <3>2
  <2>2. QED
    BY <1>1, <1>6, <1>7, <2>1 DEF AskInv, OneWay, k, b
<1>9. /\ Popping(a)' = Popping(a)
      /\ Forwarding(a) = 1 /\ Forwarding(a)' = 0
  BY <1>1, <1>6 DEF Popping, Forwarding, k
<1>10. PortForEach(a)'
  <2>1. Len(queue) >= Popping(a) + Len(inbox[Send(b)]) + Len(d) + 1
    BY <1>9 DEF AskInv, AnswersFound, PortForEach, b, d
  <2>2. Popping(a) \in Nat /\ Len(inbox[Send(b)]) \in Nat /\ Len(queue) \in Nat
    <3>1. /\ Len(queue) \in Nat /\ Popping(a) \in {0, 1}
          /\ \A j \in Sockets : Len(inbox[j]) \in Nat
      BY ONLY AskInv(a), AskTypes
    <3>2. Send(b) \in Sockets
      BY DEF b
    <3>3. QED
      BY ONLY <3>1, <3>2
  <2>3. Len(queue) >= Popping(a) + Len(inbox[Send(b)]) + (Len(d) + 1) + 0
    BY <1>2, <2>1, <2>2
  <2>4. QED
    BY <1>1, <1>5, <1>7, <1>9, <2>3 DEF PortForEach, b
<1>11. ASSUME ~MayIgnore
       PROVE  PortsInOrder(a)' /\ Addressed(a)'
  <2>1. pc[Send(b)] # "closed" =>
        Aligned(queue, Popping(a), current[Send(b)].request, inbox[Send(b)], d, 1,
                current[k].request)
    BY <1>9, <1>11 DEF AskInv, AnswersFound, PortsInOrder, b, k, d
  <2>2. pc[Send(b)] # "closed" =>
        Aligned(queue, Popping(a), current[Send(b)].request, inbox[Send(b)], Append(d, e), 0,
                current[k].request)
    <3>1. /\ inbox[Send(b)] \in Seq(Datagram) /\ queue \in Seq(AllPorts)
          /\ Popping(a) \in {0, 1}
      BY AskTypes DEF b
    <3>2. QED
      BY ONLY <1>2, <1>3, <1>4, <2>1, <3>1, AlignedForward
  <2>4. Send(b) # k /\ Send(b) \in Sockets
    BY DEF b, k
  <2>3. PortsInOrder(a)'
    <3>1. pc'[Send(b)] = pc[Send(b)]
      BY ONLY <1>6, <2>4
    <3>2. QED
      BY ONLY <1>1, <1>7, <1>9, <2>2, <3>1 DEF PortsInOrder, Aligned, b, k
  <2>5. Addressed(a)'
    BY <1>1, <1>6, <1>7, <1>11, <2>4 DEF AskInv, AnswersFound, Addressed, b
  <2>6. QED
    BY <2>3, <2>5
<1>12. QED
  BY <1>8, <1>10, <1>11 DEF AnswersFound

\* The send thread takes an answer back, to the port it popped, or finds its
\* socket closed.
LEMMA AnswerForward ==
    ASSUME NEW a, Asks(a), AskInv(a), Forward(Send(Other(a)))
    PROVE  (OneWay(a) /\ AnswersFound(a))'
<1> DEFINE b == Other(a)
           k == Send(b)
           d == delivered[a]
           Sent(empty) == [to |-> target[k], via |-> "recv", request |-> current[k].request,
                           empty |-> empty]
<1> USE SocketsDiffer, AskSockets DEF Asks
<1>0. PICK empty \in BOOLEAN, to \in {"recvfrom", "stuck"} :
        /\ UNCHANGED <<process, queue, inbox, current, target, requests>>
        /\ pc[k] = "sendto"
        /\ pc' = [pc EXCEPT ![k] = to]
        /\ \/ delivered' = [delivered EXCEPT ![a] = Append(d, Sent(empty))]
           \/ delivered' = delivered
  <2>1. Exit(k)[1] = "recv" /\ Other(k[2]) = a
    OBVIOUS
  <2>2. ("malloc" \in Failing) \in BOOLEAN
    OBVIOUS
  <2>3. Forward(k)
    OBVIOUS
  <2> HIDE DEF k, b
  <2>4. QED
    BY ONLY <2>1, <2>2, <2>3 DEF Forward, Goto, d, Sent
<1> DEFINE e == Sent(empty)
<1>1. /\ UNCHANGED <<process, queue, inbox, current, target, requests>>
      /\ pc[k] = "sendto"
      /\ pc' = [pc EXCEPT ![k] = to]
      /\ \/ delivered' = [delivered EXCEPT ![a] = Append(d, e)]
         \/ delivered' = delivered
  BY <1>0
<1>2. d \in Seq(Delivery) /\ Len(d) \in Nat
  BY AskTypes
<1>3. e \in Delivery
  <2>1. current[k] \in Datagram /\ target[k] \in AllPorts
    BY AskTypes
  <2>2. QED
    BY <2>1 DEF Delivery, Datagram
<1>4. e.to = target[k] /\ e.via = "recv" /\ e.request = current[k].request
  OBVIOUS
<1> HIDE DEF b, k, d, e, Sent
<1>5. /\ Len(Append(d, e)) = Len(d) + 1
      /\ \A i \in 1..Len(d) : Append(d, e)[i] = d[i]
      /\ Append(d, e)[Len(d) + 1] = e
  BY <1>2, <1>3, AppendProperties
<1>6. \A i \in 1..Len(Append(d, e)) : i \in 1..Len(d) \/ i = Len(d) + 1
  BY <1>2, <1>5
<1>7. /\ \A j \in Sockets : j # k => pc'[j] = pc[j]
      /\ pc'[k] = to
  BY <1>1 DEF AskInv, Inv, TypeOK, k, b
<1>8. /\ delivered'[a] = Append(d, e) \/ delivered'[a] = d
      /\ delivered'[b] = delivered[b]
  <2>1. delivered \in [Sides -> Seq(Delivery)] /\ a \in Sides /\ b \in Sides /\ a # b
    BY AskFunctions DEF b
  <2>2. CASE delivered' = [delivered EXCEPT ![a] = Append(d, e)]
    BY ONLY <2>1, <2>2, OneUpdated
  <2>3. CASE delivered' = delivered
    BY <2>3 DEF d
  <2>4. QED
    BY <1>1, <2>2, <2>3
<1>9. Recv(a) # k /\ Recv(b) # k /\ Send(a) # k
  BY DEF k, b
<1>10. OneWay(a)'
  <2>1. \A i \in 1..Len(delivered'[a]) : delivered'[a][i].via = "recv"
    <3>1. \A i \in 1..Len(d) : d[i].via = "recv"
      BY DEF AskInv, OneWay, d
    <3>2. QED
      BY <1>4, <1>5, <1>6, <1>8, <3>1
  <2>2. OneWay(a)
    BY DEF AskInv
  <2>3. /\ pc'[Recv(b)] = pc[Recv(b)] /\ pc'[Send(a)] = pc[Send(a)]
        /\ pc'[Recv(a)] = pc[Recv(a)]
        /\ delivered'[b] = delivered[b]
    BY <1>7, <1>8, <1>9 DEF k, b
  <2>4. inbox' = inbox /\ current' = current /\ target' = target
    BY ONLY <1>1
  <2>5. QED
    BY ONLY <2>1, <2>2, <2>3, <2>4, Zenon DEF OneWay, b
<1>11. Popping(a)' = Popping(a) /\ Forwarding(a)' = Forwarding(a)
  BY <1>1, <1>7, <1>9 DEF Popping, Forwarding, k, b
<1>12. PortForEach(a)'
  BY <1>1, <1>8, <1>11 DEF AskInv, AnswersFound, PortForEach, b
<1>13. ASSUME ~MayIgnore
       PROVE  PortsInOrder(a)' /\ Addressed(a)'
  <2>1. PortsInOrder(a)
    BY <1>13 DEF AskInv, AnswersFound
  <2>2. PortsInOrder(a)'
    <3>1. pc[k] # "closed"
      BY ONLY <1>1
    <3>2. QED
      BY ONLY <1>1, <1>8, <1>11, <2>1, <3>1 DEF PortsInOrder, Aligned, b, k
  <2>3. /\ target[k] = current[k].request
        /\ \A i \in 1..Len(d) : d[i].to = d[i].request
    BY <1>1, <1>13 DEF AskInv, AnswersFound, Addressed, k, b, d
  <2>4. \A i \in 1..Len(delivered'[a]) : delivered'[a][i].to = delivered'[a][i].request
    <3>1. e.to = e.request
      BY <1>4, <2>3
    <3>2. \A i \in 1..Len(Append(d, e)) : Append(d, e)[i].to = Append(d, e)[i].request
      BY ONLY <1>5, <1>6, <2>3, <3>1
    <3>3. QED
      BY ONLY <1>8, <2>3, <3>2
  <2>5. Addressed(a)'
    BY <1>7, <2>4 DEF Addressed, k, b
  <2>6. QED
    BY <2>2, <2>5
<1>14. QED
  BY <1>10, <1>12, <1>13 DEF AnswersFound

\* The other threads have nothing to do.
LEMMA IdleThreads ==
    ASSUME NEW a, Asks(a), AskInv(a), NEW k \in {Recv(Other(a)), Send(a)}
    PROVE  ~ThreadStep(k)
<1> USE SocketsDiffer, AskSockets DEF Asks
<1>1. inbox[k] = <<>> /\ pc[k] \in {"missing", "recvfrom"}
  BY DEF AskInv, OneWay
<1>2. k = Recv(k[2]) \/ k = Send(k[2])
  OBVIOUS
<1>3. k[1] = "recv" => k = Recv(k[2])
  OBVIOUS
<1>4. k[1] = "send" => k = Send(k[2])
  OBVIOUS
<1>5. QED
  BY <1>1, <1>3, <1>4 DEF ThreadStep, Receive, RecvTarget, RecvStore, SendTarget, Forward, Goto

\* The invariant is inductive.
LEMMA AskNext ==
    ASSUME NEW a, Asks(a)
    PROVE  AskInv(a) /\ [Next]_vars => AskInv(a)'
<1> SUFFICES ASSUME AskInv(a), [Next]_vars PROVE AskInv(a)'
  OBVIOUS
<1> USE SocketsDiffer, AskSockets
<1>1. Inv'
  BY NextInv DEF AskInv
<1>2. ASSUME NEW s \in Requesters, EntityRequests(s)
      PROVE  (OneWay(a) /\ AnswersFound(a))'
  BY <1>2, AskEntityRequests
<1>3. ASSUME NEW s \in Sides, EntityReceives(s)
      PROVE  (OneWay(a) /\ AnswersFound(a))'
  BY <1>3, AskerReceives, AnswererReceives
<1>4. ASSUME NEW k \in Sockets, ThreadStep(k)
      PROVE  (OneWay(a) /\ AnswersFound(a))'
  <2>1. k = Recv(a) \/ k = Send(Other(a))
    BY <1>4, IdleThreads
  <2>2. CASE k = Recv(a)
    <3>1. Receive(Recv(a)) \/ RecvTarget(a) \/ RecvStore(a) \/ Forward(Recv(a))
      BY <1>4, <2>2 DEF ThreadStep, Asks
    <3>2. QED
      BY <3>1, AskReceive, AskTarget, AskStore, AskForward
  <2>3. CASE k = Send(Other(a))
    <3>1. Receive(k) \/ SendTarget(Other(a)) \/ Forward(k)
      BY <1>4, <2>3 DEF ThreadStep, Asks
    <3>2. QED
      BY <2>3, <3>1, AnswerReceive, AnswerTarget, AnswerForward
  <2>4. QED
    BY <2>1, <2>2, <2>3
<1>5. CASE ProxyEnds \/ MainLeavesTry \/ UNCHANGED vars
  <2>1. UNCHANGED <<queue, inbox, pc, current, target, delivered, requests>>
    BY <1>5 DEF ProxyEnds, MainLeavesTry, vars
  <2>2. AnswersFound(a)'
    BY <2>1, AnswersKept DEF AskInv
  <2>3. OneWay(a)'
    BY <2>1 DEF AskInv, OneWay
  <2>4. QED
    BY <1>1, <2>2, <2>3 DEF AskInv
<1>6. QED
  BY <1>1, <1>2, <1>3, <1>4, <1>5 DEF Next, AskInv

\* The invariant holds initially.
LEMMA AskInit ==
    ASSUME NEW a, Asks(a)
    PROVE  Init => AskInv(a)
<1> SUFFICES ASSUME Init PROVE AskInv(a)
  OBVIOUS
<1> USE SocketsDiffer, AskSockets DEF Asks, Init
<1>1. Inv
  BY InitInv
<1>2. /\ \A k \in Sockets : pc[k] \in {"missing", "recvfrom"} /\ inbox[k] = <<>>
      /\ \A s \in Sides : delivered[s] = <<>>
      /\ queue = <<>>
  BY DEF SendThreads
<1>3. Popping(a) = 0 /\ Forwarding(a) = 0
  BY <1>2 DEF Popping, Forwarding
<1>4. OneWay(a)
  <2>1. Recv(a) \in Sockets /\ Recv(Other(a)) \in Sockets
        /\ Send(a) \in Sockets /\ Send(Other(a)) \in Sockets /\ Other(a) \in Sides /\ a \in Sides
    OBVIOUS
  <2>2. QED
    BY ONLY <1>2, <2>1 DEF OneWay
<1>5. PortForEach(a) /\ PortsInOrder(a)
  <2>1. inbox[Send(Other(a))] = <<>> /\ delivered[Other(a)] = <<>> /\ Len(<<>>) = 0
    BY <1>2
  <2>2. QED
    BY ONLY <1>2, <1>3, <2>1 DEF PortForEach, PortsInOrder, Aligned
<1>6. Addressed(a)
  BY <1>2 DEF Addressed
<1>7. QED
  BY <1>1, <1>4, <1>5, <1>6 DEF AskInv, AnswersFound

\* When the side whose port is dynamic is the one that asks, a send thread never
\* falls back to another port: there is one in the queue for every answer, also
\* when requests or answers are empty or left unanswered, and whatever fails.
THEOREM AnswersFindAPort ==
    ASSUME NEW a, Asks(a)
    PROVE  Spec => []NoFallback
<1>1. AskInv(a) => NoFallback
  <2> SUFFICES ASSUME AskInv(a), NEW s \in Sides, pc[Send(s)] = "target",
                      Port[Other(s)] = Dynamic
               PROVE  queue # <<>>
    BY DEF NoFallback
  <2>1. s = Other(a)
    BY AskSockets DEF Asks
  <2>2. Popping(a) = 1
    BY <2>1 DEF Popping
  <2>3. Len(queue) >= 1 + Len(inbox[Send(s)]) + Len(delivered[s]) + Forwarding(a)
    BY <2>1, <2>2 DEF AskInv, AnswersFound, PortForEach
  <2>4. /\ Len(inbox[Send(s)]) \in Nat /\ Len(delivered[s]) \in Nat
        /\ Forwarding(a) \in Nat /\ Len(queue) \in Nat
    <3>1. Inv
      BY DEF AskInv
    <3>2. s \in Sides /\ Send(s) \in Sockets
      BY SocketsDiffer
    <3>3. /\ Len(queue) \in Nat /\ Forwarding(a) \in {0, 1}
          /\ \A k \in Sockets : Len(inbox[k]) \in Nat
          /\ \A t \in Sides : Len(delivered[t]) \in Nat
      BY ONLY AskInv(a), AskTypes, Zenon
    <3>4. QED
      BY ONLY <3>2, <3>3
  <2>5. Len(queue) >= 1
    BY ONLY <2>3, <2>4, OneLess
  <2>6. QED
    BY <2>5
<1>2. QED
  BY <1>1, AskInit, AskNext, PTL DEF Spec

\* And when every request is answered, an answer goes to the port its request came
\* from, however many requests are under way, which threads are stuck or could not
\* be started, and whether an empty datagram has ended one.
THEOREM AnswersReachRequesters ==
    ASSUME NEW a, Asks(a), ~MayIgnore
    PROVE  Spec => []AnswerReachesRequester
<1>1. AskInv(a) => AnswerReachesRequester
  <2> SUFFICES ASSUME AskInv(a), NEW s \in Sides, NEW i \in DOMAIN delivered[s],
                      delivered[s][i].via = "recv"
               PROVE  delivered[s][i].to = delivered[s][i].request
    BY DEF AnswerReachesRequester
  <2>1. i \in 1..Len(delivered[s])
    BY AskTypes
  <2>2. s # Other(a)
    BY <2>1 DEF AskInv, OneWay
  <2>3. s = a
    BY <2>2, AskSockets
  <2>4. QED
    BY <2>1, <2>3 DEF AskInv, AnswersFound, Addressed
<1>2. QED
  BY <1>1, AskInit, AskNext, PTL DEF Spec

\* The queue then holds one port for the answer about to pop one, one for each
\* answer that waits at the proxy, one for each request that waits at the other
\* side, one for the request being forwarded, and none besides: it does not grow
\* with the requests, but only with those that are under way, until an empty answer
\* ends the thread that pops the ports.
THEOREM QueueHoldsWhatIsDue ==
    ASSUME NEW a, Asks(a), ~MayIgnore
    PROVE  Spec => [](\/ Len(queue) = Popping(a) + Len(inbox[Send(Other(a))])
                                     + Len(delivered[Other(a)]) + Forwarding(a)
                      \/ pc[Send(Other(a))] = "closed")
<1> DEFINE Due == Popping(a) + Len(inbox[Send(Other(a))]) + Len(delivered[Other(a)]) + Forwarding(a)
<1>1. AskInv(a) => Len(queue) = Due \/ pc[Send(Other(a))] = "closed"
  BY DEF AskInv, AnswersFound, PortsInOrder, Aligned
<1>2. QED
  BY <1>1, AskInit, AskNext, PTL DEF Spec

-----------------------------------------------------------------------------
(* How threads end. *)

\* A thread could not be started, waits in recvfrom, is at work on a datagram, does
\* not come back from radamsa, or has ended with an empty datagram: one that an
\* entity sent of its own accord, or answered to a null result of the fuzzer.
Serves(k) ==
    \/ pc[k] \in {"recvfrom", "target", "sendto"}
    \/ k[1] = "recv" /\ pc[k] = "store"
    \/ pc[k] = "missing" /\ "pthread_create" \in Failing
    \/ pc[k] = "stuck" /\ ("radamsa" \in Failing \/ ~handlerAlive)
    \/ /\ pc[k] = "closed" /\ current[k].empty
       /\ EmptyDatagrams \/ (k[1] = "send" /\ "malloc" \in Failing)

\* With a dynamic port on either side, so that the send threads are started, this
\* is what each of the four threads does.
ThreadsServe == SendThreads => \A k \in Sockets : Serves(k)

\* Whether what arrives at a socket may be empty.
MayBeEmpty(k) == EmptyDatagrams \/ (k[1] = "send" /\ "malloc" \in Failing)

\* What arrives at a socket, and at an entity.
Arriving(k) ==
    [from : AllPorts, request : AllPorts, empty : {b \in BOOLEAN : b => MayBeEmpty(k)}]

Delivering ==
    [to : AllPorts, via : {"recv", "send"}, request : AllPorts,
     empty : {b \in BOOLEAN : b => "malloc" \in Failing}]

Arrived ==
    /\ \A k \in Sockets : inbox[k] \in Seq(Arriving(k))
    /\ \A s \in Sides : delivered[s] \in Seq(Delivering)

\* A choice between FALSE and what may be.
LEMMA MayBe ==
    ASSUME NEW b \in BOOLEAN, NEW empty \in {FALSE, b}
    PROVE  empty \in BOOLEAN /\ (empty => b)
<1>1. CASE b = TRUE
  BY <1>1
<1>2. CASE b = FALSE
  BY <1>2
<1>3. QED
  BY <1>1, <1>2

\* One more at one socket.
LEMMA OneMoreArrives ==
    ASSUME TypeOK, Arrived, NEW k \in Sockets, NEW d \in Arriving(k),
           inbox' = [inbox EXCEPT ![k] = Append(inbox[k], d)]
    PROVE  \A j \in Sockets : inbox'[j] \in Seq(Arriving(j))
<1>1. Append(inbox[k], d) \in Seq(Arriving(k))
  BY AppendProperties DEF Arrived
<1>2. \A j \in Sockets : inbox'[j] = IF j = k THEN Append(inbox[k], d) ELSE inbox[j]
  BY DEF TypeOK
<1>3. QED
  BY <1>1, <1>2 DEF Arrived

\* What the entities send.
LEMMA EntitiesArrive ==
    ASSUME TypeOK, Arrived, NEW s \in Sides, EntityRequests(s) \/ EntityReceives(s)
    PROVE  Arrived' /\ UNCHANGED <<pc, current, handlerAlive>>
<1> USE SocketsDiffer
<1>0. UNCHANGED <<pc, current, handlerAlive>>
  BY DEF EntityRequests, EntityReceives, process
<1>1. CASE EntityRequests(s)
  <2>1. PICK p \in Ports[s], empty \in {FALSE, EmptyDatagrams} :
            inbox' = [inbox EXCEPT ![Recv(s)] =
                         Append(inbox[Recv(s)], [from |-> p, request |-> p, empty |-> empty])]
    BY <1>1 DEF EntityRequests
  <2>2. p \in AllPorts
    BY DEF AllPorts, Sides
  <2>3. empty \in BOOLEAN /\ (empty => EmptyDatagrams)
    <3>1. EmptyDatagrams \in BOOLEAN
      BY RelayAssumption
    <3>2. QED
      BY ONLY <3>1, MayBe, Zenon
  <2>4. [from |-> p, request |-> p, empty |-> empty] \in Arriving(Recv(s))
    BY <2>2, <2>3 DEF Arriving, MayBeEmpty
  <2>5. Recv(s) \in Sockets
    OBVIOUS
  <2>6. \A j \in Sockets : inbox'[j] \in Seq(Arriving(j))
    BY <2>1, <2>4, <2>5, OneMoreArrives
  <2>7. UNCHANGED delivered
    BY <1>1 DEF EntityRequests
  <2>8. QED
    BY <1>0, <2>6, <2>7 DEF Arrived
<1>2. CASE EntityReceives(s)
  <2> DEFINE d == Head(delivered[s])
  <2>1. d \in Delivering /\ Tail(delivered[s]) \in Seq(Delivering)
    BY <1>2, HeadTailProperties DEF EntityReceives, Arrived
  <2>2. \/ \E empty \in {FALSE, EmptyDatagrams \/ d.empty} :
              inbox' = [inbox EXCEPT ![Send(s)] =
                  Append(inbox[Send(s)], [from |-> d.to, request |-> d.request, empty |-> empty])]
        \/ UNCHANGED inbox
    BY <1>2 DEF EntityReceives
  <2>3. delivered' = [delivered EXCEPT ![s] = Tail(delivered[s])]
    BY <1>2 DEF EntityReceives
  <2>4. \A r \in Sides : delivered'[r] \in Seq(Delivering)
    <3>1. \A r \in Sides : delivered'[r] = IF r = s THEN Tail(delivered[s]) ELSE delivered[r]
      BY <2>3 DEF TypeOK
    <3>2. QED
      BY <2>1, <3>1 DEF Arrived
  <2> HIDE DEF d
  <2>5. ASSUME NEW empty \in {FALSE, EmptyDatagrams \/ d.empty}
        PROVE  [from |-> d.to, request |-> d.request, empty |-> empty] \in Arriving(Send(s))
    <3>1. empty \in BOOLEAN /\ (empty => MayBeEmpty(Send(s)))
      BY <2>1, RelayAssumption DEF Delivering, MayBeEmpty, Send
    <3>2. d.to \in AllPorts /\ d.request \in AllPorts
      BY <2>1 DEF Delivering
    <3>3. QED
      BY <3>1, <3>2 DEF Arriving
  <2>6. \A j \in Sockets : inbox'[j] \in Seq(Arriving(j))
    <3>1. CASE UNCHANGED inbox
      BY <3>1 DEF Arrived
    <3>2. ASSUME NEW empty \in {FALSE, EmptyDatagrams \/ d.empty},
                 inbox' = [inbox EXCEPT ![Send(s)] =
                     Append(inbox[Send(s)], [from |-> d.to, request |-> d.request, empty |-> empty])]
          PROVE  \A j \in Sockets : inbox'[j] \in Seq(Arriving(j))
      <4>1. Send(s) \in Sockets
        OBVIOUS
      <4>2. [from |-> d.to, request |-> d.request, empty |-> empty] \in Arriving(Send(s))
        BY <2>5
      <4>3. QED
        BY <3>2, <4>1, <4>2, OneMoreArrives
    <3>3. QED
      BY <2>2, <3>1, <3>2
  <2>7. QED
    BY <1>0, <2>4, <2>6 DEF Arrived
<1>3. QED
  BY <1>1, <1>2

\* What a thread hands to an entity.
LEMMA ForwardArrives ==
    ASSUME TypeOK, Arrived, NEW k \in Sockets, Forward(k)
    PROVE  Arrived'
<1> USE SocketsDiffer
<1> DEFINE o == Other(k[2])
           d(empty) == [to |-> target[k], via |-> Exit(k)[1],
                        request |-> current[k].request, empty |-> empty]
<1>1. o \in Sides /\ UNCHANGED inbox
  BY DEF Forward, Other, Sides
<1>2. \/ UNCHANGED delivered
      \/ \E empty \in {FALSE, "malloc" \in Failing} :
            delivered' = [delivered EXCEPT ![o] = Append(delivered[o], d(empty))]
  BY DEF Forward
<1>3. ASSUME NEW empty \in {FALSE, "malloc" \in Failing}
      PROVE  d(empty) \in Delivering
  <2>1. Exit(k)[1] \in {"recv", "send"}
    BY DEF Exit, Recv, Send
  <2>2. target[k] \in AllPorts /\ current[k].request \in AllPorts
    BY DEF TypeOK, Datagram
  <2>3. empty \in BOOLEAN /\ (empty => "malloc" \in Failing)
    <3>1. ("malloc" \in Failing) \in BOOLEAN
      OBVIOUS
    <3>2. QED
      BY ONLY <3>1, MayBe, Zenon
  <2>4. QED
    BY <2>1, <2>2, <2>3 DEF Delivering
<1>4. \A j \in Sockets : inbox'[j] \in Seq(Arriving(j))
  BY <1>1 DEF Arrived
<1>5. \A r \in Sides : delivered'[r] \in Seq(Delivering)
  <2>1. CASE UNCHANGED delivered
    BY <2>1 DEF Arrived
  <2>2. ASSUME NEW empty \in {FALSE, "malloc" \in Failing},
               delivered' = [delivered EXCEPT ![o] = Append(delivered[o], d(empty))]
        PROVE  \A r \in Sides : delivered'[r] \in Seq(Delivering)
    <3>1. d(empty) \in Delivering
      BY <1>3
    <3> HIDE DEF d, o
    <3>2. Append(delivered[o], d(empty)) \in Seq(Delivering)
      BY <1>1, <3>1, AppendProperties DEF Arrived
    <3>3. \A r \in Sides : delivered'[r] = IF r = o THEN Append(delivered[o], d(empty)) ELSE delivered[r]
      BY <2>2 DEF TypeOK
    <3>4. QED
      BY <3>2, <3>3 DEF Arrived
  <2>3. QED
    BY <1>2, <2>1, <2>2
<1>6. QED
  BY <1>4, <1>5 DEF Arrived

\* A thread ends only with an empty datagram.
LEMMA ThreadsGoOn ==
    ASSUME TypeOK, Arrived, ThreadsServe, NEW k \in Sockets, ThreadStep(k)
    PROVE  Arrived' /\ ThreadsServe'
<1> USE SocketsDiffer
<1>0. UNCHANGED handlerAlive
  BY DEF ThreadStep, Receive, RecvTarget, RecvStore, SendTarget, Forward, process
<1>1. CASE Receive(k)
  <2>1. /\ inbox[k] # <<>>
        /\ inbox' = [inbox EXCEPT ![k] = Tail(inbox[k])]
        /\ current' = [current EXCEPT ![k] = Head(inbox[k])]
        /\ pc' = [pc EXCEPT ![k] = IF Head(inbox[k]).empty THEN "closed" ELSE "target"]
        /\ UNCHANGED delivered
    BY <1>1 DEF Receive, Goto
  <2>2. Head(inbox[k]) \in Arriving(k) /\ Tail(inbox[k]) \in Seq(Arriving(k))
    BY <2>1, HeadTailProperties DEF Arrived
  <2>3. Arrived'
    <3>1. \A j \in Sockets : inbox'[j] = IF j = k THEN Tail(inbox[k]) ELSE inbox[j]
      BY <2>1 DEF TypeOK
    <3>2. QED
      BY <2>1, <2>2, <3>1 DEF Arrived
  <2>4. Head(inbox[k]).empty => MayBeEmpty(k)
    BY <2>2 DEF Arriving
  <2>5. \A j \in Sockets : j # k => pc'[j] = pc[j] /\ current'[j] = current[j]
    BY <2>1 DEF TypeOK
  <2>6. /\ current'[k] = Head(inbox[k])
        /\ pc'[k] = IF Head(inbox[k]).empty THEN "closed" ELSE "target"
    BY <2>1 DEF TypeOK
  <2>7. Serves(k)'
    BY <2>4, <2>6 DEF Serves, MayBeEmpty
  <2>8. \A j \in Sockets : j # k /\ Serves(j) => Serves(j)'
    BY <1>0, <2>5 DEF Serves
  <2>9. QED
    BY <2>3, <2>7, <2>8 DEF ThreadsServe, SendThreads
<1>2. CASE \/ k[1] = "recv" /\ RecvTarget(k[2])
           \/ k[1] = "recv" /\ RecvStore(k[2])
           \/ k[1] = "send" /\ SendTarget(k[2])
           \/ Forward(k)
  <2>1. UNCHANGED <<inbox, current>>
    BY <1>2 DEF RecvTarget, RecvStore, SendTarget, Forward
  <2>2. \E to \in {"recvfrom", "store", "sendto", "stuck"} :
            /\ pc' = [pc EXCEPT ![k] = to]
            /\ to = "store" => k[1] = "recv"
            /\ to = "stuck" => "radamsa" \in Failing \/ ~handlerAlive
    <3>1. k[1] = "recv" => k = Recv(k[2])
      BY DEF Recv
    <3>2. k[1] = "send" => k = Send(k[2])
      BY DEF Send
    <3>3. QED
      BY <1>2, <3>1, <3>2 DEF RecvTarget, RecvStore, SendTarget, Forward, Goto
  <2>3. Arrived'
    <3>1. CASE Forward(k)
      BY <3>1, ForwardArrives
    <3>2. CASE ~Forward(k)
      BY <1>2, <2>1, <3>2 DEF RecvTarget, RecvStore, SendTarget, Arrived
    <3>3. QED
      BY <3>1, <3>2
  <2>4. Serves(k)' /\ \A j \in Sockets : j # k /\ Serves(j) => Serves(j)'
    BY <1>0, <2>1, <2>2 DEF Serves, TypeOK
  <2>5. QED
    BY <2>3, <2>4 DEF ThreadsServe, SendThreads
<1>3. QED
  BY <1>1, <1>2 DEF ThreadStep

\* A thread that was started goes back to its socket after each datagram, so that
\* none that arrives is left there, until it receives an empty datagram or does not
\* come back from radamsa; and none is empty but what an entity sends so of its own
\* accord, or in answer to a datagram that a failed malloc emptied.
THEOREM ThreadsEndOnlyEmpty == Spec => []ThreadsServe
<1>1. Init => Arrived /\ ThreadsServe
  <2> SUFFICES ASSUME Init PROVE Arrived /\ ThreadsServe
    OBVIOUS
  <2>1. Arrived
    BY DEF Init, Arrived
  <2>2. ThreadsServe
    BY DEF Init, ThreadsServe, Serves
  <2>3. QED
    BY <2>1, <2>2
<1>2. Inv /\ Arrived /\ ThreadsServe /\ [Next]_vars => Arrived' /\ ThreadsServe'
  <2> SUFFICES ASSUME Inv, Arrived, ThreadsServe, [Next]_vars PROVE Arrived' /\ ThreadsServe'
    OBVIOUS
  <2>1. TypeOK
    BY DEF Inv
  <2>2. CASE UNCHANGED <<pc, current>> /\ (~handlerAlive => ~handlerAlive') /\ Arrived'
    BY <2>2 DEF ThreadsServe, Serves, SendThreads
  <2>3. ASSUME NEW s \in Sides, EntityRequests(s) \/ EntityReceives(s)
        PROVE  UNCHANGED <<pc, current, handlerAlive>> /\ Arrived'
    BY <2>1, <2>3, EntitiesArrive
  <2>4. ASSUME NEW k \in Sockets, ThreadStep(k) PROVE Arrived' /\ ThreadsServe'
    BY <2>1, <2>4, ThreadsGoOn
  <2>5. CASE ProxyEnds \/ MainLeavesTry \/ UNCHANGED vars
    <3>1. UNCHANGED <<inbox, delivered, pc, current>> /\ (~handlerAlive => ~handlerAlive')
      BY <2>5 DEF ProxyEnds, MainLeavesTry, vars, process
    <3>2. Arrived'
      BY <3>1 DEF Arrived
    <3>3. QED
      BY <2>2, <3>1, <3>2
  <2>6. Requesters \subseteq Sides
    BY RelayAssumption
  <2>7. QED
    BY <2>2, <2>3, <2>4, <2>5, <2>6 DEF Next
<1>3. QED
  BY <1>1, <1>2, RelayInvariance, PTL DEF Spec
=============================================================================
