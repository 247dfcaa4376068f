--------------------------- MODULE TcpRelayProofs ---------------------------
(***************************************************************************)
(* Proofs about TcpRelay.tla, for any redirections, any connections, any   *)
(* limit of descriptors, any peers and any failures: types, that data      *)
(* stays on its connection and in order, without a gap unless a malloc     *)
(* fails, and who is there to take it.                                     *)
(***************************************************************************)
EXTENDS TcpRelay, FiniteSetTheorems, SequenceTheorems, TLAPS

\* The socket at the other end of the pair that k belongs to.
Partner(k) == <<k[1], Other(k[2])>>

\* What the thread of k has received and not yet sent or lost.
Busy == {"fuzz", "send", "stuck"}
Held(k) == IF threadPc[k] \in Busy THEN buffer[k] ELSE <<>>

\* Types, with what TypeOK leaves open.
Types ==
    /\ TypeOK
    /\ IsFiniteSet(open)
    /\ sent \in [Sockets -> Nat]

\* Nothing has been done for connection c yet: it has no server and no threads.
Fresh(c) ==
    /\ peer[<<c, "server">>] = "none"
    /\ \A s \in Sides : threadPc[<<c, s>>] = "none"

\* Connection c can be accepted from the backlog of its redirection.
Waiting(l, c) ==
    /\ Via[c] = l
    /\ Fresh(c)
    /\ peer[<<c, "client">>] # "none"
    /\ accepted[l] # c

Among(e, w) == \E i \in 1..Len(w) : w[i] = e

\* No element twice.
Distinct(w) == \A i, j \in 1..Len(w) : w[i] = w[j] => i = j

\* A connection is waiting in the backlog of its redirection once, or is the one
\* that the listen thread works on, or has its threads.
Backlogs ==
    \A l \in Listeners :
        /\ Distinct(backlog[l])
        /\ \A c \in Conns : Among(c, backlog[l]) => Waiting(l, c)

Accepted ==
    \A l \in Listeners :
        /\ listenPc[l] = "accept" => accepted[l] = None
        /\ listenPc[l] # "accept" => accepted[l] \in Conns
        /\ accepted[l] \in Conns =>
              Via[accepted[l]] = l /\ peer[<<accepted[l], "client">>] # "none"
        /\ \A c \in Conns : accepted[l] = c /\ listenPc[l] = "connect" => Fresh(c)
        /\ listenPc[l] = "pair" => \A s \in Sides : threadPc[<<accepted[l], s>>] = "none"

Unconnected == \A c \in Conns : peer[<<c, "client">>] = "none" => Fresh(c)

\* A thread forwards to the other socket of its own connection.
Paired == \A k \in Sockets : threadPc[k] # "none" => sendFd[k] = Partner(k)

\* How far each connection is.
Stages == Backlogs /\ Accepted /\ Unconnected /\ Paired

\* The states of a peer that has not ended.
Lasting == {"none", "open", "stalled"}

\* Of the first m chunks of the peer at k, g holds those, in order, that are not
\* among the lost.
InOrderBut(g, k, m, gone) ==
    /\ \A i \in 1..Len(g) : g[i] = <<k, g[i][2]>> /\ g[i][2] \in 1..m
    /\ \A i, j \in 1..Len(g) : i < j => g[i][2] < g[j][2]
    /\ \A n \in 1..m : <<k, n>> \in gone \/ \E i \in 1..Len(g) : g[i] = <<k, n>>

Delivered(k, m) == InOrderBut(got[Partner(k)], k, m, lost[k])

\* What the thread holds and what is on its way are, one after the other, the
\* chunks that come next, as long as there is somebody to deliver them to.
Following(k, m) ==
    peer[Partner(k)] \in Lasting =>
        /\ \A i \in 1..Len(Held(k)) : Held(k)[i] = <<k, m + i>>
        /\ \A i \in 1..Len(wire[k]) : wire[k][i] = <<k, m + Len(Held(k)) + i>>
        /\ peer[k] \in Lasting => sent[k] = m + Len(Held(k)) + Len(wire[k])

Flow(k) == \E m \in Nat : Delivered(k, m) /\ Following(k, m)

\* Fuzz alone is sent only when recv has returned 0.
Silence(k) ==
    /\ noise[Partner(k)] => peer[k] \notin Lasting
    /\ threadPc[k] \in Busy /\ buffer[k] = <<>> => peer[k] \notin Lasting

Flows == \A k \in Sockets : Flow(k) /\ Silence(k)

\* The inductive invariant.
Inv == Types /\ Stages /\ Flows

-----------------------------------------------------------------------------
(* Sockets and chunks. *)

\* The sockets come in pairs.
LEMMA Pairs ==
    /\ \A c \in Conns, s \in Sides : <<c, s>> \in Sockets
    /\ \A c \in Conns : <<c, "client">> \in Sockets /\ <<c, "server">> \in Sockets
    /\ \A k \in Sockets : k[1] \in Conns /\ k[2] \in Sides /\ k = <<k[1], k[2]>>
    /\ \A k \in Sockets : /\ Partner(k) \in Sockets
                          /\ Partner(k) # k
                          /\ Partner(Partner(k)) = k
                          /\ Partner(k)[1] = k[1]
BY DEF Sockets, Sides, Partner, Other

\* The next chunk of a peer is a chunk.
LEMMA NextIsChunk ==
    ASSUME NEW k \in Sockets, NEW i \in 1..MaxSends[k]
    PROVE  <<k, i>> \in Chunks
BY DEF Chunks

\* No connection is not one.
LEMMA NoneIsNoConn == None \notin Conns
BY TcpAssumption

\* One more element in one of several sequences.
LEMMA Appended ==
    ASSUME NEW S, NEW T, NEW f \in [S -> Seq(T)], NEW x \in S, NEW e \in T
    PROVE  [f EXCEPT ![x] = Append(f[x], e)] \in [S -> Seq(T)]
<1>1. Append(f[x], e) \in Seq(T)
  BY AppendProperties
<1>2. QED
  BY <1>1

\* A split of the chunks on their way at n.
LEMMA SplitTypes ==
    ASSUME NEW S, NEW w \in Seq(S), NEW n \in 1..Len(w)
    PROVE  /\ SubSeq(w, 1, n) \in Seq(S)
           /\ SubSeq(w, n + 1, Len(w)) \in Seq(S)
           /\ Len(SubSeq(w, 1, n)) = n
           /\ Len(SubSeq(w, n + 1, Len(w))) = Len(w) - n
           /\ \A i \in 1..n : SubSeq(w, 1, n)[i] = w[i]
           /\ \A i \in 1..(Len(w) - n) : SubSeq(w, n + 1, Len(w))[i] = w[n + i]
<1>1. Len(w) \in Nat /\ n \in Int /\ n <= Len(w) /\ 1 <= n
  BY LenProperties
<1>2. \A i \in 1..n : w[i] \in S
  BY <1>1, ElementOfSeq
<1>3. \A i \in (n + 1)..Len(w) : w[i] \in S
  BY <1>1, ElementOfSeq
<1>4. /\ SubSeq(w, 1, n) \in Seq(S)
      /\ Len(SubSeq(w, 1, n)) = n
      /\ \A i \in 1..n : SubSeq(w, 1, n)[i] = w[i]
  BY <1>1, <1>2, SubSeqProperties
<1>5. /\ SubSeq(w, n + 1, Len(w)) \in Seq(S)
      /\ Len(SubSeq(w, n + 1, Len(w))) = Len(w) - n
      /\ \A i \in 1..(Len(w) - n) : SubSeq(w, n + 1, Len(w))[i] = w[n + i]
  BY <1>1, <1>3, SubSeqProperties
<1>6. QED
  BY <1>4, <1>5

-----------------------------------------------------------------------------
(* Types. *)

\* The variables start with their types.
LEMMA InitInv == Init => Inv
<1> SUFFICES ASSUME Init PROVE Inv
  OBVIOUS
<1> USE DEF Init
<1>1. Types
  <2>1. open \subseteq Sockets /\ Cardinality(open) <= maxFds /\ IsFiniteSet(open)
    BY FS_EmptySet, TcpAssumption
  <2>2. \A k \in Sockets : sent[k] \in 0..MaxSends[k]
    BY Pairs, TcpAssumption
  <2>3. QED
    BY <2>1, <2>2 DEF Types, TypeOK
<1>2. Backlogs /\ Accepted /\ Unconnected /\ Paired
  BY NoneIsNoConn, Pairs DEF Backlogs, Accepted, Unconnected, Paired, Fresh, Distinct,
              Among
<1>3. Flows
  <2> SUFFICES ASSUME NEW k \in Sockets
               PROVE  Flow(k) /\ Silence(k)
    BY DEF Flows
  <2>1. Delivered(k, 0)
    BY Pairs DEF Delivered, InOrderBut
  <2>2. Following(k, 0) /\ Silence(k)
    BY Pairs DEF Following, Silence, Held, Busy
  <2>3. QED
    BY <2>1, <2>2 DEF Flow
<1>4. QED
  BY <1>1, <1>2, <1>3 DEF Inv, Stages

\* The peers.
LEMMA PeerTypes ==
    ASSUME Types,
           \/ \E c \in Conns : ClientConnects(c)
           \/ \E k \in Sockets : PeerSends(k) \/ PeerStalls(k) \/ PeerEnds(k)
    PROVE  Types'
<1> USE Pairs DEF Types, TypeOK, listenVars, threadVars
<1>1. ASSUME NEW c \in Conns, ClientConnects(c)
      PROVE  Types'
  <2>1. Via[c] \in Listeners
    BY TcpAssumption
  <2>2. backlog' \in [Listeners -> Seq(Conns)]
    <3>1. backlog' = [backlog EXCEPT ![Via[c]] = Append(backlog[Via[c]], c)]
      BY <1>1 DEF ClientConnects
    <3>2. QED
      BY <2>1, <3>1, Appended
  <2>3. peer' \in [Sockets -> {"none", "open", "stalled", "closed", "reset"}]
    BY <1>1 DEF ClientConnects
  <2>4. QED
    BY <1>1, <2>2, <2>3 DEF ClientConnects
<1>2. ASSUME NEW k \in Sockets, PeerSends(k)
      PROVE  Types'
  <2>1. MaxSends[k] \in Nat /\ sent[k] \in Nat /\ sent[k] < MaxSends[k]
    BY <1>2, TcpAssumption DEF PeerSends
  <2>2. sent[k] + 1 \in 1..MaxSends[k]
    BY ONLY <2>1
  <2>3. <<k, sent[k] + 1>> \in Chunks
    BY <2>2, NextIsChunk
  <2>4. wire' \in [Sockets -> Seq(Chunks)]
    <3>1. wire' = [wire EXCEPT ![k] = Append(wire[k], <<k, sent[k] + 1>>)]
      BY <1>2 DEF PeerSends
    <3>2. QED
      BY ONLY <2>3, <3>1, Appended, wire \in [Sockets -> Seq(Chunks)], k \in Sockets
  <2>5. /\ sent' \in [Sockets -> Nat]
        /\ \A j \in Sockets : sent'[j] \in 0..MaxSends[j]
    <3>1. sent' = [sent EXCEPT ![k] = sent[k] + 1]
      BY <1>2 DEF PeerSends
    <3>2. sent[k] + 1 \in Nat /\ sent[k] + 1 \in 0..MaxSends[k]
      BY ONLY <2>1
    <3>3. QED
      BY <3>1, <3>2
  <2>6. QED
    BY <1>2, <2>4, <2>5 DEF PeerSends
<1>3. ASSUME NEW k \in Sockets, PeerEnds(k)
      PROVE  Types'
  <2>1. wire' \in [Sockets -> Seq(Chunks)]
    <3>1. wire' = wire \/ wire' = [wire EXCEPT ![k] = <<>>]
      BY <1>3 DEF PeerEnds
    <3>2. [wire EXCEPT ![k] = <<>>] \in [Sockets -> Seq(Chunks)]
      BY EmptySeq
    <3>3. QED
      BY <3>1, <3>2
  <2>2. peer' \in [Sockets -> {"none", "open", "stalled", "closed", "reset"}]
    <3>1. \E e \in {"closed", "reset"} : peer' = [peer EXCEPT ![k] = e]
      BY <1>3 DEF PeerEnds
    <3>2. QED
      BY <3>1
  <2>3. QED
    BY <1>3, <2>1, <2>2 DEF PeerEnds
<1>4. ASSUME NEW k \in Sockets, PeerStalls(k)
      PROVE  Types'
  <2>1. peer' = [peer EXCEPT ![k] = "stalled"]
    BY <1>4 DEF PeerStalls
  <2>2. peer' \in [Sockets -> {"none", "open", "stalled", "closed", "reset"}]
    BY <2>1
  <2>3. QED
    BY <1>4, <2>2 DEF PeerStalls
<1>5. QED
  BY <1>1, <1>2, <1>3, <1>4

\* The listen threads: at the limit of descriptors they open none.
LEMMA ListenTypes ==
    ASSUME Types, Accepted, NEW l \in Listeners, ListenStep(l)
    PROVE  Types'
<1> USE Pairs DEF Types, TypeOK, peerVars, threadVars
<1>1. ASSUME NEW k \in Sockets, Cardinality(open) < maxFds
      PROVE  LET new == open \cup {k} IN
             new \subseteq Sockets /\ Cardinality(new) <= maxFds /\ IsFiniteSet(new)
  <2>1. /\ IsFiniteSet(open \cup {k})
        /\ Cardinality(open \cup {k}) \in {Cardinality(open), Cardinality(open) + 1}
    BY FS_AddElement
  <2>2. Cardinality(open) \in Nat /\ maxFds \in Nat
    BY FS_CardinalityType, TcpAssumption
  <2>3. Cardinality(open \cup {k}) <= maxFds
    BY ONLY <1>1, <2>1, <2>2
  <2>4. QED
    BY <2>1, <2>3
<1>2. CASE ListenAccept(l)
  <2>1. Head(backlog[l]) \in Conns /\ Tail(backlog[l]) \in Seq(Conns)
    BY <1>2, HeadTailProperties DEF ListenAccept
  <2>2. /\ backlog' \in [Listeners -> Seq(Conns)]
        /\ accepted' \in [Listeners -> Conns \cup {None}]
        /\ listenPc' \in [Listeners -> {"accept", "connect", "pair"}]
    BY <1>2, <2>1 DEF ListenAccept, Listen
  <2>3. open' \subseteq Sockets /\ Cardinality(open') <= maxFds /\ IsFiniteSet(open')
    BY <1>1, <1>2, <2>1 DEF ListenAccept
  <2>4. QED
    BY <1>2, <2>2, <2>3 DEF ListenAccept
<1>3. CASE ListenConnect(l)
  <2> DEFINE k == <<accepted[l], "server">>
  <2>1. k \in Sockets
    BY <1>3 DEF ListenConnect, Listen, Accepted
  <2> HIDE DEF k
  <2>2. CASE /\ Listen(l, "connect", "pair")
             /\ Cardinality(open) < maxFds
             /\ open' = open \cup {k}
             /\ peer' = [peer EXCEPT ![k] = "open"]
             /\ UNCHANGED <<proxyUp, handlerAlive, maxFds, backlog, accepted, sent, got,
                            lost, noise, wire, threadVars>>
    <3>1. open' \subseteq Sockets /\ Cardinality(open') <= maxFds /\ IsFiniteSet(open')
      BY <1>1, <2>1, <2>2
    <3>2. /\ peer' \in [Sockets -> {"none", "open", "stalled", "closed", "reset"}]
          /\ listenPc' \in [Listeners -> {"accept", "connect", "pair"}]
      BY <2>1, <2>2 DEF Listen
    <3>3. QED
      BY <2>2, <3>1, <3>2
  <2>3. CASE /\ Listen(l, "connect", "connect")
             /\ ProxyDies
             /\ UNCHANGED <<handlerAlive, maxFds, backlog, accepted, open, peerVars,
                            wire, threadVars>>
    BY <2>3 DEF Listen, ProxyDies
  <2>4. QED
    BY <1>3, <2>2, <2>3 DEF ListenConnect, k
<1>4. CASE ListenPair(l)
  <2> DEFINE c == accepted[l]
  <2>1. c \in Conns
    BY <1>4 DEF ListenPair, Listen, Accepted
  <2>2. /\ sendFd' = [k \in Sockets |-> IF k[1] = c THEN <<c, Other(k[2])>> ELSE sendFd[k]]
        /\ accepted' = [accepted EXCEPT ![l] = None]
        /\ listenPc' = [listenPc EXCEPT ![l] = "accept"]
        /\ proxyUp' \in BOOLEAN
        /\ UNCHANGED <<handlerAlive, maxFds, backlog, open, peerVars, wire, buffer>>
    BY <1>4 DEF ListenPair, Listen, ProxyDies
  <2> HIDE DEF c
  <2>3. threadPc' \in [Sockets -> {"none", "missing", "recv", "fuzz", "send", "sendNull", "stuck"}]
    BY <1>4 DEF ListenPair
  <2>4. ASSUME NEW k \in Sockets, k[1] = c
        PROVE  <<c, Other(k[2])>> \in Sockets
    BY <2>4 DEF Partner
  <2>5. sendFd' \in [Sockets -> Sockets \cup {None}]
    BY <2>2, <2>4
  <2>6. QED
    BY <2>2, <2>3, <2>5
<1>5. QED
  BY <1>2, <1>3, <1>4 DEF ListenStep

\* The connection threads.
LEMMA ThreadTypes ==
    ASSUME Types, Paired, NEW k \in Sockets, ThreadStep(k)
    PROVE  Types'
<1> USE Pairs DEF Types, TypeOK, peerVars, listenVars
<1>1. CASE ThreadRecv(k)
  <2>1. PICK n \in 1..Len(wire[k]) :
          /\ buffer' = [buffer EXCEPT ![k] = SubSeq(wire[k], 1, n)]
          /\ wire' = [wire EXCEPT ![k] = SubSeq(wire[k], n + 1, Len(wire[k]))]
    BY <1>1 DEF ThreadRecv
  <2>2. /\ SubSeq(wire[k], 1, n) \in Seq(Chunks)
        /\ SubSeq(wire[k], n + 1, Len(wire[k])) \in Seq(Chunks)
    BY SplitTypes
  <2>3. buffer' \in [Sockets -> Seq(Chunks)] /\ wire' \in [Sockets -> Seq(Chunks)]
    BY <2>1, <2>2
  <2>4. QED
    BY <1>1, <2>3 DEF ThreadRecv, Thread
<1>2. CASE ThreadRecvEnd(k)
  <2>1. buffer' \in [Sockets -> Seq(Chunks)]
    BY <1>2, EmptySeq DEF ThreadRecvEnd
  <2>2. QED
    BY <1>2, <2>1 DEF ThreadRecvEnd, Thread
<1>3. CASE ThreadRecvError(k)
  BY <1>3 DEF ThreadRecvError, Thread, ProxyDies
<1>4. CASE ThreadSend(k)
  <2> DEFINE to == sendFd[k]
  <2>1. to \in Sockets
    BY <1>4 DEF ThreadSend, Thread, Paired
  <2>2. /\ threadPc' = [threadPc EXCEPT ![k] = "recv"]
        /\ \/ /\ got' = [got EXCEPT ![to] = got[to] \o buffer[k]]
              /\ noise' = [noise EXCEPT ![to] = noise[to] \/ buffer[k] = <<>>]
              /\ UNCHANGED <<proxyUp, peer, wire>>
           \/ /\ peer' = [peer EXCEPT ![to] = "reset"]
              /\ wire' = [wire EXCEPT ![to] = <<>>]
              /\ UNCHANGED <<proxyUp, got, noise>>
           \/ /\ proxyUp' \in BOOLEAN
              /\ UNCHANGED <<peer, wire, got, noise>>
        /\ UNCHANGED <<listenVars, open, sent, lost, sendFd, buffer>>
    BY <1>4 DEF ThreadSend, Thread
  <2> HIDE DEF to
  <2>3. got[to] \o buffer[k] \in Seq(Chunks)
    BY <2>1, ConcatProperties
  <2>4. CASE /\ got' = [got EXCEPT ![to] = got[to] \o buffer[k]]
             /\ noise' = [noise EXCEPT ![to] = noise[to] \/ buffer[k] = <<>>]
             /\ UNCHANGED <<proxyUp, peer, wire>>
    <3>1. got' \in [Sockets -> Seq(Chunks)]
      BY <2>1, <2>3, <2>4
    <3>2. noise' \in [Sockets -> BOOLEAN]
      BY <2>1, <2>4
    <3>3. QED
      BY <2>2, <2>4, <3>1, <3>2
  <2>5. CASE /\ peer' = [peer EXCEPT ![to] = "reset"]
             /\ wire' = [wire EXCEPT ![to] = <<>>]
             /\ UNCHANGED <<proxyUp, got, noise>>
    <3>1. wire' \in [Sockets -> Seq(Chunks)]
      BY <2>5, EmptySeq
    <3>2. QED
      BY <2>2, <2>5, <3>1
  <2>6. CASE proxyUp' \in BOOLEAN /\ UNCHANGED <<peer, wire, got, noise>>
    BY <2>2, <2>6
  <2>7. QED
    BY <2>2, <2>4, <2>5, <2>6
<1>5. CASE ThreadFuzz(k)
  <2>1. Received(k) \subseteq Chunks
    <3>1. buffer[k] \in Seq(Chunks)
      OBVIOUS
    <3>2. QED
      BY ONLY <3>1, LenProperties, ElementOfSeq DEF Received
  <2>2. lost' \in [Sockets -> SUBSET Chunks]
    <3>1. lost' = lost \/ lost' = [lost EXCEPT ![k] = lost[k] \cup Received(k)]
      BY <1>5 DEF ThreadFuzz
    <3>2. lost \in [Sockets -> SUBSET Chunks]
      OBVIOUS
    <3>3. lost[k] \cup Received(k) \in SUBSET Chunks
      BY ONLY <2>1, <3>2, k \in Sockets
    <3>4. [lost EXCEPT ![k] = lost[k] \cup Received(k)] \in [Sockets -> SUBSET Chunks]
      BY ONLY <3>2, <3>3
    <3>5. QED
      BY ONLY <3>1, <3>2, <3>4
  <2>3. threadPc' \in [Sockets -> {"none", "missing", "recv", "fuzz", "send", "sendNull", "stuck"}]
    <3>1. \E to \in {"send", "sendNull", "stuck"} : threadPc' = [threadPc EXCEPT ![k] = to]
      BY <1>5 DEF ThreadFuzz, Thread
    <3>2. threadPc \in [Sockets -> {"none", "missing", "recv", "fuzz", "send", "sendNull", "stuck"}]
      OBVIOUS
    <3>3. QED
      BY ONLY <3>1, <3>2
  <2>4. QED
    BY <1>5, <2>2, <2>3 DEF ThreadFuzz
<1>6. CASE ThreadSendNothing(k)
  BY <1>6 DEF ThreadSendNothing, Thread, ProxyDies
<1>7. QED
  BY <1>1, <1>2, <1>3, <1>4, <1>5, <1>6 DEF ThreadStep

-----------------------------------------------------------------------------
(* The stages of a connection. *)

\* One more element that was not there.
LEMMA AppendDistinct ==
    ASSUME NEW S, NEW w \in Seq(S), NEW e \in S, Distinct(w), ~Among(e, w)
    PROVE  /\ Distinct(Append(w, e))
           /\ \A x : Among(x, Append(w, e)) => x = e \/ Among(x, w)
<1> DEFINE u == Append(w, e)
<1>1. /\ Len(w) \in Nat
      /\ Len(u) = Len(w) + 1
      /\ \A i \in 1..Len(w) : u[i] = w[i]
      /\ u[Len(w) + 1] = e
  BY AppendProperties, LenProperties
<1> HIDE DEF u
<1>2. \A i \in 1..Len(u) : i \in 1..Len(w) \/ i = Len(w) + 1
  BY <1>1
<1>3. Distinct(u)
  BY <1>1, <1>2 DEF Distinct, Among
<1>4. \A x : Among(x, u) => x = e \/ Among(x, w)
  BY <1>1, <1>2 DEF Among
<1>5. QED
  BY <1>3, <1>4 DEF u

\* The first one taken away.
LEMMA TailDistinct ==
    ASSUME NEW S, NEW w \in Seq(S), Distinct(w), w # <<>>
    PROVE  /\ Distinct(Tail(w))
           /\ Among(Head(w), w)
           /\ \A x : Among(x, Tail(w)) => x # Head(w) /\ Among(x, w)
<1>1. /\ Tail(w) \in Seq(S)
      /\ Len(Tail(w)) = Len(w) - 1
      /\ \A i \in 1..Len(Tail(w)) : Tail(w)[i] = w[i + 1]
  BY HeadTailProperties
<1>2. Len(w) \in Nat /\ Len(w) # 0
  BY LenProperties, EmptySeq
<1>3. Head(w) = w[1] /\ 1 \in 1..Len(w)
  BY <1>2
<1>4. \A i \in 1..Len(Tail(w)) : i + 1 \in 1..Len(w) /\ i + 1 # 1
  BY <1>1, <1>2
<1>5. \A x : Among(x, Tail(w)) => x # Head(w) /\ Among(x, w)
  BY <1>1, <1>3, <1>4 DEF Distinct, Among
<1>6. Distinct(Tail(w))
  BY <1>1, <1>2, <1>4 DEF Distinct
<1>7. QED
  BY <1>3, <1>5, <1>6 DEF Among

\* What keeps the stages of all connections.
LEMMA QuietStages ==
    ASSUME Types, Stages, UNCHANGED <<backlog, accepted, listenPc, sendFd>>,
           \A k \in Sockets : /\ peer'[k] = "none" <=> peer[k] = "none"
                              /\ threadPc'[k] = "none" <=> threadPc[k] = "none"
    PROVE  Stages'
<1> USE Pairs
<1>1. ASSUME NEW c \in Conns
      PROVE  Fresh(c)' <=> Fresh(c)
  BY DEF Fresh
<1>2. ASSUME NEW l \in Listeners, NEW c \in Conns
      PROVE  Waiting(l, c)' <=> Waiting(l, c)
  BY <1>1 DEF Waiting
<1>3. Backlogs'
  BY <1>2 DEF Stages, Backlogs, Among, Distinct
<1>4. Accepted'
  BY <1>1 DEF Stages, Accepted
<1>5. Unconnected' /\ Paired'
  BY <1>1 DEF Stages, Unconnected, Paired, Partner
<1>6. QED
  BY <1>3, <1>4, <1>5 DEF Stages

\* A connection joins the backlog when its client connects, and not again.
LEMMA ClientConnectsStages ==
    ASSUME Types, Stages, NEW c \in Conns, ClientConnects(c)
    PROVE  Stages'
<1> USE Pairs
<1> DEFINE v == Via[c]
           w == backlog[v]
<1>1. v \in Listeners /\ w \in Seq(Conns)
  BY TcpAssumption DEF Types, TypeOK
<1>2. /\ backlog' = [backlog EXCEPT ![v] = Append(w, c)]
      /\ peer' = [peer EXCEPT ![<<c, "client">>] = "open"]
      /\ peer[<<c, "client">>] = "none"
      /\ UNCHANGED <<accepted, listenPc, sendFd, threadPc>>
  BY DEF ClientConnects, threadVars
<1>3. \A l \in Listeners : backlog'[l] = IF l = v THEN Append(w, c) ELSE backlog[l]
  BY <1>1, <1>2 DEF Types, TypeOK
<1>4. /\ peer'[<<c, "client">>] = "open"
      /\ \A k \in Sockets : k # <<c, "client">> => peer'[k] = peer[k]
  BY <1>2 DEF Types, TypeOK
<1>5. \A d \in Conns : Fresh(d)' <=> Fresh(d)
  BY <1>2, <1>4 DEF Fresh
<1>6. Fresh(c) /\ \A l \in Listeners : accepted[l] # c
  BY <1>2 DEF Stages, Unconnected, Accepted
<1>7. \A l \in Listeners, d \in Conns : Waiting(l, d) => Waiting(l, d)' /\ d # c
  BY <1>2, <1>4, <1>5 DEF Waiting
<1>8. Waiting(v, c)'
  BY <1>1, <1>2, <1>4, <1>5, <1>6 DEF Waiting
<1>9. Backlogs'
  <2> SUFFICES ASSUME NEW l \in Listeners
               PROVE  /\ Distinct(backlog'[l])
                      /\ \A d \in Conns : Among(d, backlog'[l]) => Waiting(l, d)'
    BY DEF Backlogs, Distinct, Among
  <2>1. Distinct(backlog[l]) /\ ~Among(c, backlog[l])
    BY <1>7 DEF Stages, Backlogs
  <2>2. \A d \in Conns : Among(d, backlog[l]) => Waiting(l, d)'
    BY <1>7 DEF Stages, Backlogs
  <2>3. CASE l # v
    BY <1>3, <2>1, <2>2, <2>3
  <2>4. CASE l = v
    <3>1. /\ Distinct(Append(w, c))
          /\ \A x : Among(x, Append(w, c)) => x = c \/ Among(x, w)
      BY <1>1, <2>1, <2>4, AppendDistinct
    <3>2. QED
      BY <1>3, <1>8, <2>2, <2>4, <3>1
  <2>5. QED
    BY <2>3, <2>4
<1>10. Accepted'
  BY <1>2, <1>4, <1>5 DEF Stages, Accepted
<1>11. Unconnected' /\ Paired'
  BY <1>2, <1>4, <1>5 DEF Stages, Unconnected, Paired, Partner
<1>12. QED
  BY <1>9, <1>10, <1>11 DEF Stages

\* The listen thread takes the first connection out of its backlog.
LEMMA ListenAcceptStages ==
    ASSUME Types, Stages, NEW l \in Listeners, ListenAccept(l)
    PROVE  Stages'
<1> USE Pairs
<1> DEFINE w == backlog[l]
           c == Head(w)
<1>1. w \in Seq(Conns) /\ w # <<>> /\ c \in Conns
  BY HeadTailProperties DEF Types, TypeOK, ListenAccept
<1>2. /\ backlog' = [backlog EXCEPT ![l] = Tail(w)]
      /\ accepted' = [accepted EXCEPT ![l] = c]
      /\ listenPc' = [listenPc EXCEPT ![l] = "connect"]
      /\ UNCHANGED <<peer, sendFd, threadPc>>
  BY DEF ListenAccept, Listen, peerVars, threadVars
<1>3. /\ Distinct(Tail(w))
      /\ Among(c, w)
      /\ \A x : Among(x, Tail(w)) => x # c /\ Among(x, w)
  BY <1>1, TailDistinct DEF Stages, Backlogs
<1>4. Waiting(l, c)
  BY <1>1, <1>3 DEF Stages, Backlogs
<1> HIDE DEF w, c
<1>5. /\ \A m \in Listeners : backlog'[m] = IF m = l THEN Tail(w) ELSE backlog[m]
      /\ \A m \in Listeners : accepted'[m] = IF m = l THEN c ELSE accepted[m]
      /\ \A m \in Listeners : listenPc'[m] = IF m = l THEN "connect" ELSE listenPc[m]
  BY <1>2 DEF Types, TypeOK
<1>6. \A d \in Conns : Fresh(d)' <=> Fresh(d)
  BY <1>2 DEF Fresh
<1>7. \A m \in Listeners, d \in Conns : Waiting(m, d) /\ d # c => Waiting(m, d)'
  BY <1>2, <1>5, <1>6 DEF Waiting
<1>8. \A m \in Listeners : Waiting(m, c) => m = l
  BY <1>4 DEF Waiting
<1>9. Backlogs'
  <2> SUFFICES ASSUME NEW m \in Listeners
               PROVE  /\ Distinct(backlog'[m])
                      /\ \A d \in Conns : Among(d, backlog'[m]) => Waiting(m, d)'
    BY DEF Backlogs, Distinct, Among
  <2>1. Distinct(backlog[m]) /\ \A d \in Conns : Among(d, backlog[m]) => Waiting(m, d)
    BY DEF Stages, Backlogs
  <2>2. CASE m # l
    BY <1>5, <1>7, <1>8, <2>1, <2>2
  <2>3. CASE m = l
    BY <1>3, <1>5, <1>7, <2>1, <2>3 DEF w
  <2>4. QED
    BY <2>2, <2>3
<1>10. Accepted'
  <2> SUFFICES ASSUME NEW m \in Listeners
               PROVE  /\ listenPc'[m] = "accept" => accepted'[m] = None
                      /\ listenPc'[m] # "accept" => accepted'[m] \in Conns
                      /\ accepted'[m] \in Conns =>
                            Via[accepted'[m]] = m /\ peer'[<<accepted'[m], "client">>] # "none"
                      /\ \A d \in Conns : accepted'[m] = d /\ listenPc'[m] = "connect" => Fresh(d)
                      /\ listenPc'[m] = "pair" =>
                            \A s \in Sides : threadPc'[<<accepted'[m], s>>] = "none"
    BY <1>6 DEF Accepted
  <2>1. CASE m # l
    <3>1. accepted'[m] = accepted[m] /\ listenPc'[m] = listenPc[m]
      BY <1>5, <2>1
    <3>2. peer' = peer /\ threadPc' = threadPc
      BY <1>2
    <3>3. QED
      BY <3>1, <3>2 DEF Stages, Accepted
  <2>2. CASE m = l
    <3>1. accepted'[m] = c /\ listenPc'[m] = "connect" /\ peer' = peer
      BY <1>2, <1>5, <2>2
    <3>2. QED
      BY <1>1, <1>4, <2>2, <3>1 DEF Waiting
  <2>3. QED
    BY <2>1, <2>2
<1>11. Unconnected' /\ Paired'
  BY <1>2, <1>6 DEF Stages, Unconnected, Paired, Partner
<1>12. QED
  BY <1>9, <1>10, <1>11 DEF Stages

\* connect gives the connection that is worked on its server.
LEMMA ListenConnectStages ==
    ASSUME Types, Stages, NEW l \in Listeners, ListenConnect(l)
    PROVE  Stages'
<1> USE Pairs
<1> DEFINE c == accepted[l]
           k == <<c, "server">>
<1>1. /\ c \in Conns /\ listenPc[l] = "connect" /\ Via[c] = l /\ Fresh(c)
      /\ peer[<<c, "client">>] # "none"
  BY DEF ListenConnect, Listen, Stages, Accepted
<1> HIDE DEF c
<1>2. CASE /\ listenPc' = [listenPc EXCEPT ![l] = "connect"]
           /\ UNCHANGED <<backlog, accepted, peer, sendFd, threadPc>>
  <2>1. listenPc' = listenPc
    <3>1. listenPc \in [Listeners -> {"accept", "connect", "pair"}]
      BY DEF Types, TypeOK
    <3>2. QED
      BY <1>1, <1>2, <3>1
  <2>2. QED
    BY <1>2, <2>1, QuietStages
<1>3. CASE /\ listenPc' = [listenPc EXCEPT ![l] = "pair"]
           /\ peer' = [peer EXCEPT ![k] = "open"]
           /\ UNCHANGED <<backlog, accepted, sendFd, threadPc>>
  <2>1. \A m \in Listeners : listenPc'[m] = IF m = l THEN "pair" ELSE listenPc[m]
    BY <1>3 DEF Types, TypeOK
  <2>2. \A j \in Sockets : j # k => peer'[j] = peer[j]
    BY <1>3 DEF Types, TypeOK
  <2>3. \A d \in Conns : d # c => (Fresh(d)' <=> Fresh(d))
    BY <1>3, <2>2 DEF Fresh
  <2>4. \A d \in Conns : peer'[<<d, "client">>] = peer[<<d, "client">>]
    BY <2>2
  <2>5. \A m \in Listeners, d \in Conns : Waiting(m, d) => Waiting(m, d)' /\ d # c
    <3>1. \A m \in Listeners : ~Waiting(m, c)
      BY <1>1 DEF Waiting, c
    <3>2. QED
      BY <1>3, <2>3, <2>4, <3>1 DEF Waiting
  <2>6. Backlogs'
    BY <1>3, <2>5 DEF Stages, Backlogs, Among, Distinct
  <2>7. Accepted'
    <3> SUFFICES ASSUME NEW m \in Listeners
                 PROVE  /\ listenPc'[m] = "accept" => accepted'[m] = None
                        /\ listenPc'[m] # "accept" => accepted'[m] \in Conns
                        /\ accepted'[m] \in Conns =>
                              Via[accepted'[m]] = m /\ peer'[<<accepted'[m], "client">>] # "none"
                        /\ \A d \in Conns : accepted'[m] = d /\ listenPc'[m] = "connect" => Fresh(d)'
                        /\ listenPc'[m] = "pair" =>
                              \A s \in Sides : threadPc'[<<accepted'[m], s>>] = "none"
      BY DEF Accepted
    <3>1. accepted' = accepted /\ threadPc' = threadPc
      BY <1>3
    <3>2. CASE m # l
      <4>1. listenPc'[m] = listenPc[m]
        BY <2>1, <3>2
      <4>2. accepted[m] # c
        BY <1>1, <3>2 DEF Stages, Accepted
      <4>3. QED
        BY <2>3, <2>4, <3>1, <4>1, <4>2 DEF Stages, Accepted
    <3>3. CASE m = l
      <4>1. listenPc'[m] = "pair" /\ accepted[m] = c
        BY <2>1, <3>3 DEF c
      <4>2. \A s \in Sides : threadPc[<<c, s>>] = "none"
        BY <1>1 DEF Fresh
      <4>3. QED
        BY <1>1, <2>4, <3>1, <3>3, <4>1, <4>2
    <3>4. QED
      BY <3>2, <3>3
  <2>8. Unconnected'
    BY <1>1, <2>3, <2>4 DEF Stages, Unconnected
  <2>9. Paired'
    BY <1>3 DEF Stages, Paired, Partner
  <2>10. QED
    BY <2>6, <2>7, <2>8, <2>9 DEF Stages
<1>4. QED
  BY <1>2, <1>3 DEF ListenConnect, Listen, peerVars, threadVars, c

\* The two threads of a connection are given each other's sockets.
LEMMA ListenPairStages ==
    ASSUME Types, Stages, NEW l \in Listeners, ListenPair(l)
    PROVE  Stages'
<1> USE Pairs
<1> DEFINE c == accepted[l]
<1>1. /\ c \in Conns /\ Via[c] = l
      /\ peer[<<c, "client">>] # "none"
  BY DEF ListenPair, Listen, Stages, Accepted
<1>2. /\ listenPc' = [listenPc EXCEPT ![l] = "accept"]
      /\ accepted' = [accepted EXCEPT ![l] = None]
      /\ \A k \in Sockets : k[1] # c => threadPc'[k] = threadPc[k]
      /\ sendFd' = [k \in Sockets |-> IF k[1] = c THEN <<c, Other(k[2])>> ELSE sendFd[k]]
      /\ UNCHANGED <<backlog, peer>>
  BY DEF ListenPair, Listen, peerVars
<1> HIDE DEF c
<1>3. /\ \A m \in Listeners : accepted'[m] = IF m = l THEN None ELSE accepted[m]
      /\ \A m \in Listeners : listenPc'[m] = IF m = l THEN "accept" ELSE listenPc[m]
  BY <1>2 DEF Types, TypeOK
<1>4. \A d \in Conns, s \in Sides : d # c => threadPc'[<<d, s>>] = threadPc[<<d, s>>]
  BY <1>2
<1>5. \A d \in Conns : d # c /\ Fresh(d) => Fresh(d)'
  BY <1>2, <1>4 DEF Fresh
<1>6. \A m \in Listeners : ~Waiting(m, c)
  BY <1>1 DEF Waiting, c
<1>7. \A m \in Listeners, d \in Conns : Waiting(m, d) => Waiting(m, d)'
  BY <1>2, <1>3, <1>5, <1>6, NoneIsNoConn DEF Waiting
<1>8. Backlogs'
  BY <1>2, <1>7 DEF Stages, Backlogs, Among, Distinct
<1>9. Accepted'
  <2> SUFFICES ASSUME NEW m \in Listeners
               PROVE  /\ listenPc'[m] = "accept" => accepted'[m] = None
                      /\ listenPc'[m] # "accept" => accepted'[m] \in Conns
                      /\ accepted'[m] \in Conns =>
                            Via[accepted'[m]] = m /\ peer'[<<accepted'[m], "client">>] # "none"
                      /\ \A d \in Conns : accepted'[m] = d /\ listenPc'[m] = "connect" => Fresh(d)'
                      /\ listenPc'[m] = "pair" =>
                            \A s \in Sides : threadPc'[<<accepted'[m], s>>] = "none"
    BY DEF Accepted
  <2>1. CASE m # l
    <3>1. accepted'[m] = accepted[m] /\ listenPc'[m] = listenPc[m] /\ peer' = peer
      BY <1>2, <1>3, <2>1
    <3>2. accepted[m] # c
      BY <1>1, <2>1 DEF Stages, Accepted
    <3>3. listenPc[m] = "pair" => accepted[m] \in Conns
      BY DEF Stages, Accepted
    <3>4. QED
      BY <1>4, <1>5, <3>1, <3>2, <3>3 DEF Stages, Accepted
  <2>2. CASE m = l
    BY <1>3, <2>2, NoneIsNoConn
  <2>3. QED
    BY <2>1, <2>2
<1>10. Unconnected'
  BY <1>1, <1>2, <1>5 DEF Stages, Unconnected
<1>11. Paired'
  <2> SUFFICES ASSUME NEW k \in Sockets, threadPc'[k] # "none"
               PROVE  sendFd'[k] = Partner(k)
    BY DEF Paired, Partner
  <2>1. CASE k[1] = c
    BY <1>2, <2>1 DEF Partner
  <2>2. CASE k[1] # c
    BY <1>2, <2>2 DEF Stages, Paired
  <2>3. QED
    BY <2>1, <2>2
<1>12. QED
  BY <1>8, <1>9, <1>10, <1>11 DEF Stages

\* The other steps end peers and move threads that are there.
LEMMA OtherStages ==
    ASSUME Types, Stages,
           \/ \E k \in Sockets : \/ PeerSends(k) \/ PeerStalls(k) \/ PeerEnds(k)
                                 \/ ThreadStep(k)
           \/ MainLeavesTry
    PROVE  Stages'
<1> USE Pairs DEF peerVars, listenVars, threadVars
<1>1. ASSUME NEW k \in Sockets, PeerSends(k)
      PROVE  Stages'
  BY <1>1, QuietStages DEF PeerSends
<1>2. ASSUME NEW k \in Sockets, PeerEnds(k)
      PROVE  Stages'
  <2>1. PICK e \in {"closed", "reset"} : peer' = [peer EXCEPT ![k] = e]
    BY <1>2 DEF PeerEnds
  <2>2. \A j \in Sockets : peer'[j] = "none" <=> peer[j] = "none"
    BY <1>2, <2>1 DEF PeerEnds, Types, TypeOK
  <2>3. QED
    BY <1>2, <2>2, QuietStages DEF PeerEnds
<1>3. ASSUME NEW k \in Sockets, ThreadStep(k)
      PROVE  Stages'
  <2>1. PICK to \in {"recv", "fuzz", "send", "sendNull", "stuck"} :
           threadPc' = [threadPc EXCEPT ![k] = to] /\ threadPc[k] # "none"
    BY <1>3 DEF ThreadStep, ThreadRecv, ThreadRecvEnd, ThreadRecvError, ThreadFuzz, ThreadSend,
                ThreadSendNothing, Thread
  <2>2. \A j \in Sockets : threadPc'[j] = "none" <=> threadPc[j] = "none"
    BY <2>1 DEF Types, TypeOK
  <2>3. UNCHANGED <<backlog, accepted, listenPc, sendFd>>
    BY <1>3 DEF ThreadStep, ThreadRecv, ThreadRecvEnd, ThreadRecvError, ThreadFuzz, ThreadSend,
                ThreadSendNothing
  <2>4. \/ peer' = peer
        \/ /\ peer[sendFd[k]] = "closed"
           /\ peer' = [peer EXCEPT ![sendFd[k]] = "reset"]
    BY <1>3 DEF ThreadStep, ThreadRecv, ThreadRecvEnd, ThreadRecvError, ThreadFuzz, ThreadSend,
                ThreadSendNothing
  <2>5. \A j \in Sockets : peer'[j] = "none" <=> peer[j] = "none"
    BY <2>4 DEF Types, TypeOK
  <2>6. QED
    BY <2>2, <2>3, <2>5, QuietStages
<1>4. CASE MainLeavesTry
  BY <1>4, QuietStages DEF MainLeavesTry
<1>5. ASSUME NEW k \in Sockets, PeerStalls(k)
      PROVE  Stages'
  <2>1. peer' = [peer EXCEPT ![k] = "stalled"] /\ peer[k] = "open"
    BY <1>5 DEF PeerStalls
  <2>2. \A j \in Sockets : peer'[j] = "none" <=> peer[j] = "none"
    BY <2>1 DEF Types, TypeOK
  <2>3. QED
    BY <1>5, <2>2, QuietStages DEF PeerStalls
<1>6. QED
  BY <1>1, <1>2, <1>3, <1>4, <1>5

-----------------------------------------------------------------------------
(* The data. *)

\* The lengths of the sequences and the numbers of what was sent.
LEMMA Lengths ==
    ASSUME Types, NEW k \in Sockets
    PROVE  /\ Len(got[k]) \in Nat
           /\ Len(wire[k]) \in Nat
           /\ Held(k) \in Seq(Chunks) /\ Len(Held(k)) \in Nat
           /\ sent[k] \in Nat
<1>1. Held(k) \in Seq(Chunks)
  BY EmptySeq DEF Types, TypeOK, Held
<1>2. QED
  BY <1>1, LenProperties DEF Types, TypeOK

\* What was delivered stays so.
LEMMA QuietDelivered ==
    ASSUME NEW k \in Sockets, NEW m \in Nat, Delivered(k, m),
           got'[Partner(k)] = got[Partner(k)],
           lost[k] \subseteq lost'[k]
    PROVE  Delivered(k, m)'
<1> DEFINE p == Partner(k)
<1>1. p' = p
  BY DEF Partner
<1>2. \A n \in 1..m : <<k, n>> \in lost[k] => <<k, n>> \in lost'[k]
  OBVIOUS
<1>3. QED
  BY <1>1, <1>2 DEF Delivered, InOrderBut

\* What leaves the data between k and its partner alone, or loses what is on its
\* way when there is nobody to deliver it to.
LEMMA QuietFlow ==
    ASSUME NEW k \in Sockets, Flow(k), Silence(k),
           got'[Partner(k)] = got[Partner(k)],
           lost[k] \subseteq lost'[k],
           noise'[Partner(k)] = noise[Partner(k)],
           sent'[k] = sent[k],
           \A j \in {k, Partner(k)} : peer'[j] \in Lasting => peer[j] \in Lasting,
           \/ wire'[k] = wire[k]
           \/ wire'[k] = <<>> /\ peer'[k] \notin Lasting,
           peer'[Partner(k)] \in Lasting => Held(k)' = Held(k),
           threadPc'[k] \in Busy =>
              \/ threadPc[k] \in Busy /\ buffer'[k] = buffer[k]
              \/ peer'[k] \notin Lasting
    PROVE  Flow(k)' /\ Silence(k)'
<1> DEFINE p == Partner(k)
<1>1. p' = p
  BY DEF Partner
<1> HIDE DEF p
<1>2. PICK m \in Nat : Delivered(k, m) /\ Following(k, m)
  BY DEF Flow
<1>3. ASSUME peer'[p] \in Lasting
      PROVE  /\ \A i \in 1..Len(Held(k)') : Held(k)'[i] = <<k, m + i>>
             /\ \A i \in 1..Len(wire'[k]) : wire'[k][i] = <<k, m + Len(Held(k)') + i>>
             /\ peer'[k] \in Lasting => sent'[k] = m + Len(Held(k)') + Len(wire'[k])
  <2>1. peer[p] \in Lasting /\ Held(k)' = Held(k)
    BY <1>3 DEF p
  <2>2. /\ \A i \in 1..Len(Held(k)) : Held(k)[i] = <<k, m + i>>
        /\ \A i \in 1..Len(wire[k]) : wire[k][i] = <<k, m + Len(Held(k)) + i>>
        /\ peer[k] \in Lasting => sent[k] = m + Len(Held(k)) + Len(wire[k])
    BY <1>2, <2>1 DEF Following, p
  <2>3. CASE wire'[k] = wire[k]
    BY <2>1, <2>2, <2>3
  <2>4. CASE wire'[k] = <<>> /\ peer'[k] \notin Lasting
    BY <2>1, <2>2, <2>4
  <2>5. QED
    BY <2>3, <2>4
<1>4. Delivered(k, m)'
  BY <1>2, QuietDelivered
<1>5. Following(k, m)'
  BY <1>1, <1>3 DEF Following, p
<1>6. Flow(k)'
  BY <1>4, <1>5 DEF Flow
<1>7. Silence(k)'
  BY <1>1 DEF Silence, p
<1>8. QED
  BY <1>6, <1>7

\* A chunk that is sent comes after all that were sent before.
LEMMA PeerSendsFlows ==
    ASSUME Types, Flows, NEW k \in Sockets, PeerSends(k)
    PROVE  Flows'
<1> USE Pairs
<1> DEFINE e == <<k, sent[k] + 1>>
           p == Partner(k)
           h == Len(Held(k))
<1>0. PICK n \in Nat : Delivered(k, n) /\ Following(k, n)
  BY DEF Flows, Flow
<1>1. /\ wire' = [wire EXCEPT ![k] = Append(wire[k], e)]
      /\ sent' = [sent EXCEPT ![k] = sent[k] + 1]
      /\ peer[k] \in {"open", "stalled"}
      /\ UNCHANGED <<peer, got, lost, noise, threadPc, buffer>>
  BY DEF PeerSends, threadVars
<1>2. \A j \in Sockets : Held(j)' = Held(j)
  BY <1>1 DEF Held
<1>3. ASSUME NEW j \in Sockets, j # k
      PROVE  Flow(j)' /\ Silence(j)'
  <2>1. wire'[j] = wire[j] /\ sent'[j] = sent[j]
    BY <1>1, <1>3 DEF Types, TypeOK
  <2>2. QED
    BY <1>1, <1>2, <2>1, QuietFlow DEF Flows
<1>4. Silence(k)'
  BY <1>1 DEF Flows, Silence, Partner
<1>5. Flow(k)'
  <2>1. wire[k] \in Seq(Chunks) /\ Len(wire[k]) \in Nat /\ n \in Nat /\ h \in Nat
    BY Lengths DEF Types, TypeOK
  <2>2. e \in Chunks
    <3>1. /\ MaxSends[k] \in Nat /\ sent[k] \in Nat
          /\ sent[k] < MaxSends[k]
      BY TcpAssumption DEF PeerSends, Types
    <3>2. sent[k] + 1 \in 1..MaxSends[k]
      BY <3>1
    <3>3. QED
      BY <3>2, NextIsChunk
  <2> HIDE DEF e, h, p
  <2>3. /\ Len(Append(wire[k], e)) = Len(wire[k]) + 1
        /\ \A i \in 1..Len(wire[k]) : Append(wire[k], e)[i] = wire[k][i]
        /\ Append(wire[k], e)[Len(wire[k]) + 1] = e
    BY <2>1, <2>2, AppendProperties
  <2>4. wire'[k] = Append(wire[k], e) /\ sent'[k] = sent[k] + 1
    BY <1>1 DEF Types, TypeOK
  <2>5. ASSUME peer[p] \in Lasting
        PROVE  /\ \A i \in 1..Len(wire'[k]) : wire'[k][i] = <<k, n + h + i>>
               /\ sent'[k] = n + h + Len(wire'[k])
    <3>1. /\ \A i \in 1..Len(wire[k]) : wire[k][i] = <<k, n + h + i>>
          /\ sent[k] = n + h + Len(wire[k])
      BY <1>0, <1>1, <2>5 DEF Following, Lasting, h, p
    <3>2. sent'[k] = n + h + Len(wire'[k])
      BY <2>1, <2>3, <2>4, <3>1
    <3>3. e = <<k, n + h + (Len(wire[k]) + 1)>>
      BY <2>1, <3>1 DEF e
    <3>4. ASSUME NEW i \in 1..Len(wire'[k])
          PROVE  wire'[k][i] = <<k, n + h + i>>
      <4>1. CASE i = Len(wire[k]) + 1
        BY <2>3, <2>4, <3>3, <4>1
      <4>2. CASE i # Len(wire[k]) + 1
        <5>1. i \in 1..Len(wire[k])
          BY <2>1, <2>3, <2>4, <4>2
        <5>2. QED
          BY <2>3, <2>4, <3>1, <5>1
      <4>3. QED
        BY <4>1, <4>2
    <3>5. QED
      BY <3>2, <3>4
  <2>6. peer[p] \in Lasting => \A i \in 1..h : Held(k)[i] = <<k, n + i>>
    BY <1>0 DEF Following, h, p
  <2>7. peer' = peer /\ Held(k)' = Held(k) /\ p' = p
    BY <1>1, <1>2 DEF Partner, p
  <2>8. Following(k, n)'
    BY <2>5, <2>6, <2>7 DEF Following, h, p
  <2>9. Delivered(k, n)'
    BY <1>0, <1>1, QuietDelivered
  <2>10. QED
    BY <2>8, <2>9 DEF Flow
<1>6. QED
  BY <1>3, <1>4, <1>5 DEF Flows

\* recv moves what was sent first from the wire to the thread.
LEMMA ThreadRecvFlows ==
    ASSUME Types, Flows, NEW k \in Sockets, ThreadRecv(k)
    PROVE  Flows'
<1> USE Pairs
<1> DEFINE p == Partner(k)
           w == wire[k]
<1>0. PICK n \in Nat : Delivered(k, n) /\ Following(k, n)
  BY DEF Flows, Flow
<1>1. PICK m \in 1..Len(w) :
          /\ buffer' = [buffer EXCEPT ![k] = SubSeq(w, 1, m)]
          /\ wire' = [wire EXCEPT ![k] = SubSeq(w, m + 1, Len(w))]
  BY DEF ThreadRecv
<1>2. /\ threadPc' = [threadPc EXCEPT ![k] = "fuzz"]
      /\ threadPc[k] = "recv"
      /\ UNCHANGED <<peer, sent, got, lost, noise>>
  BY DEF ThreadRecv, Thread, peerVars
<1>3. ASSUME NEW j \in Sockets, j # k
      PROVE  Flow(j)' /\ Silence(j)'
  <2>1. /\ wire'[j] = wire[j] /\ buffer'[j] = buffer[j] /\ threadPc'[j] = threadPc[j]
        /\ Held(j)' = Held(j)
    BY <1>1, <1>2, <1>3 DEF Types, TypeOK, Held
  <2>2. QED
    BY <1>2, <2>1, QuietFlow DEF Flows
<1>4. /\ n \in Nat /\ Len(w) \in Nat /\ m \in Nat /\ m <= Len(w) /\ 1 <= m
      /\ w \in Seq(Chunks)
  <2>1. Len(w) \in Nat /\ w \in Seq(Chunks)
    BY Lengths DEF Types, TypeOK
  <2>2. QED
    BY ONLY <2>1, n \in Nat, m \in 1..Len(w)
<1> HIDE DEF w, p
<1>5. /\ Len(SubSeq(w, 1, m)) = m
      /\ Len(SubSeq(w, m + 1, Len(w))) = Len(w) - m
      /\ \A i \in 1..m : SubSeq(w, 1, m)[i] = w[i]
      /\ \A i \in 1..(Len(w) - m) : SubSeq(w, m + 1, Len(w))[i] = w[m + i]
  BY <1>4, SplitTypes
<1>6. /\ Held(k) = <<>>
      /\ Held(k)' = SubSeq(w, 1, m)
      /\ buffer'[k] = SubSeq(w, 1, m)
      /\ wire'[k] = SubSeq(w, m + 1, Len(w))
  BY <1>1, <1>2 DEF Types, TypeOK, Held, Busy, w
<1>7. Silence(k)'
  <2>1. buffer'[k] # <<>>
    BY <1>4, <1>5, <1>6
  <2>2. QED
    BY <1>2, <2>1 DEF Flows, Silence, Partner
<1>8. ASSUME peer[p] \in Lasting
      PROVE  /\ \A i \in 1..Len(Held(k)') : Held(k)'[i] = <<k, n + i>>
             /\ \A i \in 1..Len(wire'[k]) : wire'[k][i] = <<k, n + Len(Held(k)') + i>>
             /\ peer[k] \in Lasting => sent[k] = n + Len(Held(k)') + Len(wire'[k])
  <2>1. /\ \A i \in 1..Len(w) : w[i] = <<k, n + 0 + i>>
        /\ peer[k] \in Lasting => sent[k] = n + 0 + Len(w)
    BY <1>0, <1>6, <1>8 DEF Following, p, w
  <2>2. \A i \in 1..m : SubSeq(w, 1, m)[i] = <<k, n + i>>
    <3>1. \A i \in 1..m : i \in 1..Len(w) /\ n + 0 + i = n + i
      BY ONLY <1>4
    <3>2. QED
      BY ONLY <1>5, <2>1, <3>1, Zenon
  <2>3. \A i \in 1..(Len(w) - m) : m + i \in 1..Len(w) /\ n + 0 + (m + i) = n + m + i
    BY ONLY <1>4
  <2>4. \A i \in 1..(Len(w) - m) : SubSeq(w, m + 1, Len(w))[i] = <<k, n + m + i>>
    BY ONLY <1>5, <2>1, <2>3, Zenon
  <2>5. n + 0 + Len(w) = n + m + (Len(w) - m)
    BY <1>4
  <2>6. QED
    BY <1>5, <1>6, <2>1, <2>2, <2>4, <2>5
<1>9. Flow(k)'
  <2>1. Following(k, n)'
    BY <1>2, <1>8 DEF Following, Partner, p
  <2>2. Delivered(k, n)'
    BY <1>0, <1>2, QuietDelivered
  <2>3. QED
    BY <2>1, <2>2 DEF Flow
<1>10. QED
  BY <1>3, <1>7, <1>9 DEF Flows

\* What comes next is put at the end.
LEMMA Extended ==
    ASSUME NEW S, NEW g \in Seq(S), NEW b \in Seq(S), NEW k, NEW gone, NEW n \in Nat,
           InOrderBut(g, k, n, gone),
           \A i \in 1..Len(b) : b[i] = <<k, n + i>>
    PROVE  InOrderBut(g \o b, k, n + Len(b), gone)
<1> DEFINE h == g \o b
           l == Len(g)
<1>1. /\ Len(h) = l + Len(b)
      /\ \A i \in 1..(l + Len(b)) : h[i] = IF i <= l THEN g[i] ELSE b[i - l]
      /\ l \in Nat /\ Len(b) \in Nat
  BY ConcatProperties, LenProperties
<1> HIDE DEF h, l
<1>2. \A i \in 1..l : h[i] = g[i] /\ g[i][2] \in 1..n /\ g[i] = <<k, g[i][2]>>
  <2>1. \A i \in 1..l : i \in 1..(l + Len(b)) /\ i <= l
    BY ONLY <1>1
  <2>2. QED
    BY <1>1, <2>1 DEF InOrderBut, l
<1>3. \A i \in 1..Len(h) : i \notin 1..l => i - l \in 1..Len(b) /\ ~(i <= l)
  BY ONLY <1>1
<1>4. \A i \in 1..Len(h) : i \notin 1..l => h[i] = <<k, n + (i - l)>>
  BY <1>1, <1>3
<1>5. \A i \in 1..Len(h) : h[i] = <<k, h[i][2]>> /\ h[i][2] \in 1..(n + Len(b))
  <2>1. \A q \in 1..n : q \in 1..(n + Len(b))
    BY ONLY <1>1, n \in Nat
  <2>2. \A i \in 1..Len(b) : n + i \in 1..(n + Len(b))
    BY ONLY <1>1, n \in Nat
  <2>3. ASSUME NEW i \in 1..Len(h), i \in 1..l
        PROVE  h[i] = <<k, h[i][2]>> /\ h[i][2] \in 1..(n + Len(b))
    BY <1>2, <2>1, <2>3
  <2>4. ASSUME NEW i \in 1..Len(h), i \notin 1..l
        PROVE  h[i] = <<k, h[i][2]>> /\ h[i][2] \in 1..(n + Len(b))
    <3>1. i - l \in 1..Len(b) /\ h[i] = <<k, n + (i - l)>>
      BY <1>3, <1>4, <2>4
    <3>2. QED
      BY <2>2, <3>1
  <2>5. QED
    BY <2>3, <2>4
<1>6. ASSUME NEW i \in 1..Len(h), NEW j \in 1..Len(h), i < j
      PROVE  h[i][2] < h[j][2]
  <2>1. CASE j \in 1..l
    <3>1. i \in 1..l
      BY ONLY <1>1, <1>6, <2>1
    <3>2. g[i][2] < g[j][2]
      BY <1>6, <2>1, <3>1 DEF InOrderBut, l
    <3>3. QED
      BY <1>2, <2>1, <3>1, <3>2
  <2>2. CASE j \notin 1..l /\ i \in 1..l
    <3>1. h[i][2] \in 1..n /\ h[j][2] = n + (j - l) /\ j - l \in 1..Len(b)
      <4>1. h[i][2] \in 1..n
        BY <1>2, <2>2
      <4>2. h[j] = <<k, n + (j - l)>> /\ j - l \in 1..Len(b)
        BY <1>3, <1>4, <2>2
      <4>3. QED
        BY ONLY <4>1, <4>2
    <3>2. QED
      BY ONLY <1>1, <3>1, n \in Nat
  <2>3. CASE i \notin 1..l
    <3>1. j \notin 1..l
      BY ONLY <1>1, <1>6, <2>3
    <3>2. h[i][2] = n + (i - l) /\ h[j][2] = n + (j - l)
      BY <1>4, <2>3, <3>1
    <3>3. QED
      BY ONLY <1>1, <1>6, <3>2, n \in Nat
  <2>4. QED
    BY <2>1, <2>2, <2>3
<1>7. ASSUME NEW q \in 1..(n + Len(b)), <<k, q>> \notin gone
      PROVE  \E i \in 1..Len(h) : h[i] = <<k, q>>
  <2>1. CASE q \in 1..n
    <3>1. PICK i \in 1..l : g[i] = <<k, q>>
      BY <1>7, <2>1 DEF InOrderBut, l
    <3>2. i \in 1..Len(h)
      BY ONLY <1>1, i \in 1..l
    <3>3. QED
      BY <1>2, <3>1, <3>2
  <2>2. CASE q \notin 1..n
    <3>1. l + (q - n) \in 1..Len(h) /\ l + (q - n) \notin 1..l /\ n + ((l + (q - n)) - l) = q
      BY ONLY <1>1, <2>2, n \in Nat, q \in 1..(n + Len(b))
    <3>2. QED
      BY <1>4, <3>1
  <2>3. QED
    BY <2>1, <2>2
<1>8. QED
  BY <1>5, <1>6, <1>7 DEF InOrderBut, h

\* What was lost counts with what was delivered.
LEMMA Lost ==
    ASSUME NEW S, NEW b \in Seq(S), NEW g, NEW k, NEW gone, NEW now, NEW n \in Nat,
           InOrderBut(g, k, n, gone),
           \A i \in 1..Len(b) : b[i] = <<k, n + i>> /\ b[i] \in now
    PROVE  InOrderBut(g, k, n + Len(b), gone \cup now)
<1>1. Len(b) \in Nat
  BY LenProperties
<1>2. \A q \in 1..n : q \in 1..(n + Len(b))
  BY ONLY <1>1, n \in Nat
<1>3. ASSUME NEW q \in 1..(n + Len(b)), q \notin 1..n
      PROVE  <<k, q>> \in now
  <2>1. q - n \in 1..Len(b) /\ n + (q - n) = q
    BY ONLY <1>1, <1>3, n \in Nat, q \in 1..(n + Len(b))
  <2>2. QED
    BY <2>1
<1>4. QED
  BY <1>2, <1>3 DEF InOrderBut

\* send delivers to the partner what comes next, and all of it.
LEMMA ThreadSendFlows ==
    ASSUME Types, Stages, Flows, NEW k \in Sockets, ThreadSend(k)
    PROVE  Flows'
<1> USE Pairs
<1> DEFINE p == Partner(k)
           b == buffer[k]
           g == got[p]
<1>0. PICK n \in Nat : Delivered(k, n) /\ Following(k, n)
  BY DEF Flows, Flow
<1>1. /\ threadPc[k] = "send"
      /\ threadPc' = [threadPc EXCEPT ![k] = "recv"]
      /\ sendFd[k] = p
      /\ UNCHANGED <<sent, lost, buffer>>
  BY DEF ThreadSend, Thread, Stages, Paired
<1>2. p \in Sockets /\ p # k /\ g \in Seq(Chunks) /\ b \in Seq(Chunks)
  BY DEF Types, TypeOK
<1>3. \/ /\ peer[p] = "open"
         /\ got' = [got EXCEPT ![p] = g \o b]
         /\ noise' = [noise EXCEPT ![p] = noise[p] \/ b = <<>>]
         /\ UNCHANGED <<peer, wire>>
      \/ /\ peer[p] = "closed"
         /\ peer' = [peer EXCEPT ![p] = "reset"]
         /\ wire' = [wire EXCEPT ![p] = <<>>]
         /\ UNCHANGED <<got, noise>>
      \/ peer[p] = "reset" /\ UNCHANGED <<peer, wire, got, noise>>
  BY <1>1 DEF ThreadSend
<1>4. Held(k) = b /\ Held(k)' = <<>> /\ threadPc'[k] = "recv"
  BY <1>1 DEF Held, Busy, Types, TypeOK
<1>5. \A j \in Sockets : j # k => Held(j)' = Held(j) /\ threadPc'[j] = threadPc[j]
  BY <1>1 DEF Held, Types, TypeOK
<1>6. ASSUME NEW j \in Sockets, Partner(j) = p
      PROVE  j = k
  BY <1>6
<1> HIDE DEF p, b, g
<1>7. CASE /\ peer[p] = "open"
           /\ got' = [got EXCEPT ![p] = g \o b]
           /\ noise' = [noise EXCEPT ![p] = noise[p] \/ b = <<>>]
           /\ UNCHANGED <<peer, wire>>
  <2>1. ASSUME NEW j \in Sockets, j # k
        PROVE  Flow(j)' /\ Silence(j)'
    <3>1. Partner(j) # p
      BY <1>6, <2>1
    <3>2. got'[Partner(j)] = got[Partner(j)]
      BY <1>7, <3>1 DEF Types, TypeOK
    <3>3. noise'[Partner(j)] = noise[Partner(j)]
      BY <1>7, <3>1 DEF Types, TypeOK
    <3>4. QED
      BY <1>1, <1>5, <1>7, <2>1, <3>2, <3>3, QuietFlow DEF Flows
  <2>2. Silence(k)'
    <3>1. noise'[p] => noise[p] \/ b = <<>>
      BY <1>2, <1>7 DEF Types, TypeOK
    <3>2. noise[p] \/ b = <<>> => peer[k] \notin Lasting
      BY <1>1 DEF Flows, Silence, Busy, p, b
    <3>3. QED
      BY <1>4, <1>7, <3>1, <3>2 DEF Silence, Busy, Partner, p
  <2>3. Len(b) \in Nat /\ Len(wire[k]) \in Nat /\ n + Len(b) \in Nat
    <3>1. Len(b) \in Nat /\ Len(wire[k]) \in Nat
      BY <1>2, LenProperties, Lengths
    <3>2. QED
      BY ONLY <3>1, n \in Nat
  <2>4. got'[p] = g \o b /\ p' = p
    BY <1>2, <1>7 DEF Types, TypeOK, Partner, p
  <2>5. /\ \A i \in 1..Len(b) : b[i] = <<k, n + i>>
        /\ \A i \in 1..Len(wire[k]) : wire[k][i] = <<k, n + Len(b) + i>>
        /\ peer[k] \in Lasting => sent[k] = n + Len(b) + Len(wire[k])
    BY <1>0, <1>4, <1>7 DEF Following, Lasting, p
  <2>6. Delivered(k, n + Len(b))'
    <3>1. InOrderBut(g \o b, k, n + Len(b), lost[k])
      <4>1. InOrderBut(g, k, n, lost[k])
        BY <1>0 DEF Delivered, g, p
      <4>2. QED
        BY <1>2, <2>5, <4>1, Extended
    <3>2. QED
      BY <1>1, <2>4, <3>1 DEF Delivered, InOrderBut, p, b
  <2>7. Following(k, n + Len(b))'
    <3>1. Len(Held(k)') = 0 /\ \A i \in 1..Len(Held(k)') : FALSE
      BY <1>4
    <3>2. n + Len(b) + 0 = n + Len(b)
      BY ONLY <2>3
    <3>3. b' = b
      BY <1>1 DEF b
    <3>4. QED
      BY <1>1, <1>7, <2>5, <3>1, <3>2, <3>3 DEF Following, Partner, p
  <2>8. Flow(k)'
    <3> DEFINE m == n + Len(b)
    <3> SUFFICES \E q \in Nat : Delivered(k, q)' /\ Following(k, q)'
      BY DEF Flow
    <3>1. m \in Nat
      BY <2>3
    <3>2. QED
      BY <2>6, <2>7, <3>1, <1>1 DEF b
  <2>9. QED
    BY <2>1, <2>2, <2>8 DEF Flows
<1>8. CASE \/ /\ peer[p] = "closed"
              /\ peer' = [peer EXCEPT ![p] = "reset"]
              /\ wire' = [wire EXCEPT ![p] = <<>>]
              /\ UNCHANGED <<got, noise>>
           \/ peer[p] = "reset" /\ UNCHANGED <<peer, wire, got, noise>>
  <2>1. /\ got' = got /\ noise' = noise
        /\ peer'[p] \notin Lasting
        /\ \A j \in Sockets : peer'[j] \in Lasting => peer[j] \in Lasting
        /\ \A j \in Sockets : \/ wire'[j] = wire[j]
                              \/ wire'[j] = <<>> /\ peer'[j] \notin Lasting
    <3>1. CASE peer[p] = "closed" /\ peer' = [peer EXCEPT ![p] = "reset"]
               /\ wire' = [wire EXCEPT ![p] = <<>>] /\ UNCHANGED <<got, noise>>
      <4>1. /\ peer'[p] = "reset" /\ wire'[p] = <<>>
            /\ \A j \in Sockets : j # p => peer'[j] = peer[j] /\ wire'[j] = wire[j]
        BY <1>2, <3>1 DEF Types, TypeOK
      <4>2. QED
        BY <3>1, <4>1 DEF Lasting
    <3>2. CASE peer[p] = "reset" /\ UNCHANGED <<peer, wire, got, noise>>
      BY <3>2 DEF Lasting
    <3>3. QED
      BY <1>8, <3>1, <3>2
  <2>2. ASSUME NEW j \in Sockets
        PROVE  Flow(j)' /\ Silence(j)'
    <3>1. peer'[Partner(j)] \in Lasting => Held(j)' = Held(j)
      BY <1>5, <2>1 DEF p
    <3>2. threadPc'[j] \in Busy => threadPc[j] \in Busy /\ buffer'[j] = buffer[j]
      BY <1>1, <1>4, <1>5 DEF Busy
    <3>3. QED
      BY <1>1, <2>1, <3>1, <3>2, QuietFlow DEF Flows
  <2>3. QED
    BY <2>2 DEF Flows
<1>9. QED
  BY <1>3, <1>7, <1>8

\* postFuzzing keeps what it was given, or loses all of it.
LEMMA ThreadFuzzFlows ==
    ASSUME Types, Flows, NEW k \in Sockets, ThreadFuzz(k)
    PROVE  Flows'
<1> USE Pairs
<1> DEFINE b == buffer[k]
<1>1. /\ threadPc[k] = "fuzz"
      /\ UNCHANGED <<peer, sent, got, noise, wire, buffer>>
  BY DEF ThreadFuzz, Thread
<1>2. \A j \in Sockets : j # k => Held(j)' = Held(j) /\ threadPc'[j] = threadPc[j]
  BY <1>1 DEF ThreadFuzz, Thread, Held, Types, TypeOK
<1>3. CASE lost' = lost /\ threadPc'[k] \in Busy
  <2>1. \A j \in Sockets : Held(j)' = Held(j)
    BY <1>1, <1>2, <1>3 DEF Held, Busy
  <2>2. \A j \in Sockets : threadPc'[j] \in Busy => threadPc[j] \in Busy
    BY <1>1, <1>2, <1>3 DEF Busy
  <2>3. QED
    BY <1>1, <1>3, <2>1, <2>2, QuietFlow DEF Flows
<1>4. CASE /\ lost' = [lost EXCEPT ![k] = lost[k] \cup Received(k)]
           /\ threadPc'[k] = "sendNull"
  <2>1. /\ lost'[k] = lost[k] \cup Received(k)
        /\ \A j \in Sockets : j # k => lost'[j] = lost[j]
    BY <1>4 DEF Types, TypeOK
  <2>2. ASSUME NEW j \in Sockets, j # k
        PROVE  Flow(j)' /\ Silence(j)'
    BY <1>1, <1>2, <2>1, <2>2, QuietFlow DEF Flows
  <2>3. Silence(k)'
    BY <1>1, <1>4 DEF Flows, Silence, Busy, Partner
  <2>4. PICK n \in Nat : Delivered(k, n) /\ Following(k, n)
    BY DEF Flows, Flow
  <2>5. CASE peer[Partner(k)] \notin Lasting
    <3>1. Delivered(k, n)'
      BY <1>1, <2>1, <2>4, QuietDelivered
    <3>2. Following(k, n)'
      BY <1>1, <2>5 DEF Following, Partner
    <3>3. QED
      BY <2>2, <2>3, <3>1, <3>2 DEF Flows, Flow
  <2>6. CASE peer[Partner(k)] \in Lasting
    <3>1. Held(k) = b /\ Held(k)' = <<>>
      BY <1>1, <1>4 DEF Held, Busy
    <3>2. /\ \A i \in 1..Len(b) : b[i] = <<k, n + i>>
          /\ \A i \in 1..Len(wire[k]) : wire[k][i] = <<k, n + Len(b) + i>>
          /\ peer[k] \in Lasting => sent[k] = n + Len(b) + Len(wire[k])
      BY <2>4, <2>6, <3>1 DEF Following
    <3>3. b \in Seq(Chunks) /\ got[Partner(k)] \in Seq(Chunks)
      BY DEF Types, TypeOK
    <3>4. PICK m \in Nat : m = n + Len(b) /\ m + 0 = m
      <4>1. Len(b) \in Nat
        BY <3>3, LenProperties
      <4>2. n + Len(b) \in Nat /\ (n + Len(b)) + 0 = n + Len(b)
        BY ONLY <4>1, n \in Nat
      <4>3. QED
        BY <4>2
    <3>5. Delivered(k, m)'
      <4>1. InOrderBut(got[Partner(k)], k, n, lost[k])
        BY <2>4 DEF Delivered
      <4>2. \A i \in 1..Len(b) : b[i] = <<k, n + i>> /\ b[i] \in Received(k)
        BY <3>2, <3>3, LenProperties DEF Received
      <4>3. InOrderBut(got[Partner(k)], k, n + Len(b), lost[k] \cup Received(k))
        BY ONLY <3>3, <4>1, <4>2, n \in Nat, Lost
      <4>4. QED
        BY <1>1, <2>1, <3>4, <4>3 DEF Delivered, InOrderBut, Partner
    <3>6. Following(k, m)'
      <4>1. Len(Held(k)') = 0 /\ \A i \in 1..Len(Held(k)') : FALSE
        BY <3>1
      <4>2. /\ \A i \in 1..Len(wire'[k]) : wire'[k][i] = <<k, m + 0 + i>>
            /\ peer'[k] \in Lasting => sent'[k] = m + 0 + Len(wire'[k])
        BY <1>1, <3>2, <3>4
      <4>3. QED
        BY <4>1, <4>2 DEF Following, Partner
    <3>7. Flow(k)'
      BY <3>4, <3>5, <3>6 DEF Flow
    <3>8. QED
      BY <2>2, <2>3, <3>7 DEF Flows
  <2>7. QED
    BY <2>5, <2>6
<1>5. QED
  <2>1. \/ threadPc'[k] \in {"send", "stuck"} /\ lost' = lost
        \/ /\ threadPc'[k] = "sendNull"
           /\ lost' = [lost EXCEPT ![k] = lost[k] \cup Received(k)]
    BY DEF ThreadFuzz, Thread, Types, TypeOK
  <2>2. QED
    BY <1>3, <1>4, <2>1 DEF Busy

\* The other steps move no data; a peer that resets its connection loses what was
\* on its way.
LEMMA OtherFlows ==
    ASSUME Types, Stages, Flows,
           \/ \E c \in Conns : ClientConnects(c)
           \/ \E k \in Sockets : \/ PeerStalls(k) \/ PeerEnds(k)
                                 \/ ThreadRecvEnd(k)
                                 \/ ThreadRecvError(k)
                                 \/ ThreadSendNothing(k)
           \/ \E l \in Listeners : ListenStep(l)
           \/ MainLeavesTry
    PROVE  Flows'
<1> USE Pairs DEF peerVars, listenVars, threadVars
<1>1. ASSUME UNCHANGED <<got, lost, noise, sent>>,
             \A j \in Sockets : peer'[j] \in Lasting => peer[j] \in Lasting,
             \A j \in Sockets : \/ wire'[j] = wire[j]
                                \/ wire'[j] = <<>> /\ peer'[j] \notin Lasting,
             \A j \in Sockets : Held(j)' = Held(j),
             \A j \in Sockets : threadPc'[j] \in Busy =>
                                   \/ threadPc[j] \in Busy /\ buffer'[j] = buffer[j]
                                   \/ peer'[j] \notin Lasting
      PROVE  Flows'
  BY <1>1, QuietFlow DEF Flows
<1>2. ASSUME NEW c \in Conns, ClientConnects(c)
      PROVE  Flows'
  <2>1. \A j \in Sockets : peer'[j] \in Lasting => peer[j] \in Lasting
    BY <1>2 DEF ClientConnects, Types, TypeOK, Lasting
  <2>2. QED
    BY <1>1, <1>2, <2>1 DEF ClientConnects, Held
<1>3. ASSUME NEW k \in Sockets, PeerEnds(k)
      PROVE  Flows'
  <2>1. \/ peer' = [peer EXCEPT ![k] = "closed"] /\ wire' = wire
        \/ peer' = [peer EXCEPT ![k] = "reset"] /\ wire' = [wire EXCEPT ![k] = <<>>]
    BY <1>3 DEF PeerEnds
  <2>2. \A j \in Sockets : peer'[j] \in Lasting => peer[j] \in Lasting
    BY <2>1 DEF Types, TypeOK, Lasting
  <2>3. \A j \in Sockets : \/ wire'[j] = wire[j]
                           \/ wire'[j] = <<>> /\ peer'[j] \notin Lasting
    BY <2>1 DEF Types, TypeOK, Lasting
  <2>4. QED
    BY <1>1, <1>3, <2>2, <2>3 DEF PeerEnds, Held
<1>4. ASSUME NEW k \in Sockets, ThreadRecvEnd(k)
      PROVE  Flows'
  <2>1. threadPc' = [threadPc EXCEPT ![k] = "fuzz"]
    BY <1>4 DEF ThreadRecvEnd, Thread
  <2>2. /\ buffer' = [buffer EXCEPT ![k] = <<>>]
        /\ threadPc[k] = "recv" /\ peer[k] = "closed"
        /\ UNCHANGED <<peer, sent, got, lost, noise, wire>>
    BY <1>4 DEF ThreadRecvEnd, Thread
  <2>3. \A j \in Sockets : j # k => buffer'[j] = buffer[j] /\ threadPc'[j] = threadPc[j]
    BY <2>1, <2>2 DEF Types, TypeOK
  <2>4. buffer'[k] = <<>>
    BY <2>2 DEF Types, TypeOK
  <2>5. \A j \in Sockets : Held(j)' = Held(j)
    BY <2>2, <2>3, <2>4 DEF Held, Busy
  <2>6. QED
    BY <1>1, <2>2, <2>3, <2>5 DEF Lasting
<1>5. ASSUME NEW k \in Sockets, ThreadRecvError(k)
      PROVE  Flows'
  <2>1. threadPc' = threadPc
    BY <1>5 DEF ThreadRecvError, Thread, Types, TypeOK
  <2>2. QED
    BY <1>1, <1>5, <2>1 DEF ThreadRecvError, Held
<1>6. ASSUME NEW l \in Listeners, ListenAccept(l)
      PROVE  Flows'
  BY <1>1, <1>6 DEF ListenAccept, Held
<1>7. ASSUME NEW l \in Listeners, ListenConnect(l)
      PROVE  Flows'
  <2>1. /\ UNCHANGED <<got, lost, noise, sent, wire, threadVars>>
        /\ \/ peer' = peer
           \/ peer' = [peer EXCEPT ![<<accepted[l], "server">>] = "open"]
    BY <1>7 DEF ListenConnect
  <2>2. accepted[l] \in Conns /\ peer[<<accepted[l], "server">>] = "none"
    BY <1>7 DEF ListenConnect, Listen, Stages, Accepted, Fresh
  <2>3. \A j \in Sockets : peer'[j] \in Lasting => peer[j] \in Lasting
    BY <2>1, <2>2 DEF Types, TypeOK, Lasting
  <2>4. QED
    BY <1>1, <2>1, <2>3 DEF Held
<1>8. ASSUME NEW l \in Listeners, ListenPair(l)
      PROVE  Flows'
  <2>1. /\ \A k \in Sockets : \/ threadPc'[k] = threadPc[k]
                              \/ k[1] = accepted[l] /\ threadPc'[k] \in {"recv", "missing"}
        /\ UNCHANGED <<got, lost, noise, sent, wire, peer, buffer>>
    BY <1>8 DEF ListenPair
  <2>2. \A t \in Sides : threadPc[<<accepted[l], t>>] = "none"
    BY <1>8 DEF ListenPair, Listen, Stages, Accepted
  <2>3. \A j \in Sockets : threadPc'[j] \in Busy <=> threadPc[j] \in Busy
    BY <2>1, <2>2 DEF Busy
  <2>4. QED
    BY <1>1, <2>1, <2>3 DEF Held
<1>9. CASE MainLeavesTry
  BY <1>1, <1>9 DEF MainLeavesTry, Held
<1>10. ASSUME NEW k \in Sockets, PeerStalls(k)
       PROVE  Flows'
  <2>1. \A j \in Sockets : peer'[j] \in Lasting => peer[j] \in Lasting
    BY <1>10 DEF PeerStalls, Types, TypeOK, Lasting
  <2>2. QED
    BY <1>1, <1>10, <2>1 DEF PeerStalls, Held
<1>11. ASSUME NEW k \in Sockets, ThreadSendNothing(k)
       PROVE  Flows'
  <2>1. \A j \in Sockets : /\ threadPc[j] \in Busy => threadPc'[j] = threadPc[j]
                           /\ threadPc'[j] \in Busy => threadPc[j] \in Busy
    BY <1>11 DEF ThreadSendNothing, Thread, Types, TypeOK, Busy
  <2>2. QED
    BY <1>1, <1>11, <2>1 DEF ThreadSendNothing, Held
<1>12. QED
  BY <1>2, <1>3, <1>4, <1>5, <1>6, <1>7, <1>8, <1>9, <1>10, <1>11 DEF ListenStep

-----------------------------------------------------------------------------
(* The theorems. *)

\* The invariant is inductive.
LEMMA NextInv == Inv /\ [Next]_vars => Inv'
<1> SUFFICES ASSUME Inv, [Next]_vars PROVE Inv'
  OBVIOUS
<1> USE DEF Inv
<1>1. ASSUME NEW c \in Conns, ClientConnects(c) PROVE Inv'
  BY <1>1, PeerTypes, ClientConnectsStages, OtherFlows
<1>2. ASSUME NEW k \in Sockets, PeerSends(k) \/ PeerStalls(k) \/ PeerEnds(k) PROVE Inv'
  BY <1>2, PeerTypes, OtherStages, PeerSendsFlows, OtherFlows
<1>3. ASSUME NEW l \in Listeners, ListenStep(l) PROVE Inv'
  <2>1. Types'
    BY <1>3, ListenTypes DEF Stages
  <2>2. Stages'
    BY <1>3, ListenAcceptStages, ListenConnectStages, ListenPairStages DEF ListenStep
  <2>3. Flows'
    BY <1>3, OtherFlows
  <2>4. QED
    BY <2>1, <2>2, <2>3
<1>4. CASE MainLeavesTry
  <2>1. Types'
    BY <1>4 DEF MainLeavesTry, Types, TypeOK, peerVars, threadVars
  <2>2. QED
    BY <1>4, <2>1, OtherStages, OtherFlows
<1>5. ASSUME NEW k \in Sockets, ThreadStep(k) PROVE Inv'
  <2>1. Types'
    BY <1>5, ThreadTypes DEF Stages
  <2>2. Stages'
    BY <1>5, OtherStages
  <2>3. Flows'
    BY <1>5, ThreadRecvFlows, ThreadFuzzFlows, ThreadSendFlows, OtherFlows DEF ThreadStep
  <2>4. QED
    BY <2>1, <2>2, <2>3
<1>6. CASE UNCHANGED vars
  <2>1. UNCHANGED <<proxyUp, handlerAlive, maxFds, backlog, listenPc, accepted, open,
                    peer, sent, got, lost, noise, wire, threadPc, sendFd, buffer>>
    BY <1>6 DEF vars, listenVars, peerVars, threadVars
  <2>2. Types'
    BY <2>1 DEF Types, TypeOK
  <2>3. Stages'
    BY <2>1, QuietStages
  <2>4. Flows'
    BY <2>1, QuietFlow DEF Flows, Held
  <2>5. QED
    BY <2>2, <2>3, <2>4
<1>7. QED
  BY <1>1, <1>2, <1>3, <1>4, <1>5, <1>6 DEF Next

\* Inv holds in every reachable state.
THEOREM TcpInvariance == Spec => []Inv
BY InitInv, NextInv, PTL DEF Spec

\* The threads of the TCP relay keep the types of its state, and the proxy its
\* descriptors within the limit.
THEOREM TcpTypeCorrect == Spec => []TypeOK
<1>1. Inv => TypeOK
  BY DEF Inv, Types
<1>2. QED
  BY <1>1, TcpInvariance, PTL

\* What a peer is delivered is what the other peer of its own connection sent, in
\* order and nothing twice, for any number of connections and redirections and
\* whatever fails; what is missing a failed malloc lost, and fuzz alone comes only
\* when that other peer has ended.
THEOREM StaysInOrder == Spec => []InOrder
<1>1. ASSUME Inv, NEW k \in Sockets
      PROVE  LET data == got[Partner(k)] IN
             /\ \A i \in DOMAIN data : data[i][1] = k
             /\ \A i, j \in DOMAIN data : i < j => data[i][2] < data[j][2]
             /\ \A i \in DOMAIN data : \A n \in 1..data[i][2] :
                   \/ <<k, n>> \in lost[k]
                   \/ \E j \in DOMAIN data : data[j] = <<k, n>>
             /\ noise[Partner(k)] => peer[k] \in {"closed", "reset"}
  <2> DEFINE g == got[Partner(k)]
  <2>1. PICK m \in Nat : InOrderBut(g, k, m, lost[k])
    BY <1>1 DEF Inv, Flows, Flow, Delivered
  <2>2. DOMAIN g = 1..Len(g)
    BY <1>1, Pairs, LenProperties DEF Inv, Types, TypeOK
  <2>3. noise[Partner(k)] => peer[k] \in {"closed", "reset"}
    BY <1>1 DEF Inv, Flows, Silence, Types, TypeOK, Lasting
  <2> HIDE DEF g
  <2>4. \A i \in 1..Len(g) : g[i][1] = k
    <3>1. \A i \in 1..Len(g) : g[i] = <<k, g[i][2]>>
      BY <2>1 DEF InOrderBut
    <3>2. \A x, y : (y = <<k, x>>) => (y[1] = k)
      OBVIOUS
    <3>3. QED
      BY ONLY <3>1, <3>2
  <2>5. \A i \in 1..Len(g) : \A n \in 1..g[i][2] : n \in 1..m
    <3>1. \A i \in 1..Len(g) : g[i][2] \in 1..m
      BY <2>1 DEF InOrderBut
    <3>2. QED
      BY ONLY <3>1, m \in Nat
  <2>6. QED
    BY <2>1, <2>2, <2>3, <2>4, <2>5 DEF InOrderBut, g
<1>2. Inv => InOrder
  <2> SUFFICES ASSUME Inv, NEW c \in Conns, NEW s \in Sides
               PROVE  LET from == <<c, s>>
                          data == got[<<c, Other(s)>>]
                      IN  /\ \A i \in DOMAIN data : data[i][1] = from
                          /\ \A i, j \in DOMAIN data : i < j => data[i][2] < data[j][2]
                          /\ \A i \in DOMAIN data : \A n \in 1..data[i][2] :
                                \/ <<from, n>> \in lost[from]
                                \/ \E j \in DOMAIN data : data[j] = <<from, n>>
                          /\ noise[<<c, Other(s)>>] => peer[from] \in {"closed", "reset"}
    BY DEF InOrder
  <2> DEFINE k == <<c, s>>
  <2>1. k \in Sockets /\ Partner(k) = <<c, Other(s)>>
    BY Pairs DEF Partner
  <2> HIDE DEF k
  <2>2. QED
    BY <1>1, <2>1 DEF k
<1>3. QED
  BY <1>2, TcpInvariance, PTL

-----------------------------------------------------------------------------
(* Who takes what is on its way. *)

\* Connection c is to be accepted, or the listen thread is at work on it.
UnderWay(c) ==
    LET l == Via[c] IN
    \/ Among(c, backlog[l])
    \/ accepted[l] = c /\ listenPc[l] # "accept"

\* A chunk on its way to the proxy has a thread that can receive it, or that has
\* to fuzz and send first, to a peer that exists, or a connection that its listen
\* thread has still to finish; or else the failure has occurred that took the
\* thread away.
TakenUnlessFailed ==
    \A k \in Sockets : wire[k] # <<>> =>
        \/ threadPc[k] = "recv" /\ peer[k] # "reset"
        \/ threadPc[k] \in {"fuzz", "send", "sendNull"} /\ peer[sendFd[k]] # "none"
        \/ threadPc[k] = "none" /\ UnderWay(k[1])
        \/ threadPc[k] = "missing" /\ "pthread_create" \in Failing
        \/ threadPc[k] = "stuck" /\ "radamsa" \in Failing

\* A client that has connected is not forgotten.
Kept ==
    \A c \in Conns : peer[<<c, "client">>] # "none" =>
        UnderWay(c) \/ \A s \in Sides : threadPc[<<c, s>>] # "none"

\* A connection with threads has both its peers.
Joined ==
    /\ \A k \in Sockets : threadPc[k] # "none" => peer[k] # "none" /\ peer[Partner(k)] # "none"
    /\ \A l \in Listeners : listenPc[l] = "pair" => peer[<<accepted[l], "server">>] # "none"

\* Where nothing can come from any more there is nothing left; a thread that was
\* given an empty message has received all there was, and one that is stuck or was
\* not created has a reason.
Drained ==
    \A k \in Sockets :
        /\ peer[k] \in {"none", "reset"} => wire[k] = <<>>
        /\ threadPc[k] \in Busy /\ buffer[k] = <<>> => peer[k] \notin Lasting /\ wire[k] = <<>>
        /\ threadPc[k] = "stuck" => "radamsa" \in Failing \/ buffer[k] = <<>>
        /\ threadPc[k] = "missing" => "pthread_create" \in Failing

TakersInv == Inv /\ Kept /\ Joined /\ Drained

\* Whom the backlog holds after one more, and after one less.
LEMMA AmongAppended ==
    ASSUME NEW S, NEW w \in Seq(S), NEW e \in S
    PROVE  /\ Among(e, Append(w, e))
           /\ \A x : Among(x, w) => Among(x, Append(w, e))
<1> DEFINE u == Append(w, e)
<1>1. /\ Len(w) \in Nat
      /\ Len(u) = Len(w) + 1
      /\ \A i \in 1..Len(w) : u[i] = w[i]
      /\ u[Len(w) + 1] = e
  BY AppendProperties, LenProperties
<1> HIDE DEF u
<1>2. Len(w) + 1 \in 1..Len(u) /\ \A i \in 1..Len(w) : i \in 1..Len(u)
  BY <1>1
<1>3. QED
  BY <1>1, <1>2 DEF Among, u

\* Who is not taken away is left.
LEMMA HeadOrTail ==
    ASSUME NEW S, NEW w \in Seq(S), w # <<>>, NEW x, Among(x, w), x # Head(w)
    PROVE  Among(x, Tail(w))
<1>1. /\ Len(Tail(w)) = Len(w) - 1
      /\ \A i \in 1..Len(Tail(w)) : Tail(w)[i] = w[i + 1]
  BY HeadTailProperties
<1>2. Len(w) \in Nat /\ Head(w) = w[1]
  BY LenProperties
<1>3. PICK i \in 1..Len(w) : w[i] = x
  BY DEF Among
<1>4. i # 1
  BY <1>2, <1>3
<1>5. i - 1 \in 1..Len(Tail(w)) /\ (i - 1) + 1 = i
  BY <1>1, <1>2, <1>4
<1>6. Tail(w)[i - 1] = x
  BY <1>1, <1>3, <1>5
<1>7. QED
  BY <1>5, <1>6 DEF Among

\* What keeps every connection with those who work on it.
LEMMA QuietTakers ==
    ASSUME Accepted, Kept, Joined, UNCHANGED <<backlog, accepted, listenPc>>,
           \A k \in Sockets : /\ peer'[k] = "none" <=> peer[k] = "none"
                              /\ threadPc'[k] = "none" <=> threadPc[k] = "none"
    PROVE  Kept' /\ Joined'
<1> USE Pairs
<1>1. \A c \in Conns : UnderWay(c)' <=> UnderWay(c)
  BY DEF UnderWay, Among
<1>2. Kept'
  BY <1>1 DEF Kept
<1>3. \A l \in Listeners : listenPc[l] = "pair" => accepted[l] \in Conns
  BY DEF Accepted
<1>4. Joined'
  <2>1. \A k \in Sockets : Partner(k)' = Partner(k)
    BY DEF Partner
  <2>2. QED
    BY <1>3, <2>1 DEF Joined
<1>5. QED
  BY <1>2, <1>4

\* A client that connects is put into the backlog of its redirection.
LEMMA ClientConnectsTakers ==
    ASSUME TakersInv, NEW c \in Conns, ClientConnects(c)
    PROVE  Kept' /\ Joined' /\ Drained'
<1> USE Pairs DEF TakersInv
<1> DEFINE v == Via[c]
           w == backlog[v]
           k == <<c, "client">>
<1>1. v \in Listeners /\ w \in Seq(Conns)
  BY TcpAssumption DEF Inv, Types, TypeOK
<1>2. /\ backlog' = [backlog EXCEPT ![v] = Append(w, c)]
      /\ peer' = [peer EXCEPT ![k] = "open"]
      /\ peer[k] = "none"
      /\ UNCHANGED <<accepted, listenPc, threadPc, wire, buffer>>
  BY DEF ClientConnects, threadVars
<1>3. \A l \in Listeners : backlog'[l] = IF l = v THEN Append(w, c) ELSE backlog[l]
  BY <1>1, <1>2 DEF Inv, Types, TypeOK
<1>4. /\ k \in Sockets
      /\ peer'[k] = "open"
      /\ \A j \in Sockets : j # k => peer'[j] = peer[j]
  BY <1>2 DEF Inv, Types, TypeOK
<1>5. Among(c, Append(w, c)) /\ \A x : Among(x, w) => Among(x, Append(w, c))
  BY <1>1, AmongAppended
<1>6. Fresh(c) /\ threadPc[k] = "none"
  BY <1>2 DEF Inv, Stages, Unconnected, Fresh, Sides
<1>7. \A d \in Conns : Via[d] \in Listeners
  BY TcpAssumption
<1> HIDE DEF k, w
<1>8. Kept'
  <2> SUFFICES ASSUME NEW d \in Conns, peer'[<<d, "client">>] # "none"
               PROVE  UnderWay(d)' \/ \A s \in Sides : threadPc'[<<d, s>>] # "none"
    BY DEF Kept
  <2>1. CASE d = c
    <3>1. Among(c, backlog'[v])
      BY <1>1, <1>3, <1>5
    <3>2. QED
      BY <2>1, <3>1 DEF UnderWay, Among
  <2>2. CASE d # c
    <3>1. peer[<<d, "client">>] # "none"
      BY <1>4, <2>2 DEF k
    <3>2. Among(d, backlog[Via[d]]) => Among(d, backlog'[Via[d]])
      BY <1>3, <1>5, <1>7 DEF w
    <3>3. UnderWay(d) => UnderWay(d)'
      BY <1>2, <3>2 DEF UnderWay, Among
    <3>4. QED
      BY <1>2, <3>1, <3>3 DEF Kept
  <2>3. QED
    BY <2>1, <2>2
<1>9. Joined'
  <2>1. \A j \in Sockets : peer[j] # "none" => peer'[j] # "none"
    BY <1>4
  <2>2. \A l \in Listeners : listenPc[l] = "pair" => accepted[l] \in Conns
    BY DEF Inv, Stages, Accepted
  <2>3. QED
    BY <1>2, <2>1, <2>2 DEF Joined, Partner
<1>10. Drained'
  BY <1>2, <1>4, <1>6 DEF Drained, Busy
<1>11. QED
  BY <1>8, <1>9, <1>10

\* The connection that leaves the backlog is the one the listen thread works on.
LEMMA ListenAcceptTakers ==
    ASSUME TakersInv, NEW l \in Listeners, ListenAccept(l)
    PROVE  Kept' /\ Joined' /\ Drained'
<1> USE Pairs DEF TakersInv
<1> DEFINE w == backlog[l]
           c == Head(w)
<1>1. w \in Seq(Conns) /\ w # <<>> /\ c \in Conns
  BY HeadTailProperties DEF Inv, Types, TypeOK, ListenAccept
<1>2. /\ backlog' = [backlog EXCEPT ![l] = Tail(w)]
      /\ accepted' = [accepted EXCEPT ![l] = c]
      /\ listenPc' = [listenPc EXCEPT ![l] = "connect"]
      /\ listenPc[l] = "accept"
      /\ UNCHANGED <<peer, threadPc, wire, buffer>>
  BY DEF ListenAccept, Listen, peerVars, threadVars
<1>3. \A x : Among(x, w) => x = c \/ Among(x, Tail(w))
  BY <1>1, HeadOrTail
<1> HIDE DEF c
<1>4. /\ \A m \in Listeners : backlog'[m] = IF m = l THEN Tail(w) ELSE backlog[m]
      /\ \A m \in Listeners : accepted'[m] = IF m = l THEN c ELSE accepted[m]
      /\ \A m \in Listeners : listenPc'[m] = IF m = l THEN "connect" ELSE listenPc[m]
  BY <1>2 DEF Inv, Types, TypeOK
<1>5. ASSUME NEW d \in Conns, UnderWay(d)
      PROVE  UnderWay(d)'
  <2>1. Via[d] \in Listeners
    BY TcpAssumption
  <2>2. CASE Via[d] # l
    <3>1. /\ backlog'[Via[d]] = backlog[Via[d]]
          /\ accepted'[Via[d]] = accepted[Via[d]]
          /\ listenPc'[Via[d]] = listenPc[Via[d]]
      BY <1>4, <2>1, <2>2
    <3>2. QED
      BY <1>5, <3>1 DEF UnderWay, Among
  <2>3. CASE Via[d] = l
    <3>1. Among(d, w)
      BY <1>2, <1>5, <2>3 DEF UnderWay
    <3>2. d = c \/ Among(d, backlog'[l])
      BY <1>3, <1>4, <3>1
    <3>3. accepted'[l] = c /\ listenPc'[l] # "accept"
      BY <1>4
    <3>4. QED
      BY <2>3, <3>2, <3>3 DEF UnderWay, Among
  <2>4. QED
    BY <2>2, <2>3
<1>6. Kept'
  BY <1>2, <1>5 DEF Kept
<1>7. Joined'
  BY <1>2, <1>4 DEF Joined, Partner
<1>8. Drained'
  BY <1>2 DEF Drained
<1>9. QED
  BY <1>6, <1>7, <1>8

\* connect adds a server that has not sent anything.
LEMMA ListenConnectTakers ==
    ASSUME TakersInv, NEW l \in Listeners, ListenConnect(l)
    PROVE  Kept' /\ Joined' /\ Drained'
<1> USE Pairs DEF TakersInv
<1> DEFINE c == accepted[l]
           k == <<c, "server">>
<1>1. c \in Conns /\ listenPc[l] = "connect" /\ Fresh(c)
  BY DEF ListenConnect, Listen, Inv, Stages, Accepted
<1> HIDE DEF c
<1>2. /\ k \in Sockets
      /\ peer[k] = "none" /\ threadPc[k] = "none" /\ wire[k] = <<>>
  BY <1>1 DEF Fresh, Sides, Drained
<1>3. Accepted
  BY DEF Inv, Stages
<1>4. CASE /\ listenPc' = [listenPc EXCEPT ![l] = "connect"]
           /\ UNCHANGED <<backlog, accepted, peer, wire, threadPc, buffer>>
  <2>1. listenPc' = listenPc
    BY <1>1, <1>4 DEF Inv, Types, TypeOK
  <2>2. Kept' /\ Joined'
    BY <1>3, <1>4, <2>1, QuietTakers
  <2>3. Drained'
    BY <1>4 DEF Drained
  <2>4. QED
    BY <2>2, <2>3
<1>5. CASE /\ listenPc' = [listenPc EXCEPT ![l] = "pair"]
           /\ peer' = [peer EXCEPT ![k] = "open"]
           /\ UNCHANGED <<backlog, accepted, wire, threadPc, buffer>>
  <2>1. \A m \in Listeners : listenPc'[m] = IF m = l THEN "pair" ELSE listenPc[m]
    BY <1>5 DEF Inv, Types, TypeOK
  <2>2. peer'[k] = "open" /\ \A j \in Sockets : j # k => peer'[j] = peer[j]
    BY <1>2, <1>5 DEF Inv, Types, TypeOK
  <2>3. ASSUME NEW d \in Conns, UnderWay(d)
        PROVE  UnderWay(d)'
    <3>1. Via[d] \in Listeners
      BY TcpAssumption
    <3>2. listenPc[Via[d]] # "accept" => listenPc'[Via[d]] # "accept"
      BY <2>1, <3>1
    <3>3. QED
      BY <1>5, <2>3, <3>2 DEF UnderWay, Among
  <2>4. \A d \in Conns : peer'[<<d, "client">>] = peer[<<d, "client">>]
    BY <2>2
  <2>5. Kept'
    BY <1>5, <2>3, <2>4 DEF Kept
  <2>6. \A j \in Sockets : peer[j] # "none" => peer'[j] # "none"
    BY <2>2
  <2>7. \A m \in Listeners : listenPc[m] = "pair" => accepted[m] \in Conns
    BY <1>3 DEF Accepted
  <2>8. Joined'
    <3>1. \A j \in Sockets : threadPc'[j] # "none" => peer'[j] # "none" /\ peer'[Partner(j)] # "none"
      BY <1>5, <2>6 DEF Joined
    <3>2. ASSUME NEW m \in Listeners, listenPc'[m] = "pair"
          PROVE  peer'[<<accepted'[m], "server">>] # "none"
      <4>1. CASE m = l
        BY <1>5, <2>2, <4>1 DEF c
      <4>2. CASE m # l
        BY <1>5, <2>1, <2>6, <2>7, <3>2, <4>2 DEF Joined
      <4>3. QED
        BY <4>1, <4>2
    <3>3. QED
      BY <3>1, <3>2 DEF Joined, Partner
  <2>9. Drained'
    BY <1>2, <1>5, <2>2 DEF Drained, Busy
  <2>10. QED
    BY <2>5, <2>8, <2>9
<1>6. QED
  BY <1>4, <1>5 DEF ListenConnect, Listen, peerVars, threadVars, c

\* The connection the listen thread is done with has both its threads.
LEMMA ListenPairTakers ==
    ASSUME TakersInv, NEW l \in Listeners, ListenPair(l)
    PROVE  Kept' /\ Joined' /\ Drained'
<1> USE Pairs DEF TakersInv
<1> DEFINE c == accepted[l]
<1>1. /\ c \in Conns /\ listenPc[l] = "pair"
      /\ peer[<<c, "client">>] # "none" /\ peer[<<c, "server">>] # "none"
  BY DEF ListenPair, Listen, Inv, Stages, Accepted, Joined
<1>2. /\ listenPc' = [listenPc EXCEPT ![l] = "accept"]
      /\ accepted' = [accepted EXCEPT ![l] = None]
      /\ \A k \in Sockets : k[1] # c => threadPc'[k] = threadPc[k]
      /\ \A k \in Sockets : k[1] = c =>
            \/ threadPc'[k] = "recv"
            \/ threadPc'[k] = "missing" /\ "pthread_create" \in Failing
      /\ UNCHANGED <<backlog, peer, wire, buffer>>
  <2>1. PICK started \in SUBSET Sides :
          /\ "pthread_create" \in Failing \/ started = Sides
          /\ threadPc' = [k \in Sockets |->
                IF k[1] # c THEN threadPc[k]
                ELSE IF k[2] \in started THEN "recv" ELSE "missing"]
    BY DEF ListenPair
  <2>2. QED
    BY <2>1 DEF ListenPair, Listen, peerVars
<1> HIDE DEF c
<1>3. /\ \A m \in Listeners : m # l => accepted'[m] = accepted[m] /\ listenPc'[m] = listenPc[m]
      /\ listenPc'[l] = "accept"
  BY <1>2 DEF Inv, Types, TypeOK
<1>4. \A k \in Sockets : IF k[1] = c THEN threadPc'[k] # "none" ELSE threadPc'[k] = threadPc[k]
  BY <1>2
<1>5. Kept'
  <2> SUFFICES ASSUME NEW d \in Conns, peer[<<d, "client">>] # "none"
               PROVE  UnderWay(d)' \/ \A s \in Sides : threadPc'[<<d, s>>] # "none"
    BY <1>2 DEF Kept
  <2>1. CASE d = c
    BY <1>4, <2>1
  <2>2. CASE d # c
    <3>1. \A s \in Sides : threadPc'[<<d, s>>] = threadPc[<<d, s>>]
      BY <1>4, <2>2
    <3>2. ASSUME UnderWay(d)
          PROVE  UnderWay(d)'
      <4>1. Via[d] \in Listeners
        BY TcpAssumption
      <4>2. accepted[Via[d]] = d => Via[d] # l
        BY <2>2 DEF c
      <4>3. QED
        BY <1>2, <1>3, <3>2, <4>1, <4>2 DEF UnderWay, Among
    <3>3. QED
      BY <3>1, <3>2 DEF Kept
  <2>3. QED
    BY <2>1, <2>2
<1>6. Joined'
  <2>1. ASSUME NEW k \in Sockets, threadPc'[k] # "none"
        PROVE  peer[k] # "none" /\ peer[Partner(k)] # "none"
    <3>1. CASE k[1] = c
      <4>1. /\ k = <<c, k[2]>> /\ k[2] \in Sides
            /\ Partner(k) = <<c, Other(k[2])>> /\ Other(k[2]) \in Sides
        BY <3>1 DEF Partner, Other, Sides
      <4>2. \A s \in Sides : peer[<<c, s>>] # "none"
        BY <1>1 DEF Sides
      <4>3. QED
        BY <4>1, <4>2
    <3>2. CASE k[1] # c
      BY <1>4, <2>1, <3>2 DEF Joined
    <3>3. QED
      BY <3>1, <3>2
  <2>2. \A m \in Listeners : listenPc'[m] = "pair" => peer[<<accepted'[m], "server">>] # "none"
    BY <1>3 DEF Joined
  <2>3. QED
    BY <1>2, <2>1, <2>2 DEF Joined, Partner
<1>7. Drained'
  <2>1. \A k \in Sockets : \/ threadPc'[k] = threadPc[k]
                           \/ threadPc'[k] = "recv"
                           \/ threadPc'[k] = "missing" /\ "pthread_create" \in Failing
    BY <1>2
  <2>2. QED
    BY <1>2, <2>1 DEF Drained, Busy
<1>8. QED
  BY <1>5, <1>6, <1>7

\* The peers send only while they last, and the threads receive only what there
\* is; who resets a connection loses what was on its way.
LEMMA OtherTakers ==
    ASSUME TakersInv,
           \/ \E k \in Sockets : \/ PeerSends(k) \/ PeerStalls(k) \/ PeerEnds(k)
                                 \/ ThreadStep(k)
           \/ MainLeavesTry
    PROVE  Kept' /\ Joined' /\ Drained'
<1> USE Pairs DEF TakersInv, peerVars, listenVars, threadVars
<1>1. Accepted
  BY DEF Inv, Stages
<1>2. ASSUME NEW k \in Sockets, PeerSends(k)
      PROVE  Kept' /\ Joined' /\ Drained'
  <2>1. /\ UNCHANGED <<backlog, accepted, listenPc, peer, threadPc, buffer>>
        /\ peer[k] \in {"open", "stalled"}
        /\ \A j \in Sockets : j # k => wire'[j] = wire[j]
    BY <1>2 DEF PeerSends, Inv, Types, TypeOK
  <2>2. Drained'
    BY <2>1 DEF Drained, Lasting
  <2>3. QED
    BY <1>1, <2>1, <2>2, QuietTakers
<1>3. ASSUME NEW k \in Sockets, PeerEnds(k) \/ PeerStalls(k)
      PROVE  Kept' /\ Joined' /\ Drained'
  <2>1. /\ UNCHANGED <<backlog, accepted, listenPc, threadPc, buffer>>
        /\ peer[k] \in {"open", "stalled"}
        /\ \/ peer[k] = "open" /\ peer' = [peer EXCEPT ![k] = "stalled"] /\ wire' = wire
           \/ peer' = [peer EXCEPT ![k] = "closed"] /\ wire' = wire
           \/ peer' = [peer EXCEPT ![k] = "reset"] /\ wire' = [wire EXCEPT ![k] = <<>>]
    BY <1>3 DEF PeerEnds, PeerStalls
  <2>2. /\ \A j \in Sockets : j # k => peer'[j] = peer[j] /\ wire'[j] = wire[j]
        /\ peer'[k] \in {"stalled", "closed", "reset"}
        /\ peer'[k] = "reset" => wire'[k] = <<>>
    BY <2>1 DEF Inv, Types, TypeOK
  <2>3. ~(threadPc[k] \in Busy /\ buffer[k] = <<>>)
    BY <2>1 DEF Drained, Lasting
  <2>4. Drained'
    BY <2>1, <2>2, <2>3 DEF Drained
  <2>5. \A j \in Sockets : peer'[j] = "none" <=> peer[j] = "none"
    BY <2>1, <2>2
  <2>6. QED
    BY <1>1, <2>1, <2>4, <2>5, QuietTakers
<1>4. ASSUME NEW k \in Sockets, ThreadStep(k)
      PROVE  Kept' /\ Joined' /\ Drained'
  <2>1. PICK to \in {"recv", "fuzz", "send", "sendNull", "stuck"} :
           threadPc' = [threadPc EXCEPT ![k] = to] /\ threadPc[k] # "none"
    BY <1>4 DEF ThreadStep, ThreadRecv, ThreadRecvEnd, ThreadRecvError, ThreadFuzz, ThreadSend,
                ThreadSendNothing, Thread
  <2>2. /\ \A j \in Sockets : threadPc'[j] = "none" <=> threadPc[j] = "none"
        /\ threadPc'[k] = to
        /\ \A j \in Sockets : j # k => threadPc'[j] = threadPc[j]
    BY <2>1 DEF Inv, Types, TypeOK
  <2>3. UNCHANGED <<backlog, accepted, listenPc>>
    BY <1>4 DEF ThreadStep, ThreadRecv, ThreadRecvEnd, ThreadRecvError, ThreadFuzz, ThreadSend,
                ThreadSendNothing
  <2>4. ASSUME ThreadRecv(k)
        PROVE  /\ to = "fuzz" /\ peer' = peer /\ peer[k] # "reset"
               /\ \E w : wire' = [wire EXCEPT ![k] = w]
               /\ buffer'[k] # <<>>
               /\ \A j \in Sockets : j # k => buffer'[j] = buffer[j]
    <3>1. to = "fuzz" /\ peer' = peer /\ peer[k] # "reset"
      BY <2>2, <2>4 DEF ThreadRecv, Thread, Inv, Types, TypeOK
    <3>2. PICK n \in 1..Len(wire[k]) :
            /\ buffer' = [buffer EXCEPT ![k] = SubSeq(wire[k], 1, n)]
            /\ wire' = [wire EXCEPT ![k] = SubSeq(wire[k], n + 1, Len(wire[k]))]
      BY <2>4 DEF ThreadRecv
    <3>3. SubSeq(wire[k], 1, n) # <<>>
      <4>1. wire[k] \in Seq(Chunks)
        BY DEF Inv, Types, TypeOK
      <4>2. Len(SubSeq(wire[k], 1, n)) = n
        BY <4>1, SplitTypes
      <4>3. n # 0
        <5>1. Len(wire[k]) \in Nat
          BY <4>1
        <5>2. n \in 1..Len(wire[k])
          OBVIOUS
        <5>3. QED
          BY ONLY <5>1, <5>2
      <4>4. QED
        BY <4>2, <4>3
    <3>4. buffer'[k] # <<>> /\ \A j \in Sockets : j # k => buffer'[j] = buffer[j]
      BY <3>2, <3>3 DEF Inv, Types, TypeOK
    <3>5. QED
      BY ONLY <3>1, <3>2, <3>4
  <2>5. /\ \A j \in Sockets : j # k => buffer'[j] = buffer[j]
        /\ \/ peer' = peer /\ wire' = wire
           \/ /\ peer' = peer /\ peer[k] # "reset"
              /\ \E w : wire' = [wire EXCEPT ![k] = w]
              /\ to = "fuzz" /\ buffer'[k] # <<>>
           \/ \E t : /\ peer[t] = "closed"
                     /\ peer' = [peer EXCEPT ![t] = "reset"]
                     /\ wire' = [wire EXCEPT ![t] = <<>>]
    <3>1. CASE ThreadRecv(k)
      BY <2>4, <3>1
    <3>2. CASE ThreadRecvEnd(k) \/ ThreadRecvError(k) \/ ThreadFuzz(k) \/ ThreadSendNothing(k)
      BY <3>2 DEF ThreadRecvEnd, ThreadRecvError, ThreadFuzz, ThreadSendNothing, Inv, Types, TypeOK
    <3>3. CASE ThreadSend(k)
      BY <3>3 DEF ThreadSend
    <3>4. QED
      BY <1>4, <3>1, <3>2, <3>3 DEF ThreadStep
  <2>6. \A j \in Sockets : peer'[j] = "none" <=> peer[j] = "none"
    BY <2>5 DEF Inv, Types, TypeOK
  <2>7. Kept' /\ Joined'
    BY <1>1, <2>2, <2>3, <2>6, QuietTakers
  <2>8. peer[k] # "none"
    BY <2>1 DEF Joined
  <2>9. \A j \in Sockets : \/ peer'[j] = peer[j] /\ wire'[j] = wire[j]
                           \/ /\ j = k /\ to = "fuzz" /\ buffer'[k] # <<>>
                              /\ peer'[j] \notin {"none", "reset"}
                           \/ peer'[j] = "reset" /\ wire'[j] = <<>>
    BY <2>5, <2>8 DEF Inv, Types, TypeOK
  <2>10. /\ to \in Busy /\ buffer'[k] = <<>> => peer'[k] \notin Lasting /\ wire'[k] = <<>>
         /\ to = "stuck" => "radamsa" \in Failing \/ buffer'[k] = <<>>
    <3>1. CASE ThreadRecv(k)
      BY <2>4, <3>1
    <3>2. CASE ThreadRecvEnd(k)
      BY <2>2, <3>2 DEF ThreadRecvEnd, Thread, Lasting, Inv, Types, TypeOK
    <3>3. CASE ThreadFuzz(k)
      <4>1. threadPc[k] = "fuzz" /\ UNCHANGED <<peer, wire, buffer>>
        BY <3>3 DEF ThreadFuzz, Thread
      <4>2. to = "stuck" => "radamsa" \in Failing \/ buffer[k] = <<>>
        BY <2>2, <3>3 DEF ThreadFuzz, Thread, Inv, Types, TypeOK
      <4>3. QED
        BY <4>1, <4>2 DEF Drained, Busy
    <3>4. CASE ThreadRecvError(k) \/ ThreadSend(k) \/ ThreadSendNothing(k)
      <4>1. threadPc'[k] = "recv"
        BY <3>4 DEF ThreadRecvError, ThreadSend, ThreadSendNothing, Thread, Inv, Types, TypeOK
      <4>2. QED
        BY <2>2, <4>1 DEF Busy
    <3>5. QED
      BY <1>4, <3>1, <3>2, <3>3, <3>4 DEF ThreadStep
  <2>11. Drained'
    <3> SUFFICES ASSUME NEW j \in Sockets
                 PROVE  /\ peer'[j] \in {"none", "reset"} => wire'[j] = <<>>
                        /\ threadPc'[j] \in Busy /\ buffer'[j] = <<>> =>
                              peer'[j] \notin Lasting /\ wire'[j] = <<>>
                        /\ threadPc'[j] = "stuck" => "radamsa" \in Failing \/ buffer'[j] = <<>>
                        /\ threadPc'[j] = "missing" => "pthread_create" \in Failing
      BY DEF Drained
    <3>1. peer'[j] \in {"none", "reset"} => wire'[j] = <<>>
      BY <2>9 DEF Drained
    <3>2. CASE j = k
      <4>1. threadPc'[j] = to /\ to # "missing"
        BY <2>2, <3>2
      <4>2. /\ threadPc'[j] \in Busy /\ buffer'[j] = <<>> =>
                  peer'[j] \notin Lasting /\ wire'[j] = <<>>
            /\ threadPc'[j] = "stuck" => "radamsa" \in Failing \/ buffer'[j] = <<>>
        BY <2>10, <3>2, <4>1
      <4>3. QED
        BY <3>1, <4>1, <4>2
    <3>3. CASE j # k
      <4>1. threadPc'[j] = threadPc[j] /\ buffer'[j] = buffer[j]
        BY <2>2, <2>5, <3>3
      <4>2. \/ peer'[j] = peer[j] /\ wire'[j] = wire[j]
            \/ peer'[j] = "reset" /\ wire'[j] = <<>>
        BY <2>9, <3>3
      <4>3. QED
        BY <3>1, <4>1, <4>2 DEF Drained, Lasting
    <3>4. QED
      BY <3>2, <3>3
  <2>12. QED
    BY <2>7, <2>11
<1>5. CASE MainLeavesTry
  <2>1. UNCHANGED <<backlog, accepted, listenPc, peer, threadPc, wire, buffer>>
    BY <1>5 DEF MainLeavesTry
  <2>2. Drained'
    BY <2>1 DEF Drained
  <2>3. QED
    BY <1>1, <2>1, <2>2, QuietTakers
<1>6. QED
  BY <1>2, <1>3, <1>4, <1>5

\* TakersInv holds in every reachable state.
LEMMA TakersInvariance == Spec => []TakersInv
<1>1. Init => TakersInv
  <2> SUFFICES ASSUME Init PROVE TakersInv
    OBVIOUS
  <2>1. Kept /\ Joined /\ Drained
    BY Pairs DEF Init, Kept, Joined, Drained, Busy
  <2>2. QED
    BY <2>1, InitInv DEF TakersInv
<1>2. TakersInv /\ [Next]_vars => TakersInv'
  <2> SUFFICES ASSUME TakersInv, [Next]_vars PROVE TakersInv'
    OBVIOUS
  <2>1. Inv'
    BY NextInv DEF TakersInv
  <2>2. ASSUME NEW l \in Listeners, ListenStep(l) PROVE Kept' /\ Joined' /\ Drained'
    BY <2>2, ListenAcceptTakers, ListenConnectTakers, ListenPairTakers DEF ListenStep
  <2>3. ASSUME UNCHANGED vars PROVE Kept' /\ Joined' /\ Drained'
    <3>1. UNCHANGED <<backlog, accepted, listenPc, peer, threadPc, wire, buffer>>
      BY <2>3 DEF vars, listenVars, peerVars, threadVars
    <3>2. Accepted /\ Kept /\ Joined
      BY DEF TakersInv, Inv, Stages
    <3>3. Kept' /\ Joined'
      BY <3>1, <3>2, QuietTakers
    <3>4. Drained'
      BY <3>1 DEF Drained, TakersInv
    <3>5. QED
      BY <3>3, <3>4
  <2>4. Kept' /\ Joined' /\ Drained'
    <3>1. ASSUME NEW c \in Conns, ClientConnects(c) PROVE Kept' /\ Joined' /\ Drained'
      BY <3>1, ClientConnectsTakers
    <3>2. CASE \/ \E k \in Sockets : \/ PeerSends(k) \/ PeerStalls(k) \/ PeerEnds(k)
                                      \/ ThreadStep(k)
               \/ MainLeavesTry
      BY <3>2, OtherTakers
    <3>3. QED
      BY <2>2, <2>3, <3>1, <3>2 DEF Next
  <2>5. QED
    BY <2>1, <2>4 DEF TakersInv
<1>3. QED
  BY <1>1, <1>2, PTL DEF Spec

\* In every reachable state a chunk on its way has somebody who will take it, or
\* the thread that would was not created or does not come back from radamsa: it
\* never waits for a thread that has ended or that repeats an empty message, or for
\* a connection that was forgotten.
THEOREM OnlyFailuresStrand == Spec => []TakenUnlessFailed
<1>1. TakersInv => TakenUnlessFailed
  <2> SUFFICES ASSUME TakersInv, NEW k \in Sockets, wire[k] # <<>>
               PROVE  \/ threadPc[k] = "recv" /\ peer[k] # "reset"
                      \/ /\ threadPc[k] \in {"fuzz", "send", "sendNull"}
                         /\ peer[sendFd[k]] # "none"
                      \/ threadPc[k] = "none" /\ UnderWay(k[1])
                      \/ threadPc[k] = "missing" /\ "pthread_create" \in Failing
                      \/ threadPc[k] = "stuck" /\ "radamsa" \in Failing
    BY DEF TakenUnlessFailed
  <2> USE Pairs DEF TakersInv
  <2>1. peer[k] \notin {"none", "reset"}
    BY DEF Drained
  <2>2. CASE threadPc[k] = "recv"
    BY <2>1, <2>2
  <2>3. CASE threadPc[k] \in {"fuzz", "send", "sendNull"}
    BY <2>3 DEF Inv, Stages, Paired, Joined
  <2>4. CASE threadPc[k] = "none"
    <3>1. peer[<<k[1], "client">>] # "none"
      <4>1. CASE k[2] = "client"
        BY <2>1, <4>1
      <4>2. CASE k[2] = "server"
        BY <2>1, <4>2 DEF Inv, Stages, Unconnected, Fresh
      <4>3. QED
        BY <4>1, <4>2 DEF Sides
    <3>2. UnderWay(k[1]) \/ threadPc[k] # "none"
      BY <3>1 DEF Kept
    <3>3. QED
      BY <2>4, <3>2
  <2>5. CASE threadPc[k] \in {"missing", "stuck"}
    BY <2>5 DEF Drained, Busy
  <2>6. threadPc[k] \in {"none", "missing", "recv", "fuzz", "send", "sendNull", "stuck"}
    BY DEF Inv, Types, TypeOK
  <2>7. QED
    BY <2>2, <2>3, <2>4, <2>5, <2>6
<1>2. QED
  BY <1>1, TakersInvariance, PTL
=============================================================================
