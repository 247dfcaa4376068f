------------------------- MODULE RedirectionsProofs -------------------------
(***************************************************************************)
(* Proofs about Redirections.tla, for any configurations, any range of     *)
(* ports and whatever ports are drawn: types, that what the commander      *)
(* accepts is parsed, and that what a container redirects arrives at the   *)
(* connection, and the server, it was redirected to.                       *)
(*                                                                         *)
(* The invariant speaks of sets of connections and redirections, and of    *)
(* what is left of each loop: whatever is not done yet is in todo.         *)
(***************************************************************************)
EXTENDS Redirections, SequenceTheorems, FiniteSetTheorems, WellFoundedInduction, TLAPS

Sides == [ip : Addresses, port : KeyPorts, recv : ProxyPorts, send : ProxyPorts]
Connection == [A : Sides, B : Sides]
Redirection == [ip : Addresses, port : KeyPorts, proxyPort : ProxyPorts]

\* The file, and what each loop goes over.
Files ==
    /\ entities \in Seq(Entity)
    /\ connections \in Seq(Connection)
    /\ redirections \in Seq(Redirection)
    /\ pc \in {"normalize", "load"} => connections = <<>>
    /\ pc \in {"normalize", "load", "connections"} => redirections = <<>>
    /\ pc \in {"connections", "redirections"} => todo \in Seq(Entity)
    /\ pc = "udp" => todo \in Seq(Connection)
    /\ pc = "tcp" => todo \in Seq(Redirection)

\* Once the ports are completed those of the udp entities have a value.
Completed == \A e \in ToSet(entities) : IsUdp(e) => e.port # Null

\* Once the file is loaded every entity and every destination has a port, if only an
\* empty one.
Ported ==
    \A e \in ToSet(entities) :
        e.port # Absent /\ \A d \in ToSet(e.destinations) : d.port # Absent

Loaded ==
    /\ pc # "normalize" => Completed
    /\ pc \notin {"normalize", "load", "commander failed"} => Ported
    /\ AcceptedParses

\* The four ports of a connection differ, and no port is drawn twice.
FourPorts(c) ==
    /\ c.A.recv # c.A.send /\ c.A.recv # c.B.recv /\ c.A.recv # c.B.send
    /\ c.A.send # c.B.recv /\ c.A.send # c.B.send /\ c.B.recv # c.B.send

Apart ==
    /\ used \subseteq ProxyPorts
    /\ \A c \in ToSet(connections) : FourPorts(c) /\ ConnectionPorts(c) \subseteq used
    /\ \A c, d \in ToSet(connections) : c # d => ConnectionPorts(c) \cap ConnectionPorts(d) = {}
    /\ \A r \in ToSet(redirections) : r.proxyPort \in used
    /\ \A r, s \in ToSet(redirections) : r.proxyPort = s.proxyPort => r = s

\* A connection is between an entity and one of its destinations, and none of
\* these pairs is forgotten.
HasConnection(a, b) == \E c \in ToSet(connections) : Ends(c) = {a, b}

ComesFrom(c, e) == EndOf(c.A) = EndOf(e) /\ EndOf(c.B) \in ToSet(e.destinations)

Asked ==
    /\ \A c \in ToSet(connections) : \E e \in ToSet(entities) : ComesFrom(c, e)
    /\ pc = "connections" =>
        /\ \A t \in ToSet(todo) : \E e \in ToSet(entities) :
              EndOf(t) = EndOf(e) /\ ToSet(t.destinations) \subseteq ToSet(e.destinations)
        /\ \A e \in ToSet(entities) : \A d \in ToSet(e.destinations) :
              \/ HasConnection(EndOf(e), d)
              \/ \E t \in ToSet(todo) : EndOf(t) = EndOf(e) /\ d \in ToSet(t.destinations)
    /\ pc \notin {"normalize", "load", "commander failed", "connections"} =>
        \A e \in ToSet(entities) : \A d \in ToSet(e.destinations) : HasConnection(EndOf(e), d)

\* No server that is to have a redirection is forgotten.
HasRedirection(s) == \E r \in ToSet(redirections) : EndOf(r) = EndOf(s)

Served ==
    /\ pc = "redirections" =>
        \A s \in ToSet(entities) : Redirects(s) => HasRedirection(s) \/ s \in ToSet(todo)
    /\ pc \notin {"normalize", "load", "commander failed", "connections", "redirections"} =>
        \A s \in ToSet(entities) : Redirects(s) => HasRedirection(s)

\* A connection is built or its ports are free, and its turn will come.
SomeUdp == \E e \in ToSet(entities) : IsUdp(e)

Bound ==
    /\ built \subseteq ToSet(connections)
    /\ udpBound \subseteq ProxyPorts
    /\ pc \notin {"udp", "tcp", "up"} => built = {} /\ udpBound = {}
    /\ pc = "udp" =>
        /\ ToSet(todo) \subseteq ToSet(connections)
        /\ SomeUdp => \A c \in ToSet(connections) :
              c \in built \/ (c \in ToSet(todo) /\ ConnectionPorts(c) \cap udpBound = {})
    /\ pc \in {"tcp", "up"} => (SomeUdp => \A c \in ToSet(connections) : c \in built)

\* A redirection is listened for, or its turn will come.
SomeTcp == \E e \in ToSet(entities) : IsTcp(e)

Heard ==
    /\ listening \subseteq ProxyPorts \ {LauncherPort}
    /\ pc = "tcp" =>
        /\ ToSet(todo) \subseteq ToSet(redirections)
        /\ SomeTcp => \A r \in ToSet(redirections) :
              r.proxyPort \in listening \cup {LauncherPort} \/ r \in ToSet(todo)
    /\ pc = "up" =>
        (SomeTcp => \A r \in ToSet(redirections) : r.proxyPort \in listening \cup {LauncherPort})

Stages == {"normalize", "load", "connections", "redirections", "commander failed",
           "launchers", "launchers failed", "parse", "proxy failed", "udp", "tcp", "up"}

\* The inductive invariant.
Inv == pc \in Stages /\ Files /\ Loaded /\ Apart /\ Asked /\ Served /\ Bound /\ Heard

-----------------------------------------------------------------------------
(* Sequences and what is in them. *)

\* What is in a sequence, by its indices.
LEMMA InSequence ==
    ASSUME NEW S, NEW s \in Seq(S)
    PROVE  /\ \A x \in ToSet(s) : x \in S /\ \E i \in 1..Len(s) : s[i] = x
           /\ \A i \in 1..Len(s) : s[i] \in ToSet(s) /\ s[i] \in S
           /\ Len(s) \in Nat
           /\ s = <<>> => ToSet(s) = {}
<1>1. DOMAIN s = 1..Len(s) /\ Len(s) \in Nat
  BY LenProperties
<1>2. \A i \in 1..Len(s) : s[i] \in S
  BY ElementOfSeq
<1>3. s = <<>> => Len(s) = 0
  BY EmptySeq
<1>4. QED
  BY <1>1, <1>2, <1>3 DEF ToSet

\* Nothing is in the empty sequence.
LEMMA NothingIn == ToSet(<<>>) = {}
BY DEF ToSet

\* The first element and the others.
LEMMA FirstAndRest ==
    ASSUME NEW S, NEW s \in Seq(S), s # <<>>
    PROVE  /\ Tail(s) \in Seq(S) /\ Head(s) \in S /\ Head(s) \in ToSet(s)
           /\ ToSet(Tail(s)) \subseteq ToSet(s)
           /\ \A x \in ToSet(s) : x = Head(s) \/ x \in ToSet(Tail(s))
<1> DEFINE t == Tail(s)
           n == Len(s)
           m == Len(t)
<1>1. t \in Seq(S) /\ Head(s) \in S /\ n \in Nat /\ n # 0 /\ m = n - 1 /\ Head(s) = s[1]
  BY HeadTailProperties, LenProperties, EmptySeq
<1>2. \A i \in 1..m : t[i] = s[i + 1]
  BY HeadTailProperties
<1>3. \A x \in ToSet(s) : \E i \in 1..n : s[i] = x
  BY InSequence
<1>4. \A i \in 1..n : s[i] \in ToSet(s)
  BY InSequence
<1>5. \A x \in ToSet(t) : \E i \in 1..m : t[i] = x
  BY <1>1, InSequence
<1>6. \A i \in 1..m : t[i] \in ToSet(t)
  BY <1>1, InSequence
<1> HIDE DEF t, n, m
<1>7. \A i \in 1..m : i + 1 \in 1..n
  BY ONLY <1>1
<1>8. \A i \in 1..n : i = 1 \/ (i - 1 \in 1..m /\ (i - 1) + 1 = i)
  BY ONLY <1>1
<1>9. 1 \in 1..n
  BY ONLY <1>1
<1>10. \A x \in ToSet(t) : x \in ToSet(s)
  BY ONLY <1>2, <1>4, <1>5, <1>7, Zenon
<1>11. \A x \in ToSet(s) : x = s[1] \/ x \in ToSet(t)
  <2> SUFFICES ASSUME NEW x \in ToSet(s), x # s[1] PROVE x \in ToSet(t)
    OBVIOUS
  <2>1. PICK i \in 1..n : s[i] = x
    BY <1>3
  <2>2. i - 1 \in 1..m /\ (i - 1) + 1 = i
    BY <1>8, <2>1
  <2>3. t[i - 1] = x
    BY ONLY <1>2, <2>1, <2>2, Zenon
  <2>4. QED
    BY ONLY <1>6, <2>2, <2>3, Zenon
<1>12. QED
  BY <1>1, <1>4, <1>9, <1>10, <1>11 DEF t

\* One more element at the end.
LEMMA OneMore ==
    ASSUME NEW S, NEW s \in Seq(S), NEW x \in S
    PROVE  Append(s, x) \in Seq(S) /\ ToSet(Append(s, x)) = ToSet(s) \cup {x}
<1> DEFINE z == Append(s, x)
           n == Len(s)
<1>1. z \in Seq(S) /\ n \in Nat /\ Len(z) = n + 1 /\ z[n + 1] = x /\ \A i \in 1..n : z[i] = s[i]
  BY AppendProperties, LenProperties
<1>2. \A y \in ToSet(s) : \E i \in 1..n : s[i] = y
  BY InSequence
<1>3. \A i \in 1..n : s[i] \in ToSet(s)
  BY InSequence
<1>4. \A y \in ToSet(z) : \E i \in 1..(n + 1) : z[i] = y
  BY <1>1, InSequence
<1>5. \A i \in 1..(n + 1) : z[i] \in ToSet(z)
  BY <1>1, InSequence
<1> HIDE DEF z, n
<1>6. /\ \A i \in 1..n : i \in 1..(n + 1)
      /\ \A i \in 1..(n + 1) : i \in 1..n \/ i = n + 1
      /\ n + 1 \in 1..(n + 1)
  BY ONLY <1>1
<1>7. ASSUME NEW y \in ToSet(z)
      PROVE  y \in ToSet(s) \/ y = x
  <2>1. PICK i \in 1..(n + 1) : z[i] = y
    BY ONLY <1>4, y \in ToSet(z), Zenon
  <2>2. CASE i = n + 1
    BY ONLY <1>1, <2>1, <2>2, Zenon
  <2>3. CASE i \in 1..n
    BY ONLY <1>1, <1>3, <2>1, <2>3, Zenon
  <2>4. QED
    BY ONLY <1>6, <2>2, <2>3, Zenon
<1>8. \A y \in ToSet(s) : y \in ToSet(z)
  BY ONLY <1>1, <1>2, <1>5, <1>6, Zenon
<1>9. x \in ToSet(z)
  BY ONLY <1>1, <1>5, <1>6, Zenon
<1>10. QED
  BY <1>1, <1>7, <1>8, <1>9 DEF z

Before == {pair \in Nat \X Nat : pair[1] < pair[2]}

\* A set of numbers has a smallest one.
LEMMA Smallest ==
    ASSUME NEW S, S \subseteq Nat, S # {}
    PROVE  Min(S) \in S
<1>1. OpToRel(<, Nat) = Before
  BY DEF OpToRel, Before
<1>2. IsWellFoundedOn(Before, Nat)
  BY <1>1, NatLessThanWellFounded
<1>3. PICK x \in S : \A y \in S : ~(<<y, x>> \in Before)
  BY <1>2, WFMin
<1>4. \A y \in S : x <= y
  <2> SUFFICES ASSUME NEW y \in S, ~(x <= y) PROVE FALSE
    OBVIOUS
  <2>1. x \in Nat /\ y \in Nat /\ y < x
    OBVIOUS
  <2>2. <<y, x>> \in Before
    BY <2>1 DEF Before
  <2>3. QED
    BY <1>3, <2>2
<1>5. QED
  BY <1>4 DEF Min

\* An entity whose first destination is done.
LEMMA OneDestinationLess ==
    ASSUME NEW s \in Seq(Entity), s # <<>>, Head(s).destinations # <<>>
    PROVE  LET h == Head(s)
               g == [h EXCEPT !.destinations = Tail(h.destinations)]
               t == [s EXCEPT ![1].destinations = Tail(@)]
           IN  /\ t \in Seq(Entity) /\ t # <<>>
               /\ g \in ToSet(t) /\ EndOf(g) = EndOf(h)
               /\ g.destinations = Tail(h.destinations)
               /\ \A x \in ToSet(t) : x = g \/ x \in ToSet(s)
               /\ \A x \in ToSet(s) : x = h \/ x \in ToSet(t)
<1> DEFINE h == Head(s)
           g == [h EXCEPT !.destinations = Tail(h.destinations)]
           t == [s EXCEPT ![1].destinations = Tail(@)]
           n == Len(s)
<1>1. h \in Entity /\ n \in Nat /\ n # 0 /\ h = s[1]
  BY HeadTailProperties, LenProperties, EmptySeq
<1>2. s \in [1..n -> Entity]
  BY LenProperties
<1>3. h.destinations \in Seq(End) /\ Tail(h.destinations) \in Seq(End)
  BY <1>1, HeadTailProperties DEF Entity
<1>4. g \in Entity /\ EndOf(g) = EndOf(h) /\ g.destinations = Tail(h.destinations)
  BY <1>1, <1>3 DEF Entity, EndOf
<1>5. t = [s EXCEPT ![1] = g]
  BY <1>1
<1> HIDE DEF g, h
<1>6. t \in [1..n -> Entity]
  BY <1>2, <1>4, <1>5
<1>7. 1 \in 1..n
  BY <1>1
<1>8. /\ DOMAIN t = 1..n /\ DOMAIN s = 1..n
      /\ t[1] = g /\ \A i \in 1..n : i # 1 => t[i] = s[i]
  BY <1>2, <1>5, <1>7
<1> HIDE DEF t
<1>9. t \in Seq(Entity) /\ Len(t) = n
  BY <1>1, <1>6, <1>8, SeqDef, LenProperties
<1>10. t # <<>>
  BY <1>1, <1>9, EmptySeq
<1>11. /\ g \in ToSet(t)
       /\ \A x \in ToSet(t) : x = g \/ x \in ToSet(s)
       /\ \A x \in ToSet(s) : x = h \/ x \in ToSet(t)
  BY <1>1, <1>7, <1>8 DEF ToSet
<1>12. QED
  BY <1>4, <1>9, <1>10, <1>11 DEF t, g, h

-----------------------------------------------------------------------------
(* What the three loops of the commander do. *)

\* normalize_udp_ports changes ports only, and leaves no udp entity without one.
LEMMA NormalizeEffect ==
    ASSUME Files, NormalizeUdpPorts
    PROVE  entities' \in Seq(Entity) /\ Completed'
<1> DEFINE Port(e) == IF e.port \in {Absent, Null} THEN Dynamic ELSE e.port
           Targets(d) == {e \in ToSet(entities) : IsUdp(e) /\ e.ip = d.ip}
           Destination(d) ==
               IF d.port = Absent /\ Targets(d) # {}
               THEN [d EXCEPT !.port = Port(CHOOSE e \in Targets(d) : TRUE)] ELSE d
           Normal(e) ==
               IF ~IsUdp(e) THEN e
               ELSE [e EXCEPT !.port = Port(e),
                              !.destinations = [j \in DOMAIN @ |-> Destination(@[j])]]
<1>1. entities' = [i \in DOMAIN entities |-> Normal(entities[i])]
  BY DEF NormalizeUdpPorts
<1>2. \A e \in Entity : Port(e) \in KeyPorts
  BY DEF Entity, KeyPorts
<1>3. \A e \in ToSet(entities) : e \in Entity
  BY InSequence DEF Files
<1>0. \A e : Port(e) # Null
  BY RedirectionsAssumption
<1> HIDE DEF Port
<1>4. ASSUME NEW d \in End PROVE Destination(d) \in End
  <2>1. CASE d.port = Absent /\ Targets(d) # {}
    <3>1. (CHOOSE e \in Targets(d) : TRUE) \in ToSet(entities)
      BY <2>1
    <3>2. Port(CHOOSE e \in Targets(d) : TRUE) \in KeyPorts
      BY <1>2, <1>3, <3>1
    <3> HIDE DEF Targets
    <3>3. [d EXCEPT !.port = Port(CHOOSE e \in Targets(d) : TRUE)] \in End
      BY <3>2 DEF End
    <3>4. QED
      BY <2>1, <3>3
  <2>2. CASE ~(d.port = Absent /\ Targets(d) # {})
    BY <2>2
  <2>3. QED
    BY <2>1, <2>2
<1> HIDE DEF Destination
<1>5. ASSUME NEW e \in Entity
      PROVE  Normal(e) \in Entity /\ (IsUdp(Normal(e)) => Normal(e).port # Null)
  <2> DEFINE ds == [j \in DOMAIN e.destinations |-> Destination(e.destinations[j])]
             n == Len(e.destinations)
  <2>1. e.destinations \in Seq(End)
    BY DEF Entity
  <2>2. n \in Nat /\ DOMAIN e.destinations = 1..n /\ \A j \in 1..n : e.destinations[j] \in End
    BY <2>1, LenProperties, ElementOfSeq
  <2>3. ds \in [1..n -> End]
    BY <1>4, <2>2
  <2>4. ds \in Seq(End)
    BY <2>2, <2>3, SeqDef
  <2>5. CASE IsUdp(e)
    <3>1. Normal(e) = [e EXCEPT !.port = Port(e), !.destinations = ds]
      BY <2>5 DEF Entity
    <3> HIDE DEF ds
    <3>2. /\ [e EXCEPT !.port = Port(e), !.destinations = ds] \in Entity
          /\ [e EXCEPT !.port = Port(e), !.destinations = ds].port = Port(e)
      BY <1>2, <2>4 DEF Entity
    <3>3. QED
      BY <1>0, <3>1, <3>2
  <2>6. CASE ~IsUdp(e)
    BY <2>6
  <2>7. QED
    BY <2>5, <2>6
<1> HIDE DEF Normal
<1>6. Len(entities) \in Nat /\ DOMAIN entities = 1..Len(entities)
      /\ \A i \in 1..Len(entities) : entities[i] \in Entity
  BY LenProperties, ElementOfSeq DEF Files
<1>7. entities' \in [1..Len(entities) -> Entity]
  BY <1>1, <1>5, <1>6
<1>8. \A i \in 1..Len(entities) : IsUdp(entities'[i]) => entities'[i].port # Null
  BY <1>1, <1>5, <1>6
<1>9. entities' \in Seq(Entity) /\ DOMAIN entities' = 1..Len(entities)
  BY <1>6, <1>7, SeqDef
<1>10. QED
  BY <1>8, <1>9 DEF Completed, ToSet

\* Each port that is drawn is new.
LEMMA DrawnPorts ==
    ASSUME NEW taken, NEW p \in RandomPort(taken)
    PROVE  p \in ProxyPorts /\ p \notin taken
BY DEF RandomPort

\* inject_fuzzer_redirections: what one destination of one entity adds.
LEMMA InjectConnectionEffect ==
    ASSUME Files, InjectConnection
    PROVE  LET h == Head(todo)
               d == Head(h.destinations)
           IN  /\ pc = "connections" /\ pc' = "connections"
               /\ todo \in Seq(Entity) /\ todo # <<>>
               /\ h \in Entity /\ h.destinations # <<>> /\ h.destinations \in Seq(End) /\ d \in End
               /\ todo' = [todo EXCEPT ![1].destinations = Tail(@)]
               /\ UNCHANGED <<fuzzerPort, wellFormed, entities, redirections, proxyVars>>
               /\ \/ HasConnection(EndOf(h), d) /\ UNCHANGED <<connections, used>>
                  \/ \E c \in Connection :
                        /\ EndOf(c.A) = EndOf(h) /\ EndOf(c.B) = d
                        /\ FourPorts(c) /\ ConnectionPorts(c) \subseteq ProxyPorts
                        /\ ConnectionPorts(c) \cap used = {}
                        /\ connections' = Append(connections, c)
                        /\ used' = used \cup ConnectionPorts(c)
<1> DEFINE h == Head(todo)
           d == Head(h.destinations)
<1>1. /\ pc = "connections" /\ pc' = "connections"
      /\ todo # <<>> /\ h.destinations # <<>>
      /\ todo' = [todo EXCEPT ![1].destinations = Tail(@)]
      /\ UNCHANGED <<fuzzerPort, wellFormed, entities, redirections, proxyVars>>
  BY DEF InjectConnection, EachDestination, Goto
<1>2. todo \in Seq(Entity)
  BY <1>1 DEF Files
<1>3. h \in Entity
  BY <1>1, <1>2, HeadTailProperties
<1>4. h.destinations \in Seq(End)
  BY <1>3 DEF Entity
<1>5. d \in End
  BY <1>1, <1>4, HeadTailProperties
<1>6. CASE (\E c \in ToSet(connections) : Ends(c) = {EndOf(h), d}) /\ UNCHANGED <<connections, used>>
  BY <1>1, <1>2, <1>3, <1>4, <1>5, <1>6 DEF HasConnection
<1>7. CASE \E ar \in RandomPort(used) : \E as \in RandomPort(used \cup {ar}) :
           \E br \in RandomPort(used \cup {ar, as}) :
           \E bs \in RandomPort(used \cup {ar, as, br}) :
               /\ connections' = Append(connections, [A |-> Side(h, ar, as), B |-> Side(d, br, bs)])
               /\ used' = used \cup {ar, as, br, bs}
  <2>1. PICK ar \in RandomPort(used) : \E as \in RandomPort(used \cup {ar}) :
             \E br \in RandomPort(used \cup {ar, as}) :
             \E bs \in RandomPort(used \cup {ar, as, br}) :
               /\ connections' = Append(connections, [A |-> Side(h, ar, as), B |-> Side(d, br, bs)])
               /\ used' = used \cup {ar, as, br, bs}
    BY <1>7
  <2>2. PICK as \in RandomPort(used \cup {ar}) :
             \E br \in RandomPort(used \cup {ar, as}) :
             \E bs \in RandomPort(used \cup {ar, as, br}) :
               /\ connections' = Append(connections, [A |-> Side(h, ar, as), B |-> Side(d, br, bs)])
               /\ used' = used \cup {ar, as, br, bs}
    BY <2>1
  <2>3. PICK br \in RandomPort(used \cup {ar, as}) :
             \E bs \in RandomPort(used \cup {ar, as, br}) :
               /\ connections' = Append(connections, [A |-> Side(h, ar, as), B |-> Side(d, br, bs)])
               /\ used' = used \cup {ar, as, br, bs}
    BY <2>2
  <2>4. PICK bs \in RandomPort(used \cup {ar, as, br}) :
               /\ connections' = Append(connections, [A |-> Side(h, ar, as), B |-> Side(d, br, bs)])
               /\ used' = used \cup {ar, as, br, bs}
    BY <2>3
  <2>5. /\ ar \in ProxyPorts /\ ar \notin used
        /\ as \in ProxyPorts /\ as \notin used /\ as # ar
        /\ br \in ProxyPorts /\ br \notin used /\ br # ar /\ br # as
        /\ bs \in ProxyPorts /\ bs \notin used /\ bs # ar /\ bs # as /\ bs # br
    BY DrawnPorts
  <2> DEFINE c == [A |-> Side(h, ar, as), B |-> Side(d, br, bs)]
  <2>6. h.ip \in Addresses /\ h.port \in KeyPorts /\ d.ip \in Addresses /\ d.port \in KeyPorts
    BY <1>3, <1>5 DEF Entity, End
  <2>7. c \in Connection
    BY <2>5, <2>6 DEF Connection, Sides, Side
  <2>8. EndOf(d) = d
    BY <1>5 DEF EndOf, End
  <2>9. EndOf(c.A) = EndOf(h) /\ EndOf(c.B) = d
    BY <2>8 DEF EndOf, Side
  <2>10. ConnectionPorts(c) = {ar, as, br, bs} /\ FourPorts(c)
    BY <2>5 DEF ConnectionPorts, FourPorts, Side
  <2>11. connections' = Append(connections, c) /\ used' = used \cup ConnectionPorts(c)
    BY <2>4, <2>10
  <2>12. ConnectionPorts(c) \subseteq ProxyPorts /\ ConnectionPorts(c) \cap used = {}
    BY <2>5, <2>10
  <2> HIDE DEF c
  <2>13. QED
    BY <1>1, <1>2, <1>3, <1>4, <1>5, <2>7, <2>9, <2>10, <2>11, <2>12
<1>8. QED
  BY <1>6, <1>7 DEF InjectConnection

\* inject_tcp_redirections: what one entity adds.
LEMMA InjectRedirectionEffect ==
    ASSUME Files, InjectRedirection
    PROVE  LET s == Head(todo)
           IN  /\ pc = "redirections" /\ pc' = "redirections"
               /\ todo \in Seq(Entity) /\ todo # <<>> /\ todo' = Tail(todo)
               /\ UNCHANGED <<fuzzerPort, wellFormed, entities, connections, proxyVars>>
               /\ \/ (Redirects(s) => HasRedirection(s)) /\ UNCHANGED <<redirections, used>>
                  \/ \E r \in Redirection :
                        /\ EndOf(r) = EndOf(s) /\ r.proxyPort \notin used
                        /\ redirections' = Append(redirections, r)
                        /\ used' = used \cup {r.proxyPort}
<1> DEFINE s == Head(todo)
<1>1. /\ pc = "redirections" /\ pc' = "redirections" /\ todo # <<>> /\ todo' = Tail(todo)
      /\ UNCHANGED <<fuzzerPort, wellFormed, entities, connections, proxyVars>>
  BY DEF InjectRedirection, Goto
<1>2. todo \in Seq(Entity)
  BY <1>1 DEF Files
<1>3. s \in Entity
  BY <1>1, <1>2, HeadTailProperties
<1>4. CASE (~Redirects(s) \/ \E r \in ToSet(redirections) : EndOf(r) = EndOf(s))
           /\ UNCHANGED <<redirections, used>>
  BY <1>1, <1>2, <1>4 DEF HasRedirection
<1>5. CASE \E p \in RandomPort(used) :
               /\ redirections' = Append(redirections, [ip |-> s.ip, port |-> s.port, proxyPort |-> p])
               /\ used' = used \cup {p}
  <2>1. PICK p \in RandomPort(used) :
               /\ redirections' = Append(redirections, [ip |-> s.ip, port |-> s.port, proxyPort |-> p])
               /\ used' = used \cup {p}
    BY <1>5
  <2>2. p \in ProxyPorts /\ p \notin used
    BY DrawnPorts
  <2> DEFINE r == [ip |-> s.ip, port |-> s.port, proxyPort |-> p]
  <2>3. r \in Redirection
    BY <1>3, <2>2 DEF Entity, Redirection
  <2>4. EndOf(r) = EndOf(s) /\ r.proxyPort = p
    BY DEF EndOf
  <2>5. redirections' = Append(redirections, r) /\ used' = used \cup {r.proxyPort}
    BY <2>1
  <2> HIDE DEF r
  <2>6. QED
    BY <1>1, <1>2, <2>2, <2>3, <2>4, <2>5
<1>6. QED
  BY <1>4, <1>5 DEF InjectRedirection

\* The loop over the entities goes on to the next one.
LEMMA NextEntityEffect ==
    ASSUME Files, NextEntity
    PROVE  /\ pc = "connections" /\ pc' = "connections"
           /\ todo \in Seq(Entity) /\ todo # <<>> /\ todo' = Tail(todo)
           /\ Head(todo) \in Entity /\ Head(todo).destinations = <<>>
           /\ UNCHANGED <<fileVars, used, proxyVars>>
<1>1. /\ pc = "connections" /\ pc' = "connections" /\ todo # <<>> /\ todo' = Tail(todo)
      /\ Head(todo).destinations = <<>>
      /\ UNCHANGED <<fileVars, used, proxyVars>>
  BY DEF NextEntity, Goto
<1>2. todo \in Seq(Entity)
  BY <1>1 DEF Files
<1>3. QED
  BY <1>1, <1>2, HeadTailProperties

-----------------------------------------------------------------------------
(* Every step preserves each part of the invariant. *)

\* No loop leaves its sequence.
LEMMA FilesStep ==
    ASSUME pc \in Stages, Files, [Next]_vars
    PROVE  pc' \in Stages /\ Files'
<1> USE DEF fileVars, proxyVars, Goto
<1>1. CASE NormalizeUdpPorts
  <2>1. entities' \in Seq(Entity)
    BY <1>1, NormalizeEffect
  <2>2. pc' = "load" /\ pc = "normalize" /\ UNCHANGED <<connections, redirections>>
    BY <1>1 DEF NormalizeUdpPorts
  <2>3. QED
    BY <2>1, <2>2 DEF Files, Stages
<1>2. CASE LoadConnections
  BY <1>2 DEF LoadConnections, Files, Stages
<1>3. CASE NextEntity
  <2>1. Tail(todo) \in Seq(Entity)
    BY <1>3, NextEntityEffect, FirstAndRest
  <2>2. QED
    BY <1>3, <2>1, NextEntityEffect DEF Files, Stages
<1>4. CASE InjectConnection
  <2> DEFINE t == [todo EXCEPT ![1].destinations = Tail(@)]
  <2>1. t \in Seq(Entity)
    BY <1>4, InjectConnectionEffect, OneDestinationLess
  <2>2. connections' \in Seq(Connection)
    <3>1. connections \in Seq(Connection)
      BY DEF Files
    <3>2. \A c \in Connection : Append(connections, c) \in Seq(Connection)
      BY <3>1, OneMore
    <3>3. connections' = connections \/ \E c \in Connection : connections' = Append(connections, c)
      BY <1>4, InjectConnectionEffect
    <3>4. QED
      BY <3>1, <3>2, <3>3
  <2>3. /\ pc = "connections" /\ pc' = "connections" /\ todo' = t
        /\ UNCHANGED <<entities, redirections>>
    BY <1>4, InjectConnectionEffect
  <2> HIDE DEF t
  <2>4. QED
    BY <2>1, <2>2, <2>3 DEF Files, Stages
<1>5. CASE LoadRedirections
  BY <1>5 DEF LoadRedirections, Files, Stages
<1>6. CASE InjectRedirection
  <2>1. Tail(todo) \in Seq(Entity)
    BY <1>6, InjectRedirectionEffect, FirstAndRest
  <2>2. redirections' \in Seq(Redirection)
    <3>1. redirections \in Seq(Redirection)
      BY DEF Files
    <3>2. \A r \in Redirection : Append(redirections, r) \in Seq(Redirection)
      BY <3>1, OneMore
    <3>3. redirections' = redirections \/ \E r \in Redirection : redirections' = Append(redirections, r)
      BY <1>6, InjectRedirectionEffect
    <3>4. QED
      BY <3>1, <3>2, <3>3
  <2>3. /\ pc = "redirections" /\ pc' = "redirections" /\ todo' = Tail(todo)
        /\ UNCHANGED <<entities, connections>>
    BY <1>6, InjectRedirectionEffect
  <2>4. QED
    BY <2>1, <2>2, <2>3 DEF Files, Stages
<1>7. CASE LaunchContainers \/ StartLaunchers \/ ParseConfig
  <2>1. UNCHANGED fileVars
    BY <1>7 DEF LaunchContainers, StartLaunchers, ParseConfig
  <2>2. CASE LaunchContainers \/ StartLaunchers
    <3>1. pc' \in {"launchers", "launchers failed", "parse"}
      BY <2>2 DEF LaunchContainers, StartLaunchers
    <3>2. QED
      BY <2>1, <3>1 DEF Files, Stages
  <2>3. CASE ParseConfig
    <3>1. pc' = "proxy failed" \/ (pc' = "udp" /\ (todo' = connections \/ todo' = <<>>))
      BY <2>3 DEF ParseConfig
    <3>2. pc' = "udp" => todo' \in Seq(Connection)
      <4>1. connections \in Seq(Connection) /\ <<>> \in Seq(Connection)
        BY DEF Files
      <4>2. QED
        BY <3>1, <4>1
    <3>3. UNCHANGED <<entities, connections, redirections>>
      BY <2>1
    <3>4. pc' \in {"udp", "proxy failed"}
      BY <3>1
    <3>5. QED
      BY <3>2, <3>3, <3>4 DEF Files, Stages
  <2>4. QED
    BY <1>7, <2>2, <2>3
<1>8. CASE BuildConnection
  <2>1. /\ pc = "udp" /\ pc' = "udp" /\ todo # <<>> /\ todo' = Tail(todo)
        /\ UNCHANGED <<entities, connections, redirections>>
    BY <1>8 DEF BuildConnection
  <2>2. Tail(todo) \in Seq(Connection)
    BY <2>1, FirstAndRest DEF Files
  <2>3. QED
    BY <2>1, <2>2 DEF Files, Stages
<1>9. CASE StartTcp \/ ProxyUp
  <2>1. UNCHANGED <<entities, connections, redirections>> /\ pc' \in {"tcp", "up"}
    BY <1>9 DEF StartTcp, ProxyUp
  <2>2. todo' = redirections \/ todo' = <<>> \/ pc' = "up"
    BY <1>9 DEF StartTcp, ProxyUp
  <2>3. redirections \in Seq(Redirection) /\ <<>> \in Seq(Redirection)
    BY DEF Files
  <2>4. pc' = "tcp" => todo' \in Seq(Redirection)
    BY <2>2, <2>3
  <2>5. QED
    BY <2>1, <2>4 DEF Files, Stages
<1>10. CASE ListenRedirection
  <2>1. /\ pc = "tcp" /\ pc' = "tcp" /\ todo # <<>> /\ todo' = Tail(todo)
        /\ UNCHANGED <<entities, connections, redirections>>
    BY <1>10 DEF ListenRedirection
  <2>2. Tail(todo) \in Seq(Redirection)
    BY <2>1, FirstAndRest DEF Files
  <2>3. QED
    BY <2>1, <2>2 DEF Files, Stages
<1>11. CASE UNCHANGED vars
  <2>1. UNCHANGED <<pc, entities, connections, redirections, todo>>
    BY <1>11 DEF vars
  <2>2. QED
    BY <2>1 DEF Files
<1>12. QED
  BY <1>1, <1>2, <1>3, <1>4, <1>5, <1>6, <1>7, <1>8, <1>9, <1>10, <1>11 DEF Next

\* What a step does to the file and to pc: the entities are changed once, the
\* connections and the redirections each in their own loop.
LEMMA Frame ==
    ASSUME Files, [Next]_vars
    PROVE  \/ NormalizeUdpPorts
           \/ LoadConnections
           \/ NextEntity
           \/ InjectConnection
           \/ LoadRedirections
           \/ InjectRedirection
           \/ /\ UNCHANGED <<fileVars, used>>
              /\ \/ UNCHANGED <<pc, todo>>
                 \/ /\ pc' \notin {"normalize", "load", "commander failed", "connections", "redirections"}
                    /\ \/ pc \notin {"normalize", "load", "commander failed", "connections", "redirections"}
                       \/ pc = "redirections" /\ todo = <<>>
<1> USE DEF Goto
<1>1. CASE LaunchContainers \/ StartLaunchers \/ ParseConfig
  BY <1>1 DEF LaunchContainers, StartLaunchers, ParseConfig
<1>2. CASE BuildConnection \/ StartTcp \/ ListenRedirection \/ ProxyUp
  BY <1>2 DEF BuildConnection, StartTcp, ListenRedirection, ProxyUp, fileVars
<1>3. CASE UNCHANGED vars
  BY <1>3 DEF vars
<1>4. QED
  BY <1>1, <1>2, <1>3 DEF Next

\* What has been loaded has its ports.
LEMMA LoadedStep ==
    ASSUME Files, Loaded, [Next]_vars
    PROVE  Loaded'
<1> USE DEF fileVars, proxyVars, Goto, Loaded, AcceptedParses
<1>1. CASE NormalizeUdpPorts
  BY <1>1, NormalizeEffect DEF NormalizeUdpPorts
<1>2. CASE LoadConnections
  <2>1. UNCHANGED entities /\ pc = "load"
    BY <1>2 DEF LoadConnections
  <2>2. pc' = "commander failed" \/ (pc' = "connections" /\ Ported)
    BY <1>2 DEF LoadConnections, Ported
  <2>3. QED
    BY <2>1, <2>2 DEF Ported, Completed
<1>3. ASSUME UNCHANGED entities, pc \notin {"normalize", "load", "commander failed"},
             pc' \notin {"launchers failed", "proxy failed"}
      PROVE  Loaded'
  BY <1>3 DEF Ported, Completed
<1>4. CASE NextEntity \/ InjectConnection \/ LoadRedirections \/ InjectRedirection \/ LaunchContainers
  BY <1>3, <1>4, NextEntityEffect, InjectConnectionEffect, InjectRedirectionEffect
     DEF LoadRedirections, LaunchContainers
<1>5. CASE BuildConnection \/ StartTcp \/ ListenRedirection \/ ProxyUp
  BY <1>3, <1>5 DEF BuildConnection, StartTcp, ListenRedirection, ProxyUp
<1>6. CASE StartLaunchers \/ ParseConfig
  <2>1. UNCHANGED <<entities, wellFormed, fuzzerPort>> /\ Ported /\ Completed
    BY <1>6 DEF StartLaunchers, ParseConfig
  <2>2. Unparsable => \/ ~wellFormed
                      \/ fuzzerPort \in {Absent, Null}
                      \/ \E e \in ToSet(entities) :
                          \/ ~IsUdp(e) /\ e.port = Null
                          \/ \E d \in ToSet(e.destinations) : d.port = Null
    BY <2>1 DEF Unparsable, Ported, Completed
  <2>3. pc' \in {"launchers failed", "proxy failed"} => Unparsable
    BY <1>6 DEF StartLaunchers, ParseConfig
  <2>4. QED
    BY <2>1, <2>2, <2>3 DEF Ported, Completed, IsUdp
<1>7. CASE UNCHANGED vars
  BY <1>7 DEF vars, Ported, Completed, IsUdp
<1>8. QED
  BY <1>1, <1>2, <1>4, <1>5, <1>6, <1>7 DEF Next

\* No port is given twice.
LEMMA ApartStep ==
    ASSUME Files, Apart, [Next]_vars
    PROVE  Apart'
<1> USE DEF fileVars, proxyVars, Goto
<1>1. CASE UNCHANGED <<connections, redirections, used>>
  BY <1>1 DEF Apart
<1>2. CASE InjectConnection
  <2>1. CASE UNCHANGED <<connections, used>>
    BY <1>1, <1>2, <2>1, InjectConnectionEffect
  <2>2. ASSUME NEW c \in Connection,
               FourPorts(c), ConnectionPorts(c) \subseteq ProxyPorts, ConnectionPorts(c) \cap used = {},
               connections' = Append(connections, c), used' = used \cup ConnectionPorts(c)
        PROVE  Apart'
    <3>1. ToSet(connections') = ToSet(connections) \cup {c}
      BY <2>2, OneMore DEF Files
    <3>2. redirections' = redirections
      BY <1>2, InjectConnectionEffect
    <3>3. \A d, e \in ToSet(connections') : d # e => ConnectionPorts(d) \cap ConnectionPorts(e) = {}
      <4>1. \A d \in ToSet(connections) : ConnectionPorts(d) \cap ConnectionPorts(c) = {}
        BY <2>2 DEF Apart
      <4>2. QED
        BY <3>1, <4>1 DEF Apart
    <3>4. QED
      BY <2>2, <3>1, <3>2, <3>3 DEF Apart
  <2>3. QED
    BY <1>2, <2>1, <2>2, InjectConnectionEffect
<1>3. CASE LoadRedirections
  <2>1. /\ UNCHANGED <<connections, redirections>> /\ redirections = <<>>
        /\ used' = UNION {ConnectionPorts(c) : c \in ToSet(connections)}
    BY <1>3 DEF LoadRedirections, Files
  <2>2. ToSet(redirections) = {}
    BY <2>1 DEF ToSet
  <2>3. QED
    BY <2>1, <2>2 DEF Apart
<1>4. CASE InjectRedirection
  <2>1. CASE UNCHANGED <<redirections, used>>
    BY <1>1, <1>4, <2>1, InjectRedirectionEffect
  <2>2. ASSUME NEW r \in Redirection, r.proxyPort \notin used,
               redirections' = Append(redirections, r), used' = used \cup {r.proxyPort}
        PROVE  Apart'
    <3>1. ToSet(redirections') = ToSet(redirections) \cup {r}
      BY <2>2, OneMore DEF Files
    <3>2. connections' = connections
      BY <1>4, InjectRedirectionEffect
    <3>3. r.proxyPort \in ProxyPorts
      BY DEF Redirection
    <3>4. QED
      BY <2>2, <3>1, <3>2, <3>3 DEF Apart
  <2>3. QED
    BY <1>4, <2>1, <2>2, InjectRedirectionEffect
<1>5. CASE NormalizeUdpPorts \/ LoadConnections \/ NextEntity
  BY <1>1, <1>5, NextEntityEffect DEF NormalizeUdpPorts, LoadConnections
<1>6. QED
  BY <1>1, <1>2, <1>3, <1>4, <1>5, Frame

\* The pairs of entities and destinations keep their connections, and a pair that
\* is taken from the loop has one.
LEMMA AskedStep ==
    ASSUME Files, Asked, [Next]_vars
    PROVE  Asked'
<1> USE DEF fileVars, proxyVars, Goto
<1>1. ASSUME UNCHANGED <<pc, entities, connections, todo>> PROVE Asked'
  BY <1>1 DEF Asked, HasConnection
<1>2. CASE NormalizeUdpPorts
  <2>1. connections' = <<>> /\ pc' = "load"
    BY <1>2 DEF NormalizeUdpPorts, Files
  <2>2. ToSet(connections') = {}
    BY <2>1, NothingIn
  <2>3. QED
    BY <2>1, <2>2 DEF Asked
<1>3. CASE LoadConnections
  <2>1. /\ UNCHANGED entities /\ connections' = <<>>
        /\ pc' = "commander failed" \/ (pc' = "connections" /\ todo' = entities)
    BY <1>3 DEF LoadConnections, Files
  <2>2. ToSet(connections') = {}
    BY <2>1, NothingIn
  <2>3. QED
    BY <2>1, <2>2 DEF Asked
<1>4. CASE NextEntity
  <2>1. /\ pc = "connections" /\ pc' = "connections" /\ todo' = Tail(todo)
        /\ Head(todo).destinations = <<>>
        /\ UNCHANGED <<entities, connections>>
    BY <1>4, NextEntityEffect
  <2>2. ToSet(todo') \subseteq ToSet(todo)
        /\ \A t \in ToSet(todo) : t = Head(todo) \/ t \in ToSet(todo')
    BY <1>4, <2>1, NextEntityEffect, FirstAndRest
  <2>3. ToSet(Head(todo).destinations) = {}
    BY <2>1, NothingIn
  <2>4. \A a, b : HasConnection(a, b)' <=> HasConnection(a, b)
    BY <2>1 DEF HasConnection
  <2>5. \A e \in ToSet(entities) : \A d \in ToSet(e.destinations) :
           \/ HasConnection(EndOf(e), d)
           \/ \E t \in ToSet(todo') : EndOf(t) = EndOf(e) /\ d \in ToSet(t.destinations)
    BY <2>1, <2>2, <2>3 DEF Asked
  <2>6. QED
    BY <2>1, <2>2, <2>4, <2>5 DEF Asked
<1>5. CASE InjectConnection
  <2> DEFINE h == Head(todo)
             d == Head(h.destinations)
             g == [h EXCEPT !.destinations = Tail(h.destinations)]
  <2>1. /\ pc = "connections" /\ pc' = "connections" /\ UNCHANGED entities
        /\ h \in ToSet(todo)
    BY <1>5, InjectConnectionEffect, FirstAndRest
  <2>2. /\ g \in ToSet(todo') /\ EndOf(g) = EndOf(h) /\ g.destinations = Tail(h.destinations)
        /\ \A t \in ToSet(todo') : t = g \/ t \in ToSet(todo)
        /\ \A t \in ToSet(todo) : t = h \/ t \in ToSet(todo')
    BY <1>5, InjectConnectionEffect, OneDestinationLess
  <2>3. /\ d \in ToSet(h.destinations)
        /\ ToSet(Tail(h.destinations)) \subseteq ToSet(h.destinations)
        /\ \A x \in ToSet(h.destinations) : x = d \/ x \in ToSet(Tail(h.destinations))
    BY <1>5, InjectConnectionEffect, FirstAndRest
  <2>4. PICK f \in ToSet(entities) :
           EndOf(h) = EndOf(f) /\ ToSet(h.destinations) \subseteq ToSet(f.destinations)
    BY <2>1 DEF Asked
  <2>5. \/ HasConnection(EndOf(h), d) /\ ToSet(connections') = ToSet(connections)
        \/ \E c \in Connection :
              /\ EndOf(c.A) = EndOf(h) /\ EndOf(c.B) = d
              /\ ToSet(connections') = ToSet(connections) \cup {c}
    <3>1. connections \in Seq(Connection)
      BY DEF Files
    <3>2. \A c \in Connection : ToSet(Append(connections, c)) = ToSet(connections) \cup {c}
      BY <3>1, OneMore
    <3>3. \/ HasConnection(EndOf(h), d) /\ connections' = connections
          \/ \E c \in Connection :
                EndOf(c.A) = EndOf(h) /\ EndOf(c.B) = d /\ connections' = Append(connections, c)
      BY <1>5, InjectConnectionEffect
    <3>4. QED
      BY <3>2, <3>3
  <2> HIDE DEF h, d, g
  <2>6. \A c \in ToSet(connections') : \E e \in ToSet(entities) : ComesFrom(c, e)
    <3>1. \A c \in ToSet(connections) : \E e \in ToSet(entities) : ComesFrom(c, e)
      BY DEF Asked
    <3>2. \A c : EndOf(c.A) = EndOf(h) /\ EndOf(c.B) = d => ComesFrom(c, f)
      BY <2>3, <2>4 DEF ComesFrom
    <3>3. QED
      BY <2>5, <3>1, <3>2
  <2>7. \A t \in ToSet(todo') : \E e \in ToSet(entities) :
           EndOf(t) = EndOf(e) /\ ToSet(t.destinations) \subseteq ToSet(e.destinations)
    <3>1. \A t \in ToSet(todo) : \E e \in ToSet(entities) :
             EndOf(t) = EndOf(e) /\ ToSet(t.destinations) \subseteq ToSet(e.destinations)
      BY <2>1 DEF Asked
    <3>2. EndOf(g) = EndOf(f) /\ ToSet(g.destinations) \subseteq ToSet(f.destinations)
      BY <2>2, <2>3, <2>4
    <3>3. QED
      BY <2>2, <3>1, <3>2
  <2>8. /\ ToSet(connections) \subseteq ToSet(connections')
        /\ \E c \in ToSet(connections') : Ends(c) = {EndOf(h), d}
    <3>1. \A c : EndOf(c.A) = EndOf(h) /\ EndOf(c.B) = d => Ends(c) = {EndOf(h), d}
      BY DEF Ends
    <3>2. QED
      BY <2>5, <3>1 DEF HasConnection
  <2>9. ASSUME NEW e \in ToSet(entities), NEW x \in ToSet(e.destinations)
        PROVE  \/ HasConnection(EndOf(e), x)'
               \/ \E t \in ToSet(todo') : EndOf(t) = EndOf(e) /\ x \in ToSet(t.destinations)
    <3>1. CASE HasConnection(EndOf(e), x)
      BY <2>8, <3>1 DEF HasConnection
    <3>2. ASSUME NEW t \in ToSet(todo), EndOf(t) = EndOf(e), x \in ToSet(t.destinations)
          PROVE  \/ HasConnection(EndOf(e), x)'
                 \/ \E u \in ToSet(todo') : EndOf(u) = EndOf(e) /\ x \in ToSet(u.destinations)
      <4>1. CASE t # h
        BY <2>2, <3>2, <4>1
      <4>2. CASE t = h /\ x = d
        <5>1. \E c \in ToSet(connections') : Ends(c) = {EndOf(e), x}
          BY <2>8, <3>2, <4>2
        <5>2. QED
          BY <5>1 DEF HasConnection
      <4>3. CASE t = h /\ x \in ToSet(Tail(h.destinations))
        BY <2>2, <3>2, <4>3
      <4>4. QED
        BY <2>3, <3>2, <4>1, <4>2, <4>3
    <3>3. QED
      BY <2>1, <3>1, <3>2 DEF Asked
  <2>10. QED
    BY <2>1, <2>6, <2>7, <2>9 DEF Asked
<1>6. CASE LoadRedirections
  <2>1. /\ pc = "connections" /\ todo = <<>> /\ pc' = "redirections"
        /\ UNCHANGED <<entities, connections>>
    BY <1>6 DEF LoadRedirections
  <2>2. ToSet(todo) = {}
    BY <2>1, NothingIn
  <2>3. QED
    BY <2>1, <2>2 DEF Asked, HasConnection
<1>7. CASE \/ InjectRedirection
           \/ /\ UNCHANGED <<fileVars, used>>
              /\ pc' \notin {"normalize", "load", "commander failed", "connections", "redirections"}
              /\ \/ pc \notin {"normalize", "load", "commander failed", "connections", "redirections"}
                 \/ pc = "redirections" /\ todo = <<>>
  <2>1. /\ UNCHANGED <<entities, connections>>
        /\ pc \notin {"normalize", "load", "commander failed", "connections"}
        /\ pc' \notin {"normalize", "load", "commander failed", "connections"}
    BY <1>7, InjectRedirectionEffect
  <2>2. QED
    BY <2>1 DEF Asked, HasConnection
<1>8. QED
  BY <1>1, <1>2, <1>3, <1>4, <1>5, <1>6, <1>7, Frame

\* The servers keep their redirections, and one that is taken from the loop has one.
LEMMA ServedStep ==
    ASSUME Files, Served, [Next]_vars
    PROVE  Served'
<1> USE DEF fileVars, proxyVars, Goto
<1>1. ASSUME UNCHANGED <<pc, entities, redirections, todo>> PROVE Served'
  BY <1>1 DEF Served, HasRedirection
<1>2. CASE NormalizeUdpPorts \/ LoadConnections \/ NextEntity \/ InjectConnection
  <2>1. pc' \in {"load", "commander failed", "connections"}
    BY <1>2, NextEntityEffect, InjectConnectionEffect DEF NormalizeUdpPorts, LoadConnections
  <2>2. QED
    BY <2>1 DEF Served
<1>3. CASE LoadRedirections
  <2>1. pc' = "redirections" /\ todo' = entities /\ UNCHANGED entities
    BY <1>3 DEF LoadRedirections
  <2>2. QED
    BY <2>1 DEF Served
<1>4. CASE InjectRedirection
  <2> DEFINE h == Head(todo)
  <2>1. pc = "redirections" /\ pc' = "redirections" /\ UNCHANGED entities
    BY <1>4, InjectRedirectionEffect
  <2>2. \A s \in ToSet(todo) : s = h \/ s \in ToSet(todo')
    BY <1>4, InjectRedirectionEffect, FirstAndRest
  <2>3. /\ ToSet(redirections) \subseteq ToSet(redirections')
        /\ Redirects(h) => \E r \in ToSet(redirections') : EndOf(r) = EndOf(h)
    <3>1. redirections \in Seq(Redirection)
      BY DEF Files
    <3>2. \A r \in Redirection : ToSet(Append(redirections, r)) = ToSet(redirections) \cup {r}
      BY <3>1, OneMore
    <3>3. \/ (Redirects(h) => HasRedirection(h)) /\ redirections' = redirections
          \/ \E r \in Redirection : EndOf(r) = EndOf(h) /\ redirections' = Append(redirections, r)
      BY <1>4, InjectRedirectionEffect
    <3>4. QED
      BY <3>2, <3>3 DEF HasRedirection
  <2> HIDE DEF h
  <2>4. QED
    BY <2>1, <2>2, <2>3 DEF Served, HasRedirection
<1>5. CASE /\ UNCHANGED <<fileVars, used>>
           /\ pc' \notin {"normalize", "load", "commander failed", "connections", "redirections"}
           /\ \/ pc \notin {"normalize", "load", "commander failed", "connections", "redirections"}
              \/ pc = "redirections" /\ todo = <<>>
  <2>1. todo = <<>> => ToSet(todo) = {}
    BY NothingIn
  <2>2. QED
    BY <1>5, <2>1 DEF Served, HasRedirection
<1>6. QED
  BY <1>1, <1>2, <1>3, <1>4, <1>5, Frame

\* A connection whose turn comes finds its four ports free, and takes no port of
\* another connection.
LEMMA BoundStep ==
    ASSUME Files, Apart, Bound, [Next]_vars
    PROVE  Bound'
<1> USE DEF fileVars, proxyVars, Goto
<1>1. ASSUME UNCHANGED <<pc, entities, connections, todo, built, udpBound>> PROVE Bound'
  BY <1>1 DEF Bound, SomeUdp
<1>2. ASSUME UNCHANGED <<built, udpBound>>, built = {}, udpBound = {}, pc' \notin {"udp", "tcp", "up"}
      PROVE  Bound'
  BY <1>2 DEF Bound
<1>3. CASE NormalizeUdpPorts \/ LoadConnections \/ NextEntity \/ InjectConnection
  <2>1. /\ pc \notin {"udp", "tcp", "up"} /\ pc' \notin {"udp", "tcp", "up"}
        /\ UNCHANGED <<built, udpBound>>
    BY <1>3, NextEntityEffect, InjectConnectionEffect DEF NormalizeUdpPorts, LoadConnections
  <2>2. QED
    BY <1>2, <2>1 DEF Bound
<1>4. CASE LoadRedirections \/ InjectRedirection \/ LaunchContainers
  <2>1. /\ pc \notin {"udp", "tcp", "up"} /\ pc' \notin {"udp", "tcp", "up"}
        /\ UNCHANGED <<built, udpBound>>
    BY <1>4, InjectRedirectionEffect DEF LoadRedirections, LaunchContainers
  <2>2. QED
    BY <1>2, <2>1 DEF Bound
<1>5. CASE StartLaunchers
  <2>1. /\ pc = "launchers" /\ pc' \in {"launchers failed", "parse"}
        /\ UNCHANGED <<built, udpBound>>
    BY <1>5 DEF StartLaunchers
  <2>2. QED
    BY <1>2, <2>1 DEF Bound
<1>6. CASE ParseConfig
  <2>1. pc = "parse" /\ UNCHANGED <<entities, connections, built, udpBound>>
    BY <1>6 DEF ParseConfig
  <2>2. built = {} /\ udpBound = {}
    BY <2>1 DEF Bound
  <2>3. CASE pc' = "proxy failed"
    BY <1>2, <2>1, <2>2, <2>3
  <2>4. CASE pc' = "udp" /\ todo' = IF SomeUdp THEN connections ELSE <<>>
    <3>1. ToSet(todo') \subseteq ToSet(connections)
      BY <2>4, NothingIn
    <3>2. SomeUdp => ToSet(todo') = ToSet(connections)
      BY <2>4
    <3>3. SomeUdp' <=> SomeUdp
      BY <2>1 DEF SomeUdp
    <3>4. QED
      BY <2>1, <2>2, <2>4, <3>1, <3>2, <3>3 DEF Bound
  <2>5. QED
    BY <1>6, <2>3, <2>4 DEF ParseConfig, SomeUdp
<1>7. CASE BuildConnection
  <2> DEFINE h == Head(todo)
  <2>1. /\ pc = "udp" /\ pc' = "udp" /\ todo # <<>> /\ todo' = Tail(todo)
        /\ UNCHANGED <<entities, connections>>
        /\ udpBound' = udpBound \cup ConnectionPorts(h)
        /\ built' = IF Cardinality(ConnectionPorts(h) \ udpBound) = 4 THEN built \cup {h} ELSE built
    BY <1>7 DEF BuildConnection
  <2>2. /\ h \in ToSet(todo) /\ ToSet(todo') \subseteq ToSet(todo)
        /\ \A c \in ToSet(todo) : c = h \/ c \in ToSet(todo')
    BY <2>1, FirstAndRest DEF Files
  <2>3. h \in ToSet(connections)
    BY <2>1, <2>2 DEF Bound
  <2>4. ConnectionPorts(h) \subseteq ProxyPorts /\ FourPorts(h)
    BY <2>3 DEF Apart
  <2>5. ConnectionPorts(h) \cap udpBound = {} => built' = built \cup {h}
    <3>1. Cardinality(ConnectionPorts(h)) = 4
      <4> DEFINE a == h.A.recv
                 b == h.A.send
                 c == h.B.recv
                 d == h.B.send
      <4>1. IsFiniteSet({}) /\ Cardinality({}) = 0
        BY FS_EmptySet
      <4>2. IsFiniteSet({a}) /\ Cardinality({a}) = 1
        BY FS_Singleton
      <4>3. a # b /\ a # c /\ a # d /\ b # c /\ b # d /\ c # d
        BY <2>4 DEF FourPorts
      <4>4. ConnectionPorts(h) = (({a} \cup {b}) \cup {c}) \cup {d}
        BY DEF ConnectionPorts
      <4> HIDE DEF a, b, c, d
      <4>5. IsFiniteSet({a} \cup {b}) /\ Cardinality({a} \cup {b}) = 2
        BY <4>2, <4>3, FS_AddElement
      <4>6. IsFiniteSet(({a} \cup {b}) \cup {c}) /\ Cardinality(({a} \cup {b}) \cup {c}) = 3
        BY <4>3, <4>5, FS_AddElement
      <4>7. Cardinality((({a} \cup {b}) \cup {c}) \cup {d}) = 4
        BY <4>3, <4>6, FS_AddElement
      <4>8. QED
        BY <4>4, <4>7
    <3>2. ConnectionPorts(h) \cap udpBound = {} => ConnectionPorts(h) \ udpBound = ConnectionPorts(h)
      OBVIOUS
    <3>3. QED
      BY <2>1, <3>1, <3>2
  <2>6. \A c \in ToSet(connections) : c # h => ConnectionPorts(c) \cap ConnectionPorts(h) = {}
    BY <2>3 DEF Apart
  <2>7. built \subseteq built' /\ built' \subseteq built \cup {h}
    BY <2>1
  <2> HIDE DEF h
  <2>8. ASSUME SomeUdp, NEW c \in ToSet(connections)
        PROVE  c \in built' \/ (c \in ToSet(todo') /\ ConnectionPorts(c) \cap udpBound' = {})
    <3>1. c \in built \/ (c \in ToSet(todo) /\ ConnectionPorts(c) \cap udpBound = {})
      BY <2>1, <2>8 DEF Bound
    <3>2. CASE c = h
      BY <2>5, <2>7, <3>1, <3>2
    <3>3. CASE c # h
      BY <2>1, <2>2, <2>6, <2>7, <3>1, <3>3
    <3>4. QED
      BY <3>2, <3>3
  <2>9. SomeUdp' <=> SomeUdp
    BY <2>1 DEF SomeUdp
  <2>10. built' \subseteq ToSet(connections) /\ udpBound' \subseteq ProxyPorts
         /\ ToSet(todo') \subseteq ToSet(connections)
    BY <2>1, <2>2, <2>3, <2>4, <2>7 DEF Bound
  <2>11. QED
    BY <2>1, <2>8, <2>9, <2>10 DEF Bound
<1>8. CASE StartTcp
  <2>1. /\ pc = "udp" /\ pc' = "tcp" /\ todo = <<>>
        /\ UNCHANGED <<entities, connections, built, udpBound>>
    BY <1>8 DEF StartTcp
  <2>2. ToSet(todo) = {}
    BY <2>1, NothingIn
  <2>3. QED
    BY <2>1, <2>2 DEF Bound, SomeUdp
<1>9. CASE ListenRedirection \/ ProxyUp
  <2>1. /\ pc = "tcp" /\ pc' \in {"tcp", "up"}
        /\ UNCHANGED <<entities, connections, built, udpBound>>
    BY <1>9 DEF ListenRedirection, ProxyUp
  <2>2. QED
    BY <2>1 DEF Bound, SomeUdp
<1>10. CASE UNCHANGED vars
  BY <1>1, <1>10 DEF vars
<1>11. QED
  BY <1>3, <1>4, <1>5, <1>6, <1>7, <1>8, <1>9, <1>10 DEF Next

\* A redirection whose turn comes is listened for, unless the launcher does.
LEMMA HeardStep ==
    ASSUME Files, Apart, Heard, [Next]_vars
    PROVE  Heard'
<1> USE DEF fileVars, proxyVars, Goto
<1>1. ASSUME UNCHANGED <<pc, entities, redirections, todo, listening>> PROVE Heard'
  BY <1>1 DEF Heard, SomeTcp
<1>2. ASSUME listening' = listening, pc' \notin {"tcp", "up"} PROVE Heard'
  BY <1>2 DEF Heard
<1>3. CASE NormalizeUdpPorts \/ LoadConnections \/ NextEntity \/ InjectConnection
  BY <1>2, <1>3, NextEntityEffect, InjectConnectionEffect DEF NormalizeUdpPorts, LoadConnections
<1>4. CASE LoadRedirections \/ InjectRedirection \/ LaunchContainers
  BY <1>2, <1>4, InjectRedirectionEffect DEF LoadRedirections, LaunchContainers
<1>5. CASE StartLaunchers \/ ParseConfig \/ BuildConnection
  BY <1>2, <1>5 DEF StartLaunchers, ParseConfig, BuildConnection
<1>6. CASE StartTcp
  <2>1. /\ pc' = "tcp" /\ UNCHANGED <<entities, redirections, listening>>
        /\ todo' = IF SomeTcp THEN redirections ELSE <<>>
    BY <1>6 DEF StartTcp, SomeTcp
  <2>2. ToSet(todo') \subseteq ToSet(redirections) /\ (SomeTcp => ToSet(todo') = ToSet(redirections))
    BY <2>1, NothingIn
  <2>3. SomeTcp' <=> SomeTcp
    BY <2>1 DEF SomeTcp
  <2>4. QED
    BY <2>1, <2>2, <2>3 DEF Heard
<1>7. CASE ListenRedirection
  <2> DEFINE h == Head(todo)
  <2>1. /\ pc = "tcp" /\ pc' = "tcp" /\ todo # <<>> /\ todo' = Tail(todo)
        /\ UNCHANGED <<entities, redirections>>
        /\ listening' = listening \cup ({h.proxyPort} \ {LauncherPort})
    BY <1>7 DEF ListenRedirection
  <2>2. /\ h \in ToSet(todo) /\ ToSet(todo') \subseteq ToSet(todo)
        /\ \A r \in ToSet(todo) : r = h \/ r \in ToSet(todo')
    BY <2>1, FirstAndRest DEF Files
  <2>3. h \in ToSet(redirections)
    BY <2>1, <2>2 DEF Heard
  <2>4. h.proxyPort \in ProxyPorts
    BY <2>3 DEF Apart
  <2>5. SomeTcp' <=> SomeTcp
    BY <2>1 DEF SomeTcp
  <2> HIDE DEF h
  <2>6. ASSUME SomeTcp, NEW r \in ToSet(redirections)
        PROVE  r.proxyPort \in listening' \cup {LauncherPort} \/ r \in ToSet(todo')
    <3>1. r.proxyPort \in listening \cup {LauncherPort} \/ r \in ToSet(todo)
      BY <2>1, <2>6 DEF Heard
    <3>2. QED
      BY <2>1, <2>2, <3>1
  <2>7. QED
    BY <2>1, <2>2, <2>4, <2>5, <2>6 DEF Heard
<1>8. CASE ProxyUp
  <2>1. pc = "tcp" /\ pc' = "up" /\ todo = <<>> /\ UNCHANGED <<entities, redirections, listening>>
    BY <1>8 DEF ProxyUp
  <2>2. ToSet(todo) = {}
    BY <2>1, NothingIn
  <2>3. QED
    BY <2>1, <2>2 DEF Heard, SomeTcp
<1>9. CASE UNCHANGED vars
  BY <1>1, <1>9 DEF vars
<1>10. QED
  BY <1>3, <1>4, <1>5, <1>6, <1>7, <1>8, <1>9 DEF Next

\* At first there is only the file.
LEMMA InitInv == Init => Inv
<1> SUFFICES ASSUME Init PROVE Inv
  OBVIOUS
<1>1. PICK c \in Configs :
          fuzzerPort = c.fuzzerPort /\ wellFormed = c.wellFormed /\ entities = c.entities
  BY DEF Init
<1>2. entities \in Seq(Entity)
  BY <1>1, RedirectionsAssumption
<1>3. /\ pc = "normalize" /\ connections = <<>> /\ redirections = <<>>
      /\ used = {} /\ built = {} /\ udpBound = {} /\ listening = {}
  BY DEF Init
<1>4. ToSet(connections) = {} /\ ToSet(redirections) = {}
  BY <1>3, NothingIn
<1>5. pc \in Stages /\ Files
  BY <1>2, <1>3 DEF Files, Stages
<1>6. Loaded /\ Apart
  BY <1>3, <1>4 DEF Loaded, AcceptedParses, Apart
<1>7. Asked /\ Served
  BY <1>3, <1>4 DEF Asked, Served
<1>8. Bound /\ Heard
  BY <1>3, <1>4 DEF Bound, Heard
<1>9. QED
  BY <1>5, <1>6, <1>7, <1>8 DEF Inv

\* Every step of the pipeline preserves every part of the invariant.
LEMMA InvStep == Inv /\ [Next]_vars => Inv'
BY FilesStep, LoadedStep, ApartStep, AskedStep, ServedStep, BoundStep, HeardStep DEF Inv

\* The invariant holds throughout.
LEMMA Invariance == Spec => []Inv
BY InitInv, InvStep, PTL DEF Spec

-----------------------------------------------------------------------------
(* The rules of the containers. *)

\* The first rule that catches a datagram is the rule of a connection.
LEMMA RouteOfConnection ==
    ASSUME Files, NEW e, NEW ip, NEW q, NEW d \in ToSet(connections),
           Catches(e, d, "A", ip, q) \/ Catches(e, d, "B", ip, q)
    PROVE  \E c \in ToSet(connections) :
              \/ Catches(e, c, "A", ip, q) /\ UdpRoute(e, ip, q) = c.A.recv
              \/ Catches(e, c, "B", ip, q) /\ UdpRoute(e, ip, q) = c.B.recv
<1> DEFINE Caught(c) == Catches(e, c, "A", ip, q) \/ Catches(e, c, "B", ip, q)
           I == {i \in 1..Len(connections) : Caught(connections[i])}
           i == SelectInSeq(connections, Caught)
           c == connections[i]
<1>1. connections \in Seq(Connection)
  BY DEF Files
<1>2. PICK k \in 1..Len(connections) : connections[k] = d
  BY <1>1, InSequence
<1>3. k \in I
  BY <1>2
<1>4. i = Min(I)
  BY <1>3 DEF SelectInSeq
<1>5. I \subseteq Nat
  BY <1>1, InSequence
<1>6. i \in I
  <2> HIDE DEF I, i
  <2>1. QED
    BY <1>3, <1>4, <1>5, Smallest
<1>7. i \in 1..Len(connections) /\ Caught(c)
  BY <1>6
<1>8. i # 0 /\ c \in ToSet(connections)
  <2>1. \A j \in 1..Len(connections) : j # 0 /\ connections[j] \in ToSet(connections)
    BY <1>1, InSequence
  <2> HIDE DEF i
  <2>2. QED
    BY <1>7, <2>1
<1>9. UdpRoute(e, ip, q) =
        IF i = 0 THEN Absent
        ELSE IF Catches(e, connections[i], "A", ip, q) THEN connections[i].A.recv
        ELSE connections[i].B.recv
  BY DEF UdpRoute
<1> HIDE DEF i
<1>10. QED
  BY <1>7, <1>8, <1>9

\* A datagram that a container redirects is caught by the rule of a connection
\* between just these two machines.
LEMMA RedirectedIsCaught ==
    ASSUME Inv, pc = "up", NEW e \in ToSet(entities), NEW d \in ToSet(e.destinations),
           NEW q, Redirected(e, d, q)
    PROVE  \E c \in ToSet(connections) :
              \/ /\ UdpRoute(e, d.ip, q) = c.A.recv
                 /\ c.A.ip = e.ip /\ c.B.ip = d.ip
              \/ /\ UdpRoute(e, d.ip, q) = c.B.recv
                 /\ c.B.ip = e.ip /\ c.A.ip = d.ip
<1>1. PICK c \in ToSet(connections) : Ends(c) = {EndOf(e), d}
  BY DEF Inv, Asked, HasConnection
<1>2. d.port \in {Dynamic, q}
  BY DEF Redirected
<1>3. \/ EndOf(c.A) = EndOf(e) /\ EndOf(c.B) = d
      \/ EndOf(c.B) = EndOf(e) /\ EndOf(c.A) = d
  BY <1>1 DEF Ends
<1>4. \A x : EndOf(x).ip = x.ip /\ EndOf(x).port = x.port
  BY DEF EndOf
<1>5. Catches(e, c, "A", d.ip, q) \/ Catches(e, c, "B", d.ip, q)
  <2>1. CASE EndOf(c.A) = EndOf(e) /\ EndOf(c.B) = d
    <3>1. c.A.ip = e.ip /\ c.A.port = e.port /\ c.B.ip = d.ip /\ c.B.port = d.port
      BY <1>4, <2>1
    <3>2. QED
      BY <1>2, <3>1 DEF Catches, HasRule, Other
  <2>2. CASE EndOf(c.B) = EndOf(e) /\ EndOf(c.A) = d
    <3>1. c.B.ip = e.ip /\ c.B.port = e.port /\ c.A.ip = d.ip /\ c.A.port = d.port
      BY <1>4, <2>2
    <3>2. QED
      BY <1>2, <3>1 DEF Catches, HasRule, Other
  <2>3. QED
    BY <1>3, <2>1, <2>2
<1>6. Files
  BY DEF Inv
<1>7. PICK b \in ToSet(connections) :
        \/ Catches(e, b, "A", d.ip, q) /\ UdpRoute(e, d.ip, q) = b.A.recv
        \/ Catches(e, b, "B", d.ip, q) /\ UdpRoute(e, d.ip, q) = b.B.recv
  BY <1>5, <1>6, RouteOfConnection
<1>8. QED
  BY <1>7 DEF Catches, HasRule, Other

-----------------------------------------------------------------------------
(* The theorems. *)

\* The ports of connections and redirections are among those that were drawn,
\* and only connections are built.
THEOREM RedirectionsTypeCorrect == Spec => []TypeOK
<1>1. Inv => TypeOK
  BY DEF Inv, Apart, Bound, Heard, TypeOK, Stages
<1>2. QED
  BY <1>1, Invariance, PTL

\* What the commander accepts the launchers and the proxy can parse
\* (config_loader.py:20, ConfigurationManager.cpp:9), but for the keys it never asks
\* for, the port of the fuzzer among them, and for an empty port that is not that of
\* a udp entity.
THEOREM AcceptedIsParsed == Spec => []AcceptedParses
<1>1. Inv => AcceptedParses
  BY DEF Inv, Loaded
<1>2. QED
  BY <1>1, Invariance, PTL

\* A datagram that a container redirects arrives at a bound socket of the
\* connection between the two machines, on the side of its sender.
THEOREM RedirectedArrives == Spec => []ReachesItsConnection
<1>1. Inv => ReachesItsConnection
  <2> SUFFICES ASSUME Inv, pc = "up", \E e \in ToSet(entities) : IsUdp(e),
                      NEW e \in ToSet(entities), NEW d \in ToSet(e.destinations),
                      NEW q \in PacketPorts, Redirected(e, d, q)
               PROVE  \E c \in built :
                        \/ UdpRoute(e, d.ip, q) = c.A.recv /\ c.A.ip = e.ip /\ c.B.ip = d.ip
                        \/ UdpRoute(e, d.ip, q) = c.B.recv /\ c.B.ip = e.ip /\ c.A.ip = d.ip
    BY DEF ReachesItsConnection
  <2>1. \A c \in ToSet(connections) : c \in built
    BY DEF Inv, Bound, SomeUdp
  <2>2. QED
    BY <2>1, RedirectedIsCaught
<1>2. QED
  BY <1>1, Invariance, PTL

\* In a consistent file the connection that catches a datagram has the ports of
\* its sender and of its destination.
THEOREM RedirectedKeepsPorts == Spec => []PortsKept
<1>1. Inv => PortsKept
  <2> SUFFICES ASSUME Inv, pc = "up", Consistent,
                      NEW e \in ToSet(entities), NEW d \in ToSet(e.destinations),
                      NEW q \in PacketPorts, Redirected(e, d, q),
                      NEW c \in ToSet(connections)
               PROVE  /\ UdpRoute(e, d.ip, q) = c.A.recv => c.B.port = d.port /\ c.A.port = e.port
                      /\ UdpRoute(e, d.ip, q) = c.B.recv => c.A.port = d.port /\ c.B.port = e.port
    BY DEF PortsKept
  <2> DEFINE Named == {EndOf(f) : f \in ToSet(entities)}
                      \cup UNION {ToSet(f.destinations) : f \in ToSet(entities)}
             route == UdpRoute(e, d.ip, q)
  <2>1. \A x, y \in Named : x.ip = y.ip => x.port = y.port
    BY DEF Consistent
  <2>2. EndOf(e) \in Named /\ d \in Named
    OBVIOUS
  <2>3. EndOf(c.A) \in Named /\ EndOf(c.B) \in Named
    <3>1. PICK f \in ToSet(entities) : ComesFrom(c, f)
      BY DEF Inv, Asked
    <3>2. QED
      BY <3>1 DEF ComesFrom
  <2> HIDE DEF Named, route
  <2>4. /\ c.A.ip = e.ip => c.A.port = e.port
        /\ c.B.ip = e.ip => c.B.port = e.port
        /\ c.A.ip = d.ip => c.A.port = d.port
        /\ c.B.ip = d.ip => c.B.port = d.port
    <3>1. \A x : EndOf(x).ip = x.ip /\ EndOf(x).port = x.port
      BY DEF EndOf
    <3>2. QED
      BY <2>1, <2>2, <2>3, <3>1
  <2>5. PICK b \in ToSet(connections) :
           \/ route = b.A.recv /\ b.A.ip = e.ip /\ b.B.ip = d.ip
           \/ route = b.B.recv /\ b.B.ip = e.ip /\ b.A.ip = d.ip
    BY RedirectedIsCaught DEF route
  <2>6. ASSUME route \in {c.A.recv, c.B.recv} PROVE b = c
    <3>1. route \in ConnectionPorts(b) \cap ConnectionPorts(c)
      BY <2>5, <2>6 DEF ConnectionPorts
    <3>2. QED
      BY <3>1 DEF Inv, Apart
  <2>7. c.A.recv # c.B.recv
    BY DEF Inv, Apart, FourPorts
  <2>8. QED
    BY <2>4, <2>5, <2>6, <2>7 DEF route
<1>2. QED
  BY <1>1, Invariance, PTL

\* With an entity that is "tcp" in these letters, a fuzzed client that connects to a
\* server, in whatever letters, gets to a port where the proxy listens, unless it is
\* the launcher's that was drawn, and which is the redirection of that server only.
THEOREM ClientsConnectThroughProxy == Spec => []ConnectsThroughProxy
<1>1. Inv => ConnectsThroughProxy
  <2> SUFFICES ASSUME Inv, pc = "up", \E x \in ToSet(entities) : IsTcp(x),
                      NEW e \in ToSet(entities), NEW s \in ToSet(entities),
                      IsAnyTcp(e), e.fuzzed, e.role = "client",
                      IsAnyTcp(s), s.role = "server",
                      e.connectTo = [ip |-> s.ip, port |-> s.port]
               PROVE  /\ TcpRoute(e) \in listening \cup {LauncherPort}
                      /\ \A r \in ToSet(redirections) :
                            r.proxyPort = TcpRoute(e) => r.ip = s.ip /\ r.port = s.port
    BY DEF ConnectsThroughProxy
  <2>1. entities \in Seq(Entity) /\ redirections \in Seq(Redirection)
    BY DEF Inv, Files
  <2>2. e \in Entity /\ s \in Entity
    BY <2>1, InSequence
  <2>3. s.port \in PacketPorts
    <3>1. [ip |-> s.ip, port |-> s.port] \in End
      BY <2>2 DEF Entity, End
    <3>2. e.connectTo # Absent
      BY <3>1, RedirectionsAssumption
    <3>3. [ip |-> s.ip, port |-> s.port] \in [ip : Addresses, port : PacketPorts]
      BY <2>2, <3>2 DEF Entity
    <3>4. QED
      BY <3>3
  <2>4. s.port # Dynamic
    BY <2>3, RedirectionsAssumption
  <2>5. PICK r \in ToSet(redirections) : EndOf(r) = EndOf(s)
    BY <2>4 DEF Inv, Served, HasRedirection, Redirects
  <2>6. EndOf(s) = e.connectTo
    BY DEF EndOf
  <2> DEFINE Match(x) == EndOf(x) = e.connectTo
             I == {j \in 1..Len(redirections) : Match(redirections[j])}
             i == SelectInSeq(redirections, Match)
  <2>7. PICK k \in 1..Len(redirections) : redirections[k] = r
    BY <2>1, InSequence
  <2>8. k \in I
    BY <2>5, <2>6, <2>7
  <2>9. i = Min(I)
    BY <2>8 DEF SelectInSeq
  <2>10. I \subseteq Nat
    BY <2>1, InSequence
  <2>11. i \in I
    <3> HIDE DEF I, i
    <3>1. QED
      BY <2>8, <2>9, <2>10, Smallest
  <2>12. i \in 1..Len(redirections) /\ EndOf(redirections[i]) = e.connectTo
    BY <2>11
  <2>13. TcpRoute(e) =
            IF ~HasTcpRules(e) \/ i = 0 THEN Absent ELSE redirections[i].proxyPort
    BY DEF TcpRoute
  <2>14. \A j \in 1..Len(redirections) : j # 0 /\ redirections[j] \in ToSet(redirections)
    BY <2>1, InSequence
  <2> HIDE DEF i
  <2>15. redirections[i] \in ToSet(redirections) /\ TcpRoute(e) = redirections[i].proxyPort
    BY <2>12, <2>13, <2>14 DEF HasTcpRules
  <2>16. TcpRoute(e) \in listening \cup {LauncherPort}
    BY <2>15 DEF Inv, Heard, SomeTcp
  <2>17. ASSUME NEW x \in ToSet(redirections), x.proxyPort = TcpRoute(e)
         PROVE  x.ip = s.ip /\ x.port = s.port
    <3>1. x = redirections[i]
      BY <2>15, <2>17 DEF Inv, Apart
    <3>2. EndOf(x) = EndOf(s)
      BY <2>6, <2>12, <3>1
    <3>3. QED
      BY <3>2 DEF EndOf
  <2>18. QED
    BY <2>16, <2>17
<1>2. QED
  BY <1>1, Invariance, PTL
=============================================================================
