---------------------------- MODULE Redirections ----------------------------
(***************************************************************************)
(* From config.yaml to the sockets of the proxy: the commander completes   *)
(* the ports (commander/config_loader.py), gives every connection its      *)
(* ports at the proxy (commander/redirection_injector.py) and writes the   *)
(* DNAT rules of the containers (commander/docker_build.py); then the      *)
(* launchers and the proxy parse the file (luncher/utils, proxy/lib), and  *)
(* the proxy binds the ports (ProxyBase.cpp, UDPHandler.cpp,               *)
(* TCPHandler.cpp).                                                        *)
(*                                                                         *)
(* These programs share nothing but the file.  What has to fit together    *)
(* is where the containers send a packet, where the proxy listens, and     *)
(* where it sends it on.  A rule matches a packet as iptables does: the    *)
(* first one for its destination wins.                                     *)
(***************************************************************************)
EXTENDS Naturals, SequencesExt

CONSTANTS
    Configs,              \* the configurations: a fuzzer port, whether all is well
                          \* with the keys that are not modelled, and the entities,
                          \* in the order of the file
    Addresses,            \* the addresses in them
    Absent,               \* a key that is not in the file
    Null,                 \* a key without a value
    Dynamic,              \* -1
    PacketPorts,          \* ports a packet may be sent to
    ProxyPorts,           \* 20000..60000
    LauncherPort,         \* LISTEN_PORT of the server launcher, next to the proxy
    SmallestPort          \* bound: of the ports that are only compared with each
                          \* other, the smallest stands for all

\* The ports a key may have, and what the file says of an entity.
KeyPorts == PacketPorts \cup {Absent, Null, Dynamic}

End == [ip : Addresses, port : KeyPorts]

Entity == [ip : Addresses, role : STRING,
           protocol : STRING \cup {Absent}, port : KeyPorts, fuzzed : BOOLEAN,
           destinations : Seq(End),
           connectTo : [ip : Addresses, port : PacketPorts] \cup {Absent}]

ASSUME RedirectionsAssumption ==
    /\ ProxyPorts \subseteq Nat
    /\ Dynamic \notin {Absent, Null} /\ Absent \notin End
    /\ {Absent, Null, Dynamic} \cap PacketPorts = {}
    /\ \A c \in Configs : c.entities \in Seq(Entity)

VARIABLES
    pc,                   \* which program is at work, and how far it has got
    fuzzerPort, entities, \* the file
    wellFormed,           \* its other keys that parse asks for are there, with values
                          \* of their types
    connections,          \* "connections" of the fuzzer
    redirections,         \* "tcp_redirections" of the fuzzer
    todo,                 \* what is left of a loop
    used,                 \* used_ports
    built,                \* the connections whose four sockets are bound
    udpBound,             \* the UDP ports the proxy has bound
    listening             \* the TCP ports it listens on

fileVars  == <<fuzzerPort, wellFormed, entities, connections, redirections>>
proxyVars == <<built, udpBound, listening>>
vars == <<pc, fileVars, todo, used, proxyVars>>

Init ==
    /\ pc = "normalize"
    /\ \E c \in Configs :
        fuzzerPort = c.fuzzerPort /\ wellFormed = c.wellFormed /\ entities = c.entities
    /\ connections = <<>>
    /\ redirections = <<>>
    /\ todo = <<>>
    /\ used = {}
    /\ built = {}
    /\ udpBound = {}
    /\ listening = {}

Goto(from, to) == pc = from /\ pc' = to

\* What normalize_udp_ports and the proxy take for UDP or TCP.
IsUdp(e) == e.protocol = "udp"
IsTcp(e) == e.protocol = "tcp"

\* What the rest of the commander does: in capitals too, and UDP by default.
IsAnyUdp(e) == e.protocol \in {"udp", "UDP", Absent}
IsAnyTcp(e) == e.protocol \in {"tcp", "TCP"}

\* random.randint until the port is new.
RandomPort(taken) ==
    {p \in ProxyPorts \ taken :
        SmallestPort => \/ p = LauncherPort
                        \/ \A q \in ProxyPorts \ (taken \cup {LauncherPort}) : p <= q}

ConnectionPorts(c) == {c.A.recv, c.A.send, c.B.recv, c.B.send}

-----------------------------------------------------------------------------
(* The commander. *)

\* normalize_udp_ports: -1 for an entity without a port, or with an empty one, and
\* for a destination without the key the port of the entity it is.
NormalizeUdpPorts ==
    LET Port(e) == IF e.port \in {Absent, Null} THEN Dynamic ELSE e.port
        Targets(d) == {e \in ToSet(entities) : IsUdp(e) /\ e.ip = d.ip}
        Destination(d) ==
            IF d.port = Absent /\ Targets(d) # {}
            THEN [d EXCEPT !.port = Port(CHOOSE e \in Targets(d) : TRUE)] ELSE d
        Normal(e) ==
            IF ~IsUdp(e) THEN e
            ELSE [e EXCEPT !.port = Port(e),
                           !.destinations = [j \in DOMAIN @ |-> Destination(@[j])]]
    IN  /\ Goto("normalize", "load")
        /\ entities' = [i \in DOMAIN entities |-> Normal(entities[i])]
        /\ UNCHANGED <<fuzzerPort, wellFormed, connections, redirections, todo, used, proxyVars>>

\* Mutated form: a port that is missing is passed over (entity.get).
LoadConnectionsLenient ==
    /\ Goto("load", "connections")
    /\ todo' = entities
    /\ UNCHANGED <<fileVars, used, proxyVars>>

\* inject_fuzzer_redirections needs the key of every port, with or without a value.
LoadConnections ==
    /\ pc = "load"
    /\ IF \E e \in ToSet(entities) :
            e.port = Absent \/ \E d \in ToSet(e.destinations) : d.port = Absent
       THEN pc' = "commander failed" /\ UNCHANGED todo
       ELSE pc' = "connections" /\ todo' = entities
    /\ UNCHANGED <<fileVars, used, proxyVars>>

\* The loop over the entities, and in it the one over the destinations of each.
EachDestination ==
    /\ Goto("connections", "connections")
    /\ todo # <<>>
    /\ Head(todo).destinations # <<>>
    /\ todo' = [todo EXCEPT ![1].destinations = Tail(@)]

NextEntity ==
    /\ Goto("connections", "connections")
    /\ todo # <<>>
    /\ Head(todo).destinations = <<>>
    /\ todo' = Tail(todo)
    /\ UNCHANGED <<fileVars, used, proxyVars>>

EndOf(x) == [ip |-> x.ip, port |-> x.port]

Ends(c) == {EndOf(c.A), EndOf(c.B)}

Side(end, recv, send) == [ip |-> end.ip, port |-> end.port, recv |-> recv, send |-> send]

\* Mutated forms: the ports that were drawn are not remembered; the ports of the
\* two entities are swapped.
InjectConnectionForgets ==
    /\ EachDestination
    /\ LET a == Head(todo)
           b == Head(a.destinations)
       IN  \E p \in RandomPort(used) :
               connections' = Append(connections, [A |-> Side(a, p, p), B |-> Side(b, p, p)])
    /\ UNCHANGED <<fuzzerPort, wellFormed, entities, redirections, used, proxyVars>>

InjectConnectionSwapped ==
    /\ EachDestination
    /\ LET a == Head(todo)
           b == Head(a.destinations)
           n == 4 * Len(connections)
       IN  /\ connections' = Append(connections,
                 [A |-> Side([a EXCEPT !.port = b.port], n + 1, n + 2),
                  B |-> Side([b EXCEPT !.port = a.port], n + 3, n + 4)])
           /\ used' = used \cup (n + 1)..(n + 4)
    /\ UNCHANGED <<fuzzerPort, wellFormed, entities, redirections, proxyVars>>

\* One destination of one entity: a connection with four ports, unless the pair
\* has one already, in this direction or the other.
InjectConnection ==
    /\ EachDestination
    /\ LET a == Head(todo)
           b == Head(a.destinations)
       IN  IF \E c \in ToSet(connections) : Ends(c) = {EndOf(a), b}
           THEN UNCHANGED <<connections, used>>
           ELSE \E ar \in RandomPort(used) : \E as \in RandomPort(used \cup {ar}) :
                \E br \in RandomPort(used \cup {ar, as}) :
                \E bs \in RandomPort(used \cup {ar, as, br}) :
                    /\ connections' = Append(connections,
                                             [A |-> Side(a, ar, as), B |-> Side(b, br, bs)])
                    /\ used' = used \cup {ar, as, br, bs}
    /\ UNCHANGED <<fuzzerPort, wellFormed, entities, redirections, proxyVars>>

\* inject_tcp_redirections starts from the ports of the connections.
LoadRedirections ==
    /\ Goto("connections", "redirections")
    /\ todo = <<>>
    /\ todo' = entities
    /\ used' = UNION {ConnectionPorts(c) : c \in ToSet(connections)}
    /\ UNCHANGED <<fileVars, proxyVars>>

\* A server that is to have a redirection.
Redirects(s) == s.role = "server" /\ IsAnyTcp(s) /\ s.port # Dynamic

\* Mutated form: the port is drawn once for all servers.
InjectRedirectionShares ==
    /\ Goto("redirections", "redirections")
    /\ todo # <<>>
    /\ todo' = Tail(todo)
    /\ LET s == Head(todo) IN
       IF ~Redirects(s)
       THEN UNCHANGED <<redirections, used>>
       ELSE \E p \in IF redirections = <<>> THEN RandomPort(used) ELSE {redirections[1].proxyPort} :
                /\ redirections' = Append(redirections,
                      [ip |-> s.ip, port |-> s.port, proxyPort |-> p])
                /\ used' = used \cup {p}
    /\ UNCHANGED <<fuzzerPort, wellFormed, entities, connections, proxyVars>>

\* One entity: if it is a server, a port of its own, unless it has one.
InjectRedirection ==
    /\ Goto("redirections", "redirections")
    /\ todo # <<>>
    /\ todo' = Tail(todo)
    /\ LET s == Head(todo) IN
       IF ~Redirects(s) \/ \E r \in ToSet(redirections) : EndOf(r) = EndOf(s)
       THEN UNCHANGED <<redirections, used>>
       ELSE \E p \in RandomPort(used) :
                /\ redirections' = Append(redirections,
                      [ip |-> s.ip, port |-> s.port, proxyPort |-> p])
                /\ used' = used \cup {p}
    /\ UNCHANGED <<fuzzerPort, wellFormed, entities, connections, proxyVars>>

\* The file is complete; the containers are built with it and started.
LaunchContainers ==
    /\ Goto("redirections", "launchers")
    /\ todo = <<>>
    /\ UNCHANGED <<fileVars, todo, used, proxyVars>>

\* Mutated form: only the side that asked first gets a rule.
HasRuleOfA(e, c, this) == this = "A" /\ c["A"].ip = e.ip /\ e.port \in {Dynamic, c["A"].port}

\* generate_udp_dnat_rules_for_client writes a rule for this side of a connection
\* into the entrypoint of an entity, the rule of A before the rule of B.
HasRule(e, c, this) ==
    /\ c[this].ip = e.ip
    /\ \/ e.port \in {Dynamic, c[this].port}
       \/ this = "B" /\ c[this].port = Dynamic

Other(this) == IF this = "A" THEN "B" ELSE "A"

\* The rule is for a datagram to port q of ip; without --dport for any port.
Catches(e, c, this, ip, q) ==
    /\ HasRule(e, c, this)
    /\ c[Other(this)].ip = ip
    /\ c[Other(this)].port \in {Dynamic, q}

\* The rules are written for fuzzed entities.
HasUdpRules(e) == e.fuzzed /\ IsAnyUdp(e)
HasTcpRules(e) == e.fuzzed /\ IsAnyTcp(e) /\ e.role # "server"

\* Where a datagram to port q of ip goes: to the proxy, or to ip.
UdpRoute(e, ip, q) ==
    LET Caught(c) == Catches(e, c, "A", ip, q) \/ Catches(e, c, "B", ip, q)
        i == SelectInSeq(connections, Caught)
    IN  IF i = 0 THEN Absent
        ELSE IF Catches(e, connections[i], "A", ip, q) THEN connections[i].A.recv
        ELSE connections[i].B.recv

\* generate_tcp_dnat_rules_for_client: where a connect of the entity goes.
TcpRoute(e) ==
    LET Match(r) == EndOf(r) = e.connectTo
        i == SelectInSeq(redirections, Match)
    IN  IF ~HasTcpRules(e) \/ i = 0 THEN Absent ELSE redirections[i].proxyPort

-----------------------------------------------------------------------------
(* The launchers and the proxy. *)

\* ConfigurationManager::parse, of which launchers and proxy have a copy each,
\* throws, and returns false, at a port that is missing or has no value, the
\* fuzzer's too, and at any other key that is not well formed: those of general and
\* network, ip, role, fuzzed, binary_path, exec_with, and those of connect_to.
Unparsable ==
    \/ ~wellFormed
    \/ fuzzerPort \in {Absent, Null}
    \/ \E e \in ToSet(entities) :
        \/ e.port \in {Absent, Null}
        \/ \E d \in ToSet(e.destinations) : d.port \in {Absent, Null}

\* The server launcher parses the file before it listens and launches the proxy,
\* a client launcher before it connects; what they cannot parse ends them.
StartLaunchers ==
    /\ Goto("launchers", IF Unparsable THEN "launchers failed" ELSE "parse")
    /\ UNCHANGED <<fileVars, todo, used, proxyVars>>

\* The proxy parses the file once more.
ParseConfig ==
    /\ pc = "parse"
    /\ IF Unparsable
       THEN pc' = "proxy failed" /\ UNCHANGED todo
       ELSE /\ pc' = "udp"
            /\ todo' = IF \E e \in ToSet(entities) : IsUdp(e) THEN connections ELSE <<>>
    /\ UNCHANGED <<fileVars, used, proxyVars>>

\* One round of buildFromConnections: a connection is kept when its four sockets
\* could be bound.
BuildConnection ==
    /\ Goto("udp", "udp")
    /\ todo # <<>>
    /\ todo' = Tail(todo)
    /\ LET c == Head(todo) IN
        /\ built' = IF Cardinality(ConnectionPorts(c) \ udpBound) = 4
                    THEN built \cup {c} ELSE built
        /\ udpBound' = udpBound \cup ConnectionPorts(c)
    /\ UNCHANGED <<fileVars, used, listening>>

StartTcp ==
    /\ Goto("udp", "tcp")
    /\ todo = <<>>
    /\ todo' = IF \E e \in ToSet(entities) : IsTcp(e) THEN redirections ELSE <<>>
    /\ UNCHANGED <<fileVars, used, proxyVars>>

\* One round of the constructor of TCPHandler: a port that is taken, by another
\* listen socket or by the launcher's, is passed over.
ListenRedirection ==
    /\ Goto("tcp", "tcp")
    /\ todo # <<>>
    /\ todo' = Tail(todo)
    /\ listening' = listening \cup ({Head(todo).proxyPort} \ {LauncherPort})
    /\ UNCHANGED <<fileVars, used, built, udpBound>>

ProxyUp ==
    /\ Goto("tcp", "up")
    /\ todo = <<>>
    /\ UNCHANGED <<fileVars, todo, used, proxyVars>>

-----------------------------------------------------------------------------
Next ==
    \/ NormalizeUdpPorts
    \/ LoadConnections
    \/ NextEntity
    \/ InjectConnection
    \/ LoadRedirections
    \/ InjectRedirection
    \/ LaunchContainers
    \/ StartLaunchers
    \/ ParseConfig
    \/ BuildConnection
    \/ StartTcp
    \/ ListenRedirection
    \/ ProxyUp

Spec == Init /\ [][Next]_vars

-----------------------------------------------------------------------------
(* Properties. *)

\* Type invariant of the pipeline.
TypeOK ==
    /\ pc \in {"normalize", "load", "connections", "redirections", "commander failed",
               "launchers", "launchers failed", "parse", "proxy failed", "udp", "tcp", "up"}
    /\ used \subseteq ProxyPorts
    /\ \A c \in ToSet(connections) : ConnectionPorts(c) \subseteq used
    /\ \A r \in ToSet(redirections) : r.proxyPort \in used
    /\ built \subseteq ToSet(connections)
    /\ udpBound \subseteq ProxyPorts
    /\ listening \subseteq ProxyPorts \ {LauncherPort}

\* When the launchers or the proxy cannot parse what the commander has accepted, it
\* is for a key that the commander never asks for, among them the port of the
\* fuzzer, or for an empty port that is not that of a udp entity: it completes or
\* refuses all the others.
AcceptedParses ==
    pc \in {"launchers failed", "proxy failed"} =>
        \/ ~wellFormed
        \/ fuzzerPort \in {Absent, Null}
        \/ \E e \in ToSet(entities) :
            \/ ~IsUdp(e) /\ e.port = Null
            \/ \E d \in ToSet(e.destinations) : d.port = Null

\* The datagrams a container sends to the destinations of its entity.
Redirected(e, d, q) ==
    HasUdpRules(e) /\ d \in ToSet(e.destinations) /\ d.port \in {Dynamic, q}

\* Every one of them goes to a socket of the proxy that is bound, of the
\* connection between just these two machines, on the side of its sender; unless
\* no entity says in so many words that it is udp, and the proxy has no relay.
ReachesItsConnection ==
    pc = "up" /\ (\E e \in ToSet(entities) : IsUdp(e)) =>
        \A e \in ToSet(entities) : \A d \in ToSet(e.destinations), q \in PacketPorts :
            Redirected(e, d, q) =>
                \E c \in built :
                    \/ UdpRoute(e, d.ip, q) = c.A.recv /\ c.A.ip = e.ip /\ c.B.ip = d.ip
                    \/ UdpRoute(e, d.ip, q) = c.B.recv /\ c.B.ip = e.ip /\ c.A.ip = d.ip

\* The entities and the destinations give every machine the same port.
Consistent ==
    LET Named == {EndOf(e) : e \in ToSet(entities)}
                 \cup UNION {ToSet(e.destinations) : e \in ToSet(entities)}
    IN  \A x, y \in Named : x.ip = y.ip => x.port = y.port

\* When the file is consistent, the proxy sends a datagram on to the port it was
\* sent to and answers to the port of its entity: the rules of two connections to
\* the same machine do not hide each other.
PortsKept ==
    pc = "up" /\ Consistent =>
        \A e \in ToSet(entities) : \A d \in ToSet(e.destinations), q \in PacketPorts :
            Redirected(e, d, q) =>
                \A c \in ToSet(connections) :
                    /\ UdpRoute(e, d.ip, q) = c.A.recv => c.B.port = d.port /\ c.A.port = e.port
                    /\ UdpRoute(e, d.ip, q) = c.B.recv => c.A.port = d.port /\ c.B.port = e.port

\* A fuzzed client that connects to a server gets to a port where the proxy waits
\* for connections to that server and no other; unless the port that was drawn
\* for it is the launcher's, or no entity says in so many words that it is tcp, and
\* the proxy has no relay.
ConnectsThroughProxy ==
    pc = "up" /\ (\E e \in ToSet(entities) : IsTcp(e)) =>
        \A e, s \in ToSet(entities) :
            /\ IsAnyTcp(e) /\ e.fuzzed /\ e.role = "client"
            /\ IsAnyTcp(s) /\ s.role = "server"
            /\ e.connectTo = [ip |-> s.ip, port |-> s.port]
            => /\ TcpRoute(e) \in listening \cup {LauncherPort}
               /\ \A r \in ToSet(redirections) :
                    r.proxyPort = TcpRoute(e) => r.ip = s.ip /\ r.port = s.port
=============================================================================
