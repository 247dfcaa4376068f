--------------------------- MODULE MCRedirections ---------------------------
(* Small configurations for Redirections: two UDP entities with every choice of *)
(* ports and destinations, a third that is dynamic, and TCP entities;          *)
(* protocols in capitals and keys without a value.                             *)
EXTENDS Redirections

CONSTANTS ipA, ipB, ipC, ipS, ipT, p5, p6

MCAddresses == {ipA, ipB, ipC, ipS, ipT}

Ports == {Absent, Dynamic, p5}

AnEntity(ip, role, protocol, port, destinations, connectTo) ==
    [ip |-> ip, role |-> role, protocol |-> protocol, port |-> port, fuzzed |-> TRUE,
     destinations |-> destinations, connectTo |-> connectTo]

To(ip, port) == [ip |-> ip, port |-> port]

\* Up to two destinations on the other machine, and up to one.
ToB == {<<>>} \cup {<<To(ipB, x)>> : x \in Ports}
       \cup {<<To(ipB, x), To(ipB, y)>> : x \in {Absent, Dynamic, p6}, y \in {Dynamic, p5}}
ToA == {<<>>} \cup {<<To(ipA, x)>> : x \in Ports}

UdpConfigs ==
    {[fuzzerPort |-> f,
      wellFormed |-> TRUE,
      entities   |-> <<AnEntity(ipA, "receiver", protocolA, pa, da, Absent),
                       [AnEntity(ipB, "sender", protocolB, pb, db, Absent) EXCEPT !.fuzzed = fuzzed]>>] :
        f \in {Absent, p6}, protocolA \in {"udp", Absent}, protocolB \in {"udp", Absent},
        fuzzed \in BOOLEAN,
        pa \in Ports, pb \in Ports, da \in ToB, db \in ToA}

\* The same in capitals, with keys that have no value, or without other keys.
OddConfigs ==
    {[fuzzerPort |-> f,
      wellFormed |-> w,
      entities   |-> <<AnEntity(ipA, "receiver", protocolA, pa, <<To(ipB, x)>>, Absent),
                       AnEntity(ipB, "sender", protocolB, pb, <<>>, Absent)>>] :
        f \in {Null, p6}, w \in BOOLEAN,
        protocolA \in {"udp", "UDP", Absent}, protocolB \in {"udp", "UDP"},
        pa \in {Absent, Null, p5}, pb \in {Null, p5}, x \in {Absent, Null, p5}}

\* A server with two clients on dynamic ports, as in test_suites.
StarConfigs ==
    {[fuzzerPort |-> p6,
      wellFormed |-> TRUE,
      entities   |-> <<AnEntity(ipA, "receiver", "udp", p5, back, Absent),
                       AnEntity(ipB, "sender", "udp", pb, <<To(ipA, x)>>, Absent),
                       AnEntity(ipC, "sender", "udp", Dynamic, <<To(ipA, p5)>>, Absent)>>] :
        pb \in Ports, x \in {Absent, p5},
        back \in {<<>>, <<To(ipB, Absent)>>, <<To(ipC, Dynamic), To(ipB, Dynamic)>>}}

\* Two TCP servers and a client of the second.
TcpConfigs ==
    {[fuzzerPort |-> p6,
      wellFormed |-> TRUE,
      entities   |-> <<AnEntity(ipS, "server", protocolS, ps, <<>>, Absent),
                       AnEntity(ipT, "server", protocolT, p5, <<>>, Absent),
                       AnEntity(ipA, "client", protocolA, pa, <<>>, To(x, p5))>> \o udp] :
        protocolS \in {"tcp", "TCP"}, protocolT \in {"tcp", "TCP"}, protocolA \in {"tcp", "TCP"},
        ps \in {Dynamic, Null, p5, p6}, pa \in {Absent, Dynamic}, x \in {ipS, ipT},
        udp \in {<<>>, <<AnEntity(ipB, "sender", "udp", Dynamic, <<To(ipC, p5)>>, Absent)>>}}

MCConfigs == UdpConfigs \cup OddConfigs \cup StarConfigs \cup TcpConfigs
=============================================================================
