----------------------------- MODULE MCTcpRelay -----------------------------
(***************************************************************************)
(* Instances of TcpRelay.tla for TLC.                                      *)
(***************************************************************************)
EXTENDS TcpRelay

\* All the connections go through one redirection.
OneListener == [c \in Conns |-> CHOOSE l \in Listeners : TRUE]

\* One connection is eventful.
Eventful == {CHOOSE c \in Conns : TRUE}
EventfulServer == Eventful \X {"server"}

\* Its client sends several chunks and its server one; of the other connections
\* the clients send one.
Several == [k \in Sockets |->
    IF k[1] \in Eventful THEN (IF k[2] = "client" THEN 2 ELSE 1)
    ELSE IF k[2] = "client" THEN 1 ELSE 0]
=============================================================================
