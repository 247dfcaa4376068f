------------------------------ MODULE Launcher ------------------------------
(***************************************************************************)
(* The two launchers together (luncher/server/src/Server.cpp and           *)
(* luncher/client/src/Client.cpp, with ExecutionManager::launchEntity).    *)
(*                                                                         *)
(* The server launcher runs the proxy, accepts the client launchers and    *)
(* starts a handler thread for each; a client launcher learns its entities *)
(* from the IP the server sends it, starts them, and reports the end of    *)
(* each of them with a CRASH; on a CRASH the server restarts the proxy and *)
(* sends a RESTART to every client.                                        *)
(*                                                                         *)
(* A message is one element of a queue (Framing.tla has the bytes).  Where *)
(* two threads send on one socket at a time, which no lock forbids, its    *)
(* messages may run into one another: the reader of such a socket may take *)
(* any message for bytes of no meaning from then on.  The                  *)
(* notification between the handlers and main is the signal of             *)
(* RestartSignal.tla, which Notification.tla implements.  The server's     *)
(* socket of client c is called c, and so is the handler thread that was   *)
(* created for it.                                                         *)
(***************************************************************************)
EXTENDS Naturals, Sequences, FiniteSets

CONSTANTS
    Clients,              \* the client launchers
    Entities,             \* the target applications
    Home,                 \* the client launcher whose IP an entity has
    None,                 \* no descriptor, no process
    Pids,                 \* the process limit of a client launcher
    SocketCap,            \* bound: messages a socket buffer holds
    Failures              \* what may fail: the "proxy" may crash, the "fork" of
                          \* the next one fail, realloc ("list"), "accept",
                          \* pthread_create ("thread"), the forks of clients
                          \* ("child") and their pthread_create ("monitor")

ASSUME LauncherAssumption ==
    /\ Home \in [Entities -> Clients]
    /\ None \notin Clients \cup Entities \cup Pids
    /\ SocketCap \in Nat \ {0}
    /\ Failures \subseteq {"proxy", "fork", "list", "accept", "thread", "child", "monitor"}

VARIABLES
    requested, serving, pending,  \* the signal from the handlers to main
    serverUp,             \* the server launcher has not died
    mainPc,               \* where main is
    targets,              \* what is left of its loop over client_fd_list
    proxies,              \* the proxy processes of the server launcher
    proxyPid,             \* its proxyPid: None for an empty optional
    listenPc,             \* where the listen thread is
    clientFd,             \* its client_fd, whose address the handlers get
    backlog,              \* the connections to accept
    clientList,           \* client_list
    clientFdList,         \* client_fd_list
    handlerPc, handlerFd, \* the handler threads and the socket each serves
    toClient, toServer,   \* the sockets, by client
    mixedToClient,        \* the sockets on which two threads of the server, or
    mixedToServer,        \* two monitors of a launcher, have mixed their messages
    clientPc,             \* where the main thread of each client launcher is
    entityList,           \* its entities
    toLaunch,             \* those its start_entities has still to launch
    processList,          \* its processList
    processes,            \* its child processes, and which have a monitor thread
    opening               \* history: how the dialogue with the client began

signalVars   == <<requested, serving, pending>>
mainVars     == <<mainPc, targets, proxyPid>>
listenVars   == <<listenPc, clientFd, backlog, clientList, clientFdList>>
handlerVars  == <<handlerPc, handlerFd>>
toClientVars == <<toClient, mixedToClient>>
toServerVars == <<toServer, mixedToServer>>
clientVars   == <<clientPc, entityList, toLaunch, processList, opening>>

vars == <<signalVars, serverUp, mainVars, proxies, listenVars, handlerVars,
          toClientVars, toServerVars, clientVars, processes>>

Signal == INSTANCE RestartSignal WITH Posters <- Clients

Own(c) == {e \in Entities : Home[e] = c}

\* Two proxies are enough to see the old one beside the new one.
ProxyPids == {1, 2}

\* What a client launcher is sent, "JUNK" being an IP that was never set and "FREED"
\* one read from memory that was freed; what it receives may also be "MIXED", made of
\* the bytes of two messages.
ServerMessages == {"IP", "START", "RESTART", "JUNK", "FREED"}
Received == ServerMessages \cup {"MIXED"}

Process == [status : {"running", "killed", "dead"}, entity : Entities, monitored : BOOLEAN]
           \cup {None}

\* How the dialogue with a client went: as it should so far, or how it first departed
\* from that.
AsDue == {"nothing", "ip", "started"}
Openings == AsDue \cup {"early", "twice", "junk", "freed", "mixed"}

TypeOK ==
    /\ Signal!SignalTypeOK
    /\ serverUp \in BOOLEAN
    /\ mainPc \in {"init", "launch", "wait", "reap", "send"}
    /\ targets \in Seq(Clients)
    /\ proxies \in [ProxyPids -> {"none", "running", "killed", "dead"}]
    /\ proxyPid \in ProxyPids \cup {None}
    /\ listenPc \in {"off", "accept", "register", "returned"}
    /\ clientFd \in Clients \cup {None}
    /\ backlog \in Seq(Clients)
    /\ clientList \subseteq Clients
    /\ clientFdList \in Seq(Clients)
    /\ handlerPc \in [Clients -> {"none", "read", "ip", "stale", "start", "recv", "post"}]
    /\ handlerFd \in [Clients -> Clients \cup {None}]
    /\ toClient \in [Clients -> Seq(ServerMessages)]
    /\ toServer \in [Clients -> Seq({"CRASH"})]
    /\ mixedToClient \subseteq Clients
    /\ mixedToServer \subseteq Clients
    /\ clientPc \in [Clients -> {"off", "ip", "loop", "gone"}]
    /\ entityList \in [Clients -> SUBSET Entities]
    /\ toLaunch \in [Clients -> SUBSET Entities]
    /\ processList \in [Clients -> SUBSET Pids]
    /\ processes \in [Clients -> [Pids -> Process]]
    /\ opening \in [Clients -> Openings]

Init ==
    /\ Signal!SignalInit
    /\ serverUp = TRUE
    /\ mainPc = "init"
    /\ targets = <<>>
    /\ proxies = [p \in ProxyPids |-> "none"]
    /\ proxyPid = None
    /\ listenPc = "off"
    /\ clientFd = None
    /\ backlog = <<>>
    /\ clientList = {}
    /\ clientFdList = <<>>
    /\ handlerPc = [c \in Clients |-> "none"]
    /\ handlerFd = [c \in Clients |-> None]
    /\ toClient = [c \in Clients |-> <<>>]
    /\ toServer = [c \in Clients |-> <<>>]
    /\ mixedToClient = {}
    /\ mixedToServer = {}
    /\ clientPc = [c \in Clients |-> "off"]
    /\ entityList = [c \in Clients |-> {}]
    /\ toLaunch = [c \in Clients |-> {}]
    /\ processList = [c \in Clients |-> {}]
    /\ processes = [c \in Clients |-> [p \in Pids |-> None]]
    /\ opening = [c \in Clients |-> "nothing"]

\* A thread of the server launcher touches memory that is not its own, or
\* exits: the process may be gone.
ServerDies == serverUp' = FALSE

\* The connection of client c is open: the launcher is there, or one of its
\* processes, which inherited the socket and never reads it.
Connected(c) ==
    \/ clientPc[c] # "gone"
    \/ \E p \in Pids :
          processes[c][p] # None /\ processes[c][p].status \in {"running", "killed"}

\* The threads of the server launcher that are to send on the socket of client c, or
\* are doing it: handlers, and main, which is None here.
Sending(c) ==
    {h \in Clients : handlerFd[h] = c /\ handlerPc[h] \in {"ip", "stale", "start"}}
    \cup {n \in {None} : mainPc = "send" /\ targets # <<>> /\ Head(targets) = c}

\* send_message on the server's socket of client c: it waits for room.  Its length
\* and its bytes are sent apart: those of another sender may come between them.
\* After the end of the connection one message is lost, and the next send, to a
\* connection that was reset, is a SIGPIPE or an exit.
SendToClient(c, m) ==
    \/ /\ Connected(c)
       /\ Len(toClient[c]) < SocketCap
       /\ toClient' = [toClient EXCEPT ![c] = Append(@, m)]
       /\ \/ UNCHANGED mixedToClient
          \/ /\ \E s, t \in Sending(c) : s # t
             /\ mixedToClient' = mixedToClient \cup {c}
       /\ UNCHANGED serverUp
    \/ /\ ~Connected(c)
       /\ UNCHANGED toClientVars
       /\ UNCHANGED serverUp \/ ServerDies

-----------------------------------------------------------------------------
(* The main thread of the server launcher. *)

Main(from, to) ==
    /\ serverUp
    /\ mainPc = from
    /\ mainPc' = to

\* init_server: from here on the launchers that connect are not refused.
MainListen ==
    /\ Main("init", "launch")
    /\ listenPc' = "accept"
    /\ UNCHANGED <<signalVars, serverUp, targets, proxyPid, proxies, clientFd, backlog,
                   clientList, clientFdList, handlerVars, toClientVars, toServerVars, clientVars,
                   processes>>

\* The lowest process number that is free.
FreePid(left) == CHOOSE p \in ProxyPids :
                    left[p] = "none" /\ \A q \in 1..(p - 1) : left[q] # "none"

\* The first proxy, while clients may connect, start and crash already.
MainLaunchProxy ==
    /\ Main("launch", "wait")
    /\ \/ /\ proxyPid' = FreePid(proxies)
          /\ proxies' = [proxies EXCEPT ![FreePid(proxies)] = "running"]
       \/ "fork" \in Failures /\ UNCHANGED <<proxyPid, proxies>>
    /\ UNCHANGED <<signalVars, serverUp, targets, listenVars, handlerVars, toClientVars,
                   toServerVars, clientVars, processes>>

\* Out of the wait: the proxy gets a SIGKILL.  proxyPid.value() throws when the
\* last fork failed, and nobody catches it.
MainKillProxy ==
    /\ Main("wait", "reap")
    /\ Signal!Begin
    /\ IF proxyPid = None
       THEN ServerDies /\ UNCHANGED proxies
       ELSE /\ UNCHANGED serverUp
            /\ proxies' = [proxies EXCEPT ![proxyPid] =
                              IF @ = "running" THEN "killed" ELSE @]
    /\ UNCHANGED <<targets, proxyPid, listenVars, handlerVars, toClientVars,
                   toServerVars, clientVars, processes>>

\* Mutated form: the next proxy is launched without waiting for the old one.
MainRelaunchProxyAtOnce ==
    /\ Main("reap", "send")
    /\ proxyPid' = FreePid(proxies)
    /\ proxies' = [proxies EXCEPT ![FreePid(proxies)] = "running"]
    /\ targets' = clientFdList
    /\ UNCHANGED <<signalVars, serverUp, listenVars, handlerVars, toClientVars,
                   toServerVars, clientVars, processes>>

\* waitpid returns when the proxy is dead; then launchEntity, and the loop over
\* client_fd_list takes its bounds.
MainRelaunchProxy ==
    /\ Main("reap", "send")
    /\ proxies[proxyPid] = "dead"
    /\ LET left == [proxies EXCEPT ![proxyPid] = "none"] IN
       \/ /\ proxyPid' = FreePid(left)
          /\ proxies' = [left EXCEPT ![FreePid(left)] = "running"]
       \/ "fork" \in Failures /\ proxyPid' = None /\ proxies' = left
    /\ targets' = clientFdList
    /\ UNCHANGED <<signalVars, serverUp, listenVars, handlerVars, toClientVars,
                   toServerVars, clientVars, processes>>

\* Mutated form: the clients are sent a START.
MainSendStart ==
    /\ Main("send", "send")
    /\ targets # <<>>
    /\ SendToClient(Head(targets), "START")
    /\ targets' = Tail(targets)
    /\ UNCHANGED <<signalVars, proxyPid, proxies, listenVars, handlerVars, toServerVars,
                   clientVars, processes>>

MainSendRestart ==
    /\ Main("send", "send")
    /\ targets # <<>>
    /\ SendToClient(Head(targets), "RESTART")
    /\ targets' = Tail(targets)
    /\ UNCHANGED <<signalVars, proxyPid, proxies, listenVars, handlerVars, toServerVars,
                   clientVars, processes>>

MainFinish ==
    /\ Main("send", "wait")
    /\ targets = <<>>
    /\ Signal!Finish
    /\ UNCHANGED <<serverUp, targets, proxyPid, proxies, listenVars,
                   handlerVars, toClientVars, toServerVars, clientVars, processes>>

\* The proxy crashes, or the SIGKILL reaches it; waitpid has yet to be called.
ProxyDies(p) ==
    /\ proxies[p] = "killed" \/ ("proxy" \in Failures /\ proxies[p] = "running")
    /\ proxies' = [proxies EXCEPT ![p] = "dead"]
    /\ UNCHANGED <<signalVars, serverUp, mainVars, listenVars, handlerVars,
                   toClientVars, toServerVars, clientVars, processes>>

-----------------------------------------------------------------------------
(* The listen thread of the server launcher. *)

Listen(from, to) ==
    /\ serverUp
    /\ listenPc = from
    /\ listenPc' = to
    /\ UNCHANGED <<signalVars, mainVars, proxies, toClientVars, toServerVars,
                   clientVars, processes>>

ListenAccept ==
    /\ Listen("accept", "register")
    /\ backlog # <<>>
    /\ clientFd' = Head(backlog)
    /\ backlog' = Tail(backlog)
    /\ UNCHANGED <<serverUp, clientList, clientFdList, handlerVars>>

\* accept has already overwritten client_fd when its failure is tested.
ListenAcceptFails ==
    /\ "accept" \in Failures
    /\ Listen("accept", "returned")
    /\ clientFd' = None
    /\ UNCHANGED <<serverUp, backlog, clientList, clientFdList, handlerVars>>

\* addNewClient, push_back, which may move the vector main is iterating over,
\* and pthread_create.  The realloc of addNewClient may move the list under the
\* handlers that search it or have a pointer into it; when it fails the client is
\* not listed.  The new handler gets the address of client_fd, not its value.
ListenRegister ==
    /\ \E moved \in SUBSET {h \in Clients : handlerPc[h] = "ip"} :
          LET left == [h \in Clients |-> IF h \in moved THEN "stale" ELSE handlerPc[h]] IN
          /\ \/ /\ Listen("register", "accept")
                /\ handlerPc' = [left EXCEPT ![clientFd] = "read"]
             \/ /\ "thread" \in Failures
                /\ Listen("register", "returned")
                /\ handlerPc' = left
          /\ \/ clientList' = clientList \cup {clientFd}
             \/ "list" \in Failures /\ moved = {} /\ UNCHANGED clientList
    /\ clientFdList' = Append(clientFdList, clientFd)
    /\ \/ UNCHANGED serverUp
       \/ mainPc = "send" /\ targets # <<>> /\ ServerDies
    /\ UNCHANGED <<clientFd, backlog, handlerFd>>

-----------------------------------------------------------------------------
(* The handler threads of the server launcher. *)

Handler(h, from, to) ==
    /\ serverUp
    /\ handlerPc[h] = from
    /\ handlerPc' = [handlerPc EXCEPT ![h] = to]
    /\ UNCHANGED <<mainVars, proxies, listenVars, clientVars, processes>>

HandlerReadFd(h) ==
    /\ Handler(h, "read", "ip")
    /\ handlerFd' = [handlerFd EXCEPT ![h] = clientFd]
    /\ UNCHANGED <<signalVars, serverUp, toClientVars, toServerVars>>

\* send_client_ip.  A socket that is not in client_list leaves ci without a
\* value: what is sent, if the server survives it, is no IP.  After a move of the
\* list ci may point to what was freed, which may still hold the IP or not.
HandlerSendIp(h) ==
    /\ Handler(h, "ip", "start") \/ Handler(h, "stale", "start")
    /\ \/ /\ handlerFd[h] \in clientList
          /\ SendToClient(handlerFd[h], "IP")
       \/ /\ handlerFd[h] \in Clients \ clientList
          /\ SendToClient(handlerFd[h], "JUNK")
       \/ /\ handlerPc[h] = "stale" /\ handlerFd[h] \in Clients
          /\ SendToClient(handlerFd[h], "FREED")
       \/ /\ handlerPc[h] = "stale" \/ handlerFd[h] \notin clientList
          /\ ServerDies
          /\ UNCHANGED toClientVars
    /\ UNCHANGED <<signalVars, handlerFd, toServerVars>>

HandlerSendStart(h) ==
    /\ Handler(h, "start", "recv")
    /\ SendToClient(handlerFd[h], "START")
    /\ UNCHANGED <<signalVars, handlerFd, toServerVars>>

\* Two handlers that read the same socket share its bytes out between them:
\* either may get a length or a message of no meaning.
SocketShared(h) ==
    \E g \in Clients \ {h} : handlerFd[g] = handlerFd[h]

\* Mutated form: the message is compared with one that has a NUL more.
HandlerRecvIgnored(h) ==
    /\ Handler(h, "recv", "recv")
    /\ toServer[handlerFd[h]] # <<>>
    /\ toServer' = [toServer EXCEPT ![handlerFd[h]] = Tail(@)]
    /\ UNCHANGED <<signalVars, serverUp, handlerFd, toClientVars, mixedToServer>>

\* recv_message and the test for a CRASH.
HandlerRecv(h) ==
    /\ \/ Handler(h, "recv", "post")
       \/ /\ SocketShared(h) \/ handlerFd[h] \in mixedToServer
          /\ Handler(h, "recv", "recv")
    /\ toServer[handlerFd[h]] # <<>>
    /\ toServer' = [toServer EXCEPT ![handlerFd[h]] = Tail(@)]
    /\ UNCHANGED <<signalVars, serverUp, handlerFd, toClientVars, mixedToServer>>

HandlerPost(h) ==
    /\ Handler(h, "post", "recv")
    /\ Signal!Post(h)
    /\ UNCHANGED <<serverUp, handlerFd, toClientVars, toServerVars>>

-----------------------------------------------------------------------------
(* The client launchers. *)

\* Process p of client c is a child that has not ended, nor been killed.
Alive(c, p) == processes[c][p] # None /\ processes[c][p].status = "running"

\* The socket the server listens on is open: a proxy inherits it, and holds it
\* after the end of the server, when nobody accepts any more.
Listening ==
    /\ listenPc # "off"
    /\ serverUp \/ \E p \in ProxyPids : proxies[p] \in {"running", "killed"}

\* init_client: the connection is made before the server accepts it, and
\* refused, which ends the launcher for good, when nobody listens, or not yet:
\* the commander starts the launchers 0.2 s after the server's.
ClientConnect(c) ==
    /\ clientPc[c] = "off"
    /\ IF Listening
       THEN /\ clientPc' = [clientPc EXCEPT ![c] = "ip"]
            /\ backlog' = Append(backlog, c)
       ELSE /\ clientPc' = [clientPc EXCEPT ![c] = "gone"]
            /\ UNCHANGED backlog
    /\ UNCHANGED <<signalVars, serverUp, mainVars, proxies, listenPc, clientFd,
                   clientList, clientFdList, handlerVars, toClientVars, toServerVars,
                   entityList, toLaunch, processList, processes, opening>>

\* How the dialogue with a client goes on with the message m: an IP, a START and
\* then RESTARTs, unless a RESTART comes early, something comes twice, or what comes
\* is none of them.  The first departure is kept.
NextOpening(stage, m) ==
    IF stage \notin AsDue THEN stage
    ELSE CASE m = "JUNK"    -> "junk"
           [] m = "FREED"   -> "freed"
           [] m = "MIXED"   -> "mixed"
           [] m = "IP"      -> IF stage = "nothing" THEN "ip" ELSE "twice"
           [] m = "START"   -> IF stage = "ip" THEN "started" ELSE "twice"
           [] m = "RESTART" -> IF stage = "started" THEN "started" ELSE "early"

\* recv_message of client c, which may take a message of a mixed socket for another.
ClientTakes(c, m) ==
    /\ toClient[c] # <<>>
    /\ m = Head(toClient[c]) \/ (c \in mixedToClient /\ m = "MIXED")
    /\ toClient' = [toClient EXCEPT ![c] = Tail(@)]
    /\ opening' = [opening EXCEPT ![c] = NextOpening(@, m)]
    /\ UNCHANGED <<signalVars, serverUp, mainVars, proxies, listenVars,
                   handlerVars, mixedToClient, toServerVars>>

\* set_entities_list takes the first message for the IP, whatever it is, and
\* no entity has an IP called START or RESTART.
ClientSetEntities(c) ==
    \E m \in Received :
        /\ clientPc[c] = "ip"
        /\ ClientTakes(c, m)
        /\ entityList' = [entityList EXCEPT ![c] = IF m = "IP" THEN Own(c) ELSE {}]
        /\ clientPc' = [clientPc EXCEPT ![c] = "loop"]
        /\ UNCHANGED <<toLaunch, processList, processes>>

\* Mutated forms: RESTART only launches; RESTART waits until what was killed
\* before has been reported.
ClientReceiveNoKill(c) ==
    \E m \in Received :
        /\ clientPc[c] = "loop"
        /\ toLaunch[c] = {}
        /\ ClientTakes(c, m)
        /\ toLaunch' = [toLaunch EXCEPT ![c] = IF m \in {"START", "RESTART"} THEN entityList[c] ELSE {}]
        /\ UNCHANGED <<clientPc, entityList, processList, processes>>

ClientReceiveWaits(c) ==
    \E m \in Received :
        /\ clientPc[c] = "loop"
        /\ toLaunch[c] = {}
        /\ m = "RESTART" => \A p \in Pids : processes[c][p] = None \/ Alive(c, p)
        /\ ClientTakes(c, m)
        /\ toLaunch' = [toLaunch EXCEPT ![c] = IF m \in {"START", "RESTART"} THEN entityList[c] ELSE {}]
        /\ IF m = "RESTART"
           THEN /\ processes' = [processes EXCEPT ![c] = [p \in Pids |->
                     IF p \in processList[c] /\ Alive(c, p)
                     THEN [@[p] EXCEPT !.status = "killed"]
                     ELSE @[p]]]
                /\ processList' = [processList EXCEPT ![c] = {}]
           ELSE UNCHANGED <<processes, processList>>
        /\ UNCHANGED <<clientPc, entityList>>

\* multiplex_message: RESTART kills whatever processList names, without waiting
\* for it to die; START and RESTART launch every entity; the rest is ignored.
ClientReceive(c) ==
    \E m \in Received :
        /\ clientPc[c] = "loop"
        /\ toLaunch[c] = {}
        /\ ClientTakes(c, m)
        /\ toLaunch' = [toLaunch EXCEPT ![c] = IF m \in {"START", "RESTART"} THEN entityList[c] ELSE {}]
        /\ IF m = "RESTART"
           THEN /\ processes' = [processes EXCEPT ![c] = [p \in Pids |->
                     IF p \in processList[c] /\ Alive(c, p)
                     THEN [@[p] EXCEPT !.status = "killed"]
                     ELSE @[p]]]
                /\ processList' = [processList EXCEPT ![c] = {}]
           ELSE UNCHANGED <<processes, processList>>
        /\ UNCHANGED <<clientPc, entityList>>

\* Mutated form: the pid is not kept.
ClientLaunchUnlisted(c) ==
    /\ clientPc[c] = "loop"
    /\ \E e \in toLaunch[c], p \in Pids :
        /\ toLaunch' = [toLaunch EXCEPT ![c] = @ \ {e}]
        /\ processes[c][p] = None
        /\ processes' = [processes EXCEPT ![c][p] =
                             [status |-> "running", entity |-> e, monitored |-> TRUE]]
    /\ UNCHANGED <<signalVars, serverUp, mainVars, proxies, listenVars, handlerVars,
                   toClientVars, toServerVars, clientPc, entityList, processList, opening>>

\* One turn of the loop of start_entities; a fork that fails, as it does at the
\* process limit, skips the entity.  A pthread_create that fails is not noticed:
\* the process has no monitor, and pthread_detach gets what is no thread, of which
\* the launcher may die.
ClientLaunch(c) ==
    /\ clientPc[c] = "loop"
    /\ \E e \in toLaunch[c] :
        /\ toLaunch' = [toLaunch EXCEPT ![c] = @ \ {e}]
        /\ \/ \E p \in Pids, monitored \in BOOLEAN :
                /\ processes[c][p] = None
                /\ processes' = [processes EXCEPT ![c][p] =
                       [status |-> "running", entity |-> e, monitored |-> monitored]]
                /\ processList' = [processList EXCEPT ![c] = @ \cup {p}]
                /\ \/ UNCHANGED clientPc
                   \/ ~monitored /\ clientPc' = [clientPc EXCEPT ![c] = "gone"]
                /\ monitored \/ "monitor" \in Failures
           \/ /\ "child" \in Failures \/ \A p \in Pids : processes[c][p] # None
              /\ UNCHANGED <<processes, processList, clientPc>>
    /\ UNCHANGED <<signalVars, serverUp, mainVars, proxies, listenVars,
                   handlerVars, toClientVars, toServerVars, entityList, opening>>

\* An entity ends by itself, or the SIGKILL reaches it.
ProcessDies(c, p, from) ==
    /\ processes[c][p] # None
    /\ processes[c][p].status = from
    /\ processes' = [processes EXCEPT ![c][p].status = "dead"]
    /\ UNCHANGED <<signalVars, serverUp, mainVars, proxies, listenVars,
                   handlerVars, toClientVars, toServerVars, clientVars>>

\* Mutated form: the monitor sends the message of the server.
MonitorReportRestart(c, p) ==
    /\ clientPc[c] = "loop"
    /\ processes[c][p] # None
    /\ processes[c][p].status = "dead"
    /\ processes' = [processes EXCEPT ![c][p] = None]
    /\ Len(toServer[c]) < SocketCap
    /\ toServer' = [toServer EXCEPT ![c] = Append(@, "RESTART")]
    /\ UNCHANGED <<signalVars, serverUp, mainVars, proxies, listenVars,
                   handlerVars, toClientVars, mixedToServer, clientVars>>

\* A process of client c has ended, and its monitor has not reported it.
Unreported(c, p) ==
    processes[c][p] # None /\ processes[c][p].status = "dead" /\ processes[c][p].monitored

\* monitor_child: waitpid returns and a CRASH is sent, however the process
\* ended; other monitors may send theirs at the same time.  Without a server the
\* send may end the launcher.
MonitorReport(c, p) ==
    /\ clientPc[c] = "loop"
    /\ Unreported(c, p)
    /\ processes' = [processes EXCEPT ![c][p] = None]
    /\ IF serverUp
       THEN /\ Len(toServer[c]) < SocketCap
            /\ toServer' = [toServer EXCEPT ![c] = Append(@, "CRASH")]
            /\ \/ UNCHANGED mixedToServer
               \/ /\ \E q \in Pids \ {p} : Unreported(c, q)
                  /\ mixedToServer' = mixedToServer \cup {c}
            /\ UNCHANGED clientPc
       ELSE /\ clientPc' \in {clientPc, [clientPc EXCEPT ![c] = "gone"]}
            /\ UNCHANGED toServerVars
    /\ UNCHANGED <<signalVars, serverUp, mainVars, proxies, listenVars,
                   handlerVars, toClientVars, entityList, toLaunch, processList,
                   opening>>

-----------------------------------------------------------------------------
MainStep ==
    \/ MainListen
    \/ MainLaunchProxy
    \/ MainKillProxy
    \/ MainRelaunchProxy
    \/ MainSendRestart
    \/ MainFinish

ListenStep ==
    \/ ListenAccept
    \/ ListenAcceptFails
    \/ ListenRegister

HandlerStep(h) ==
    \/ HandlerReadFd(h)
    \/ HandlerSendIp(h)
    \/ HandlerSendStart(h)
    \/ HandlerRecv(h)
    \/ HandlerPost(h)

ClientStep(c) ==
    \/ ClientConnect(c)
    \/ ClientSetEntities(c)
    \/ ClientReceive(c)
    \/ ClientLaunch(c)

Next ==
    \/ MainStep
    \/ ListenStep
    \/ \E p \in ProxyPids : ProxyDies(p)
    \/ \E h \in Clients : HandlerStep(h)
    \/ \E c \in Clients : ClientStep(c)
    \/ \E c \in Clients, p \in Pids :
        \/ ProcessDies(c, p, "running")
        \/ ProcessDies(c, p, "killed")
        \/ MonitorReport(c, p)

Spec == Init /\ [][Next]_vars

\* Every thread keeps running and a process that was killed dies; nothing
\* obliges a proxy or an entity to crash, or a listen thread to fail.
Fairness ==
    /\ WF_vars(MainStep)
    /\ WF_vars(ListenAccept \/ ListenRegister)
    /\ WF_vars(\E p \in ProxyPids : proxies[p] = "killed" /\ ProxyDies(p))
    /\ \A h \in Clients : WF_vars(HandlerStep(h)) /\ SF_vars(HandlerPost(h))
    /\ \A c \in Clients : WF_vars(ClientStep(c))
    /\ \A c \in Clients, p \in Pids :
        /\ WF_vars(ProcessDies(c, p, "killed"))
        /\ SF_vars(MonitorReport(c, p))

FairSpec == Spec /\ Fairness

-----------------------------------------------------------------------------
(* Properties. *)

Instances(e) == {p \in Pids : Alive(Home[e], p) /\ processes[Home[e]][p].entity = e}

\* Handler h serves the client it was created for and nobody else does.
WellServed(c) == \A h \in Clients : handlerFd[h] = c <=> h = c

\* Two proxies never run side by side: the old one is dead and reaped before
\* the new one is launched, so the ports it held are free.
OneProxy == Cardinality({p \in ProxyPids : proxies[p] # "none"}) <= 1

\* A process that is neither dead nor killed is named in processList, so that
\* the next RESTART kills it: no instance is left over from before a restart.
NoOrphan ==
    \A c \in Clients, p \in Pids :
        clientPc[c] = "loop" /\ Alive(c, p) => p \in processList[c]

\* An entity runs once at a time, as long as its launcher was sent an IP, a
\* START and then RESTARTs.
OneInstance ==
    \A e \in Entities :
        opening[Home[e]] \in AsDue => Cardinality(Instances(e)) <= 1

\* A launcher is sent a second IP or a second START only when a handler has read
\* client_fd after the next accept had overwritten it, and an IP that was never set
\* only then or when it could not be listed; what is worse was made of the bytes of
\* two threads, or read by a handler under which the list of clients grew.
TwiceOnlyByRace ==
    \A c \in Clients :
        /\ opening[c] = "twice" => ~WellServed(c)
        /\ opening[c] = "junk"  => ~WellServed(c) \/ c \notin clientList
        /\ opening[c] = "mixed" => c \in mixedToClient
        /\ opening[c] = "freed" => Len(clientFdList) > 1

\* A launcher that connects starts its entity, and an entity that has died runs
\* again, provided that the handler of its launcher serves it and no other does,
\* that what the launcher takes is an IP, a START and then RESTARTs, and that its
\* monitors do not mix their CRASHes (unless the server is gone).
StartedAndRelaunched ==
    \A e \in Entities : LET c == Home[e] IN
        \/ clientPc[c] = "ip" /\ WellServed(c)
        \/ /\ opening[c] = "started"
           /\ \E p \in Pids :
                processes[c][p] = [status |-> "dead", entity |-> e, monitored |-> TRUE]
        ~> \/ Instances(e) # {}
           \/ opening[c] \notin AsDue \/ c \in mixedToServer
           \/ ~WellServed(c) \/ ~serverUp

\* A restart that has begun comes to its end: main, which holds the mutex, waits
\* for room in the sockets of clients whose CRASHes wait for the mutex.  It may
\* wait for ever for a launcher that died, while its processes hold the connection.
RestartCompletes ==
    mainPc = "reap" ~>
        \/ mainPc = "wait"
        \/ ~serverUp
        \/ \E c \in Clients : clientPc[c] = "gone" /\ Connected(c)

\* Once entities stop crashing, the restarts stop too.
EntityCrashes == \E c \in Clients, p \in Pids : ProcessDies(c, p, "running")

RestartsEnd == <>[][~EntityCrashes]_vars => <>[](mainPc = "wait" \/ ~serverUp)
=============================================================================
