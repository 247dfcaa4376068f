--------------------------- MODULE LauncherProofs ---------------------------
(***************************************************************************)
(* Proofs about Launcher.tla, for any launchers, entities, process limits, *)
(* sizes of sockets and failures: types, one proxy, no orphans, one        *)
(* instance of each entity, and the causes of a departure of a dialogue.   *)
(*                                                                         *)
(* The invariant has a part for each of the components, which the steps of *)
(* the others leave alone (ServerFrame, ClientFrame).  The dialogues have  *)
(* one of their own, which rests on it.                                    *)
(***************************************************************************)
EXTENDS Launcher, FiniteSetTheorems, SequenceTheorems, TLAPS

\* Where a handler may be.
HandlerPlaces == {"none", "read", "ip", "stale", "start", "recv", "post"}

\* The threads that use a descriptor have one.
Descriptors ==
    /\ listenPc = "register" => clientFd \in Clients
    /\ \A h \in Clients :
        serverUp /\ handlerPc[h] \in {"start", "recv", "post"} => handlerFd[h] \in Clients

\* The only proxy there may be is the one proxyPid names.
Proxies ==
    /\ \A p \in ProxyPids : proxies[p] # "none" => p = proxyPid
    /\ serverUp /\ mainPc = "reap" => proxyPid # None
    /\ mainPc \in {"init", "launch"} => \A p \in ProxyPids : proxies[p] = "none"

\* A client launcher that is not in its loop has launched nothing; one that is
\* names in processList whatever it has running.
Launched ==
    \A c \in Clients :
        /\ clientPc[c] \in {"off", "ip"} =>
              opening[c] = "nothing" /\ \A p \in Pids : processes[c][p] = None
        /\ clientPc[c] = "loop" =>
              opening[c] # "nothing" /\ \A p \in Pids : Alive(c, p) => p \in processList[c]

\* Before its START a launcher has nothing to launch and nothing launched; then
\* what it has to launch does not run, and what runs runs once.
Opened ==
    \A c \in Clients :
        /\ entityList[c] \subseteq Own(c) /\ toLaunch[c] \subseteq Own(c)
        /\ opening[c] \in {"nothing", "ip"} =>
              toLaunch[c] = {} /\ \A p \in Pids : processes[c][p] = None
        /\ opening[c] = "started" =>
              /\ \A e \in toLaunch[c] : Instances(e) = {}
              /\ \A e \in Own(c) : \A p, q \in Instances(e) : p = q

\* The inductive invariant.
Inv == TypeOK /\ Descriptors /\ Proxies /\ Launched /\ Opened

\* Initially there is one proxy and no client is connected.
LEMMA InitInv == Init => Inv
<1> SUFFICES ASSUME Init PROVE Inv
  OBVIOUS
<1> USE LauncherAssumption DEF Init
<1>1. TypeOK
  <2>1. Signal!SignalTypeOK /\ proxies \in [ProxyPids -> {"none", "running", "killed", "dead"}]
    BY DEF Signal!SignalTypeOK, Signal!SignalInit
  <2>2. processes \in [Clients -> [Pids -> Process]]
    BY DEF Process
  <2>3. toClient \in [Clients -> Seq(ServerMessages)] /\ toServer \in [Clients -> Seq({"CRASH"})]
    OBVIOUS
  <2>4. /\ targets \in Seq(Clients)
        /\ backlog \in Seq(Clients)
        /\ clientFdList \in Seq(Clients)
    OBVIOUS
  <2>5. /\ handlerPc \in [Clients -> HandlerPlaces]
        /\ opening \in [Clients -> Openings]
        /\ mixedToClient \subseteq Clients /\ mixedToServer \subseteq Clients
    BY DEF HandlerPlaces, Openings, AsDue
  <2>6. QED
    BY <2>1, <2>2, <2>3, <2>4, <2>5 DEF TypeOK, ProxyPids, HandlerPlaces
<1>2. Descriptors /\ Proxies
  BY DEF Descriptors, Proxies, ProxyPids
<1>3. Launched
  BY DEF Launched
<1>4. Opened
  BY DEF Opened, Own
<1>5. QED
  BY <1>1, <1>2, <1>3, <1>4 DEF Inv

-----------------------------------------------------------------------------
(* What a step leaves alone. *)

\* The proxies are left alone by all but main and the system.
LEMMA ServerFrame ==
    ASSUME [Next]_vars
    PROVE  \/ MainKillProxy
           \/ MainRelaunchProxy
           \/ MainLaunchProxy
           \/ \E p \in ProxyPids : ProxyDies(p)
           \/ /\ UNCHANGED <<proxies, proxyPid>>
              /\ serverUp' => serverUp
              /\ mainPc' = "reap" => mainPc = "reap"
              /\ mainPc' \in {"init", "launch"} => mainPc \in {"init", "launch"}
<1> USE DEF signalVars, mainVars, listenVars, handlerVars, clientVars, toClientVars, toServerVars
<1>1. CASE MainSendRestart
  BY <1>1 DEF MainSendRestart, Main, SendToClient, ServerDies
<1>2. CASE MainFinish \/ MainListen
  BY <1>2 DEF MainFinish, MainListen, Main
<1>3. CASE ListenStep
  BY <1>3 DEF ListenStep, ListenAccept, ListenAcceptFails, ListenRegister, Listen, ServerDies
<1>4. CASE \E h \in Clients : HandlerStep(h)
  BY <1>4 DEF HandlerStep, HandlerReadFd, HandlerSendIp, HandlerSendStart, HandlerRecv,
              HandlerPost, Handler, SendToClient, ServerDies
<1>5. CASE \E c \in Clients : ClientStep(c)
  BY <1>5 DEF ClientStep, ClientConnect, ClientSetEntities, ClientReceive, ClientLaunch,
              ClientTakes
<1>6. CASE \E c \in Clients, p \in Pids :
              ProcessDies(c, p, "running") \/ ProcessDies(c, p, "killed") \/ MonitorReport(c, p)
  BY <1>6 DEF ProcessDies, MonitorReport, Unreported
<1>7. CASE UNCHANGED vars
  BY <1>7 DEF vars
<1>8. QED
  BY <1>1, <1>2, <1>3, <1>4, <1>5, <1>6, <1>7 DEF Next, MainStep

\* What a client launcher knows and runs is left alone by all but its own steps
\* and those of its processes.
LEMMA ClientFrame ==
    ASSUME [Next]_vars
    PROVE  \/ \E c \in Clients :
                ClientConnect(c) \/ ClientSetEntities(c) \/ ClientReceive(c) \/ ClientLaunch(c)
           \/ \E c \in Clients, p \in Pids :
                \/ ProcessDies(c, p, "running")
                \/ ProcessDies(c, p, "killed")
                \/ MonitorReport(c, p)
           \/ UNCHANGED <<clientVars, processes>>
<1> USE DEF signalVars, mainVars, listenVars, handlerVars, clientVars, toClientVars, toServerVars
<1>1. CASE MainStep
  BY <1>1 DEF MainStep, MainListen, MainLaunchProxy, MainKillProxy, MainRelaunchProxy,
              MainSendRestart, MainFinish
<1>2. CASE ListenStep
  BY <1>2 DEF ListenStep, ListenAccept, ListenAcceptFails, ListenRegister, Listen
<1>3. CASE \E p \in ProxyPids : ProxyDies(p)
  BY <1>3 DEF ProxyDies
<1>4. CASE \E h \in Clients : HandlerStep(h)
  BY <1>4 DEF HandlerStep, HandlerReadFd, HandlerSendIp, HandlerSendStart, HandlerRecv,
              HandlerPost, Handler
<1>5. CASE UNCHANGED vars
  BY <1>5 DEF vars
<1>6. QED
  BY <1>1, <1>2, <1>3, <1>4, <1>5 DEF Next, ClientStep

-----------------------------------------------------------------------------
(* The descriptors of the server. *)

\* What the registration of a client does to a handler: it is the new one, or the
\* list may be moved while it searches it.
LEMMA RegisterMoves ==
    ASSUME TypeOK, ListenRegister, NEW h \in Clients
    PROVE  \/ handlerPc'[h] = handlerPc[h]
           \/ h = clientFd /\ handlerPc'[h] = "read"
           \/ handlerPc[h] = "ip" /\ handlerPc'[h] = "stale"
<1>1. PICK moved \in SUBSET {g \in Clients : handlerPc[g] = "ip"} :
         LET left == [g \in Clients |-> IF g \in moved THEN "stale" ELSE handlerPc[g]] IN
         handlerPc' = left \/ handlerPc' = [left EXCEPT ![clientFd] = "read"]
  BY DEF ListenRegister
<1>2. QED
  BY <1>1 DEF TypeOK

\* A descriptor is used only after accept or a successful read of client_fd has
\* given it a value.
LEMMA DescriptorsStep ==
    ASSUME TypeOK, Descriptors, [Next]_vars
    PROVE  Descriptors'
<1> USE DEF signalVars, mainVars, listenVars, handlerVars, clientVars, toClientVars, toServerVars
<1>1. CASE MainStep
  BY <1>1 DEF MainStep, MainListen, MainLaunchProxy, MainKillProxy, MainRelaunchProxy,
              MainSendRestart, MainFinish, Main, SendToClient,
              ServerDies, Descriptors
<1>2. CASE ListenAccept
  <2>1. clientFd' \in Clients
    BY <1>2 DEF ListenAccept, TypeOK
  <2>2. QED
    BY <1>2, <2>1 DEF ListenAccept, Listen, Descriptors
<1>3. CASE ListenAcceptFails
  BY <1>3 DEF ListenAcceptFails, Listen, Descriptors
<1>4. CASE ListenRegister
  <2>1. /\ UNCHANGED handlerFd /\ (serverUp' => serverUp) /\ listenPc' # "register"
        /\ \A h \in Clients : handlerPc'[h] \in {"start", "recv", "post"} => handlerPc'[h] = handlerPc[h]
    BY <1>4, RegisterMoves DEF ListenRegister, Listen, ServerDies
  <2>2. QED
    BY <2>1 DEF Descriptors
<1>5. CASE \E p \in ProxyPids : ProxyDies(p)
  BY <1>5 DEF ProxyDies, Descriptors
<1>6. ASSUME NEW h \in Clients, HandlerStep(h)
      PROVE  Descriptors'
  <2>1. CASE HandlerReadFd(h)
    BY <2>1 DEF HandlerReadFd, Handler, Descriptors, TypeOK
  <2>2. CASE HandlerSendIp(h)
    <3>1. serverUp' => handlerFd[h] \in Clients
      BY <2>2 DEF HandlerSendIp, SendToClient, ServerDies, TypeOK
    <3>2. QED
      BY <2>2, <3>1 DEF HandlerSendIp, Handler, SendToClient, ServerDies, Descriptors, TypeOK
  <2>3. CASE HandlerSendStart(h)
    BY <2>3 DEF HandlerSendStart, Handler, SendToClient, ServerDies, Descriptors, TypeOK
  <2>4. CASE HandlerRecv(h)
    BY <2>4 DEF HandlerRecv, Handler, Descriptors, TypeOK
  <2>5. CASE HandlerPost(h)
    BY <2>5 DEF HandlerPost, Handler, Descriptors, TypeOK
  <2>6. QED
    BY <1>6, <2>1, <2>2, <2>3, <2>4, <2>5 DEF HandlerStep
<1>7. CASE \E c \in Clients : ClientStep(c)
  BY <1>7 DEF ClientStep, ClientConnect, ClientSetEntities, ClientReceive, ClientLaunch,
              ClientTakes, Descriptors
<1>8. CASE \E c \in Clients, p \in Pids :
              ProcessDies(c, p, "running") \/ ProcessDies(c, p, "killed") \/ MonitorReport(c, p)
  BY <1>8 DEF ProcessDies, MonitorReport, Unreported, Descriptors
<1>9. CASE UNCHANGED vars
  BY <1>9 DEF vars, Descriptors
<1>10. QED
  BY <1>1, <1>2, <1>3, <1>4, <1>5, <1>6, <1>7, <1>8, <1>9 DEF Next, ListenStep

-----------------------------------------------------------------------------
(* The proxies. *)

\* The next proxy gets a number that is free: the first, when there is none left.
LEMMA FreePidOfNone ==
    ASSUME NEW left, \A p \in ProxyPids : left[p] = "none"
    PROVE  FreePid(left) \in ProxyPids
<1>1. 1 \in ProxyPids /\ left[1] = "none" /\ \A q \in 1..(1 - 1) : left[q] # "none"
  BY DEF ProxyPids
<1>2. QED
  BY <1>1 DEF FreePid

\* What is left when main has reaped the proxy is nothing.
LEMMA NothingLeft ==
    ASSUME TypeOK, Proxies
    PROVE  \A p \in ProxyPids : [proxies EXCEPT ![proxyPid] = "none"][p] = "none"
BY DEF TypeOK, Proxies

\* A proxy is launched only where the last one was reaped.
LEMMA ProxiesStep ==
    ASSUME TypeOK, Proxies, [Next]_vars
    PROVE  Proxies'
<1>1. CASE MainKillProxy
  BY <1>1 DEF MainKillProxy, Main, ServerDies, Proxies, TypeOK
<1>2. CASE MainRelaunchProxy
  <2> DEFINE left == [proxies EXCEPT ![proxyPid] = "none"]
  <2>1. left \in [ProxyPids -> {"none", "running", "killed", "dead"}]
    BY DEF TypeOK
  <2>2. \A p \in ProxyPids : left[p] = "none"
    BY NothingLeft
  <2> HIDE DEF left
  <2>3. \/ proxyPid' = FreePid(left) /\ proxies' = [left EXCEPT ![FreePid(left)] = "running"]
        \/ proxies' = left
    BY <1>2 DEF MainRelaunchProxy, left
  <2>4. mainPc' = "send"
    BY <1>2 DEF MainRelaunchProxy, Main
  <2>5. QED
    BY <2>1, <2>2, <2>3, <2>4 DEF Proxies
<1>3. CASE \E p \in ProxyPids : ProxyDies(p)
  BY <1>3 DEF ProxyDies, mainVars, Proxies, TypeOK
<1>4. CASE /\ UNCHANGED <<proxies, proxyPid>>
           /\ serverUp' => serverUp
           /\ mainPc' = "reap" => mainPc = "reap"
           /\ mainPc' \in {"init", "launch"} => mainPc \in {"init", "launch"}
  BY <1>4 DEF Proxies
<1>5. CASE MainLaunchProxy
  <2>1. Main("launch", "wait")
    BY <1>5 DEF MainLaunchProxy
  <2>2. \A p \in ProxyPids : proxies[p] = "none"
    BY <2>1 DEF Main, Proxies
  <2>3. \/ proxyPid' = FreePid(proxies) /\ proxies' = [proxies EXCEPT ![FreePid(proxies)] = "running"]
        \/ UNCHANGED <<proxyPid, proxies>>
    BY <1>5 DEF MainLaunchProxy
  <2>4. QED
    BY <2>1, <2>2, <2>3 DEF Main, Proxies, TypeOK
<1>6. QED
  BY <1>1, <1>2, <1>3, <1>4, <1>5, ServerFrame

-----------------------------------------------------------------------------
(* The processes of the client launchers. *)

\* The dialogue with a client does not begin again.
LEMMA OpeningGoesOn ==
    ASSUME NEW stage \in Openings, NEW m \in Received
    PROVE  /\ NextOpening(stage, m) \in Openings \ {"nothing"}
           /\ NextOpening(stage, m) = "ip" => stage = "nothing"
           /\ NextOpening(stage, m) = "started" => stage \in {"ip", "started"}
           /\ NextOpening(stage, m) = "started" /\ stage = "started" => m = "RESTART"
           /\ NextOpening(stage, m) = "twice" /\ stage # "twice" => m \in {"IP", "START"}
           /\ NextOpening(stage, m) = "junk" /\ stage # "junk" => m = "JUNK"
           /\ NextOpening(stage, m) = "freed" /\ stage # "freed" => m = "FREED"
           /\ NextOpening(stage, m) = "mixed" /\ stage # "mixed" => m = "MIXED"
BY DEF NextOpening, Openings, AsDue, Received, ServerMessages

\* A RESTART kills all that runs, since all of it is listed.
LEMMA RestartKillsAll ==
    ASSUME TypeOK, Launched, NEW c \in Clients, clientPc[c] = "loop",
           processes' = [processes EXCEPT ![c] = [p \in Pids |->
                 IF p \in processList[c] /\ Alive(c, p)
                 THEN [@[p] EXCEPT !.status = "killed"]
                 ELSE @[p]]]
    PROVE  \A p \in Pids : ~Alive(c, p)'
<1> SUFFICES ASSUME NEW p \in Pids
             PROVE  ~Alive(c, p)'
  OBVIOUS
<1>1. processes'[c][p] = IF p \in processList[c] /\ Alive(c, p)
                         THEN [processes[c][p] EXCEPT !.status = "killed"]
                         ELSE processes[c][p]
  BY DEF TypeOK
<1>2. CASE Alive(c, p)
  <2>1. p \in processList[c]
    BY <1>2 DEF Launched
  <2>2. processes[c][p] \in [status : {"running", "killed", "dead"}, entity : Entities, monitored : BOOLEAN]
    BY <1>2 DEF Alive, TypeOK, Process
  <2>3. processes'[c][p].status = "killed"
    BY <1>1, <1>2, <2>1, <2>2
  <2>4. QED
    BY <2>3 DEF Alive
<1>3. CASE ~Alive(c, p)
  BY <1>1, <1>3 DEF Alive
<1>4. QED
  BY <1>2, <1>3

\* Every process a launcher starts is listed, and what was listed is killed when
\* the list is emptied.
LEMMA LaunchedStep ==
    ASSUME TypeOK, Launched, [Next]_vars
    PROVE  Launched'
<1> USE DEF clientVars, toClientVars, toServerVars
<1>1. ASSUME NEW c \in Clients, ClientConnect(c)
      PROVE  Launched'
  BY <1>1 DEF ClientConnect, Launched, Alive, TypeOK
<1>2. ASSUME NEW c \in Clients, ClientSetEntities(c)
      PROVE  Launched'
  <2>1. PICK m \in Received :
            /\ opening' = [opening EXCEPT ![c] = NextOpening(@, m)]
            /\ clientPc[c] = "ip"
            /\ clientPc' = [clientPc EXCEPT ![c] = "loop"]
            /\ UNCHANGED <<processList, processes>>
    BY <1>2 DEF ClientSetEntities, ClientTakes
  <2>2. opening'[c] # "nothing"
    <3>1. opening'[c] = NextOpening(opening[c], m) /\ opening[c] \in Openings
      BY <2>1 DEF TypeOK
    <3>2. QED
      BY <3>1, OpeningGoesOn
  <2>3. QED
    BY <2>1, <2>2 DEF Launched, Alive, TypeOK
<1>3. ASSUME NEW c \in Clients, ClientReceive(c)
      PROVE  Launched'
  <2>1. PICK m \in Received :
            /\ opening' = [opening EXCEPT ![c] = NextOpening(@, m)]
            /\ clientPc[c] = "loop"
            /\ IF m = "RESTART"
               THEN /\ processes' = [processes EXCEPT ![c] = [p \in Pids |->
                         IF p \in processList[c] /\ Alive(c, p)
                         THEN [@[p] EXCEPT !.status = "killed"]
                         ELSE @[p]]]
                    /\ processList' = [processList EXCEPT ![c] = {}]
               ELSE UNCHANGED <<processes, processList>>
            /\ UNCHANGED clientPc
    BY <1>3 DEF ClientReceive, ClientTakes
  <2>2. opening'[c] # "nothing"
    <3>1. opening'[c] = NextOpening(opening[c], m) /\ opening[c] \in Openings
      BY <2>1 DEF TypeOK
    <3>2. QED
      BY <3>1, OpeningGoesOn
  <2>3. CASE m = "RESTART"
    <3>1. \A p \in Pids : ~Alive(c, p)'
      BY <2>1, <2>3, RestartKillsAll
    <3>2. \A d \in Clients \ {c} : processes'[d] = processes[d] /\ processList'[d] = processList[d]
      BY <2>1, <2>3 DEF TypeOK
    <3>3. QED
      BY <2>1, <2>2, <3>1, <3>2 DEF Launched, Alive, TypeOK
  <2>4. CASE m # "RESTART"
    BY <2>1, <2>2, <2>4 DEF Launched, Alive, TypeOK
  <2>5. QED
    BY <2>3, <2>4
<1>4. ASSUME NEW c \in Clients, ClientLaunch(c)
      PROVE  Launched'
  <2>1. /\ clientPc[c] = "loop"
        /\ clientPc'[c] \in {"loop", "gone"}
        /\ \A d \in Clients \ {c} : clientPc'[d] = clientPc[d]
        /\ UNCHANGED opening
    <3>1. /\ clientPc[c] = "loop"
          /\ clientPc' = clientPc \/ clientPc' = [clientPc EXCEPT ![c] = "gone"]
          /\ UNCHANGED opening
      BY <1>4 DEF ClientLaunch
    <3>2. QED
      BY <3>1 DEF TypeOK
  <2>2. ASSUME NEW e, NEW p \in Pids, NEW b \in BOOLEAN,
               processes' = [processes EXCEPT ![c][p] =
                                [status |-> "running", entity |-> e, monitored |-> b]],
               processList' = [processList EXCEPT ![c] = @ \cup {p}]
        PROVE  Launched'
    <3>1. processList'[c] = processList[c] \cup {p}
      BY <2>2 DEF TypeOK
    <3>2. \A q \in Pids \ {p} : processes'[c][q] = processes[c][q]
      BY <2>2 DEF TypeOK
    <3>3. \A d \in Clients \ {c} : processes'[d] = processes[d] /\ processList'[d] = processList[d]
      BY <2>2 DEF TypeOK
    <3>4. QED
      BY <2>1, <3>1, <3>2, <3>3 DEF Launched, Alive
  <2>3. CASE UNCHANGED <<processes, processList>>
    BY <2>1, <2>3 DEF Launched, Alive
  <2>4. QED
    BY <1>4, <2>2, <2>3 DEF ClientLaunch
<1>5. ASSUME NEW c \in Clients, NEW p \in Pids, NEW from, ProcessDies(c, p, from)
      PROVE  Launched'
  BY <1>5 DEF ProcessDies, Launched, Alive, TypeOK
<1>6. ASSUME NEW c \in Clients, NEW p \in Pids, MonitorReport(c, p)
      PROVE  Launched'
  BY <1>6 DEF MonitorReport, Unreported, Launched, Alive, TypeOK
<1>7. CASE UNCHANGED <<clientVars, processes>>
  BY <1>7 DEF Launched, Alive
<1>8. QED
  BY <1>1, <1>2, <1>3, <1>4, <1>5, <1>6, <1>7, ClientFrame

\* What a launch does: one entity of the list has a new process, or none has.
LEMMA LaunchEffect ==
    ASSUME TypeOK, NEW c \in Clients, ClientLaunch(c)
    PROVE  \E e \in toLaunch[c] :
              /\ toLaunch' = [toLaunch EXCEPT ![c] = @ \ {e}]
              /\ \/ \E p \in Pids, b \in BOOLEAN :
                      /\ processes[c][p] = None
                      /\ processes'[c][p] = [status |-> "running", entity |-> e, monitored |-> b]
                      /\ \A q \in Pids \ {p} : processes'[c][q] = processes[c][q]
                      /\ \A d \in Clients \ {c} : processes'[d] = processes[d]
                 \/ UNCHANGED processes
<1>1. PICK e \in toLaunch[c] :
        /\ toLaunch' = [toLaunch EXCEPT ![c] = @ \ {e}]
        /\ \/ \E p \in Pids, b \in BOOLEAN :
                /\ processes[c][p] = None
                /\ processes' = [processes EXCEPT ![c][p] =
                                   [status |-> "running", entity |-> e, monitored |-> b]]
           \/ UNCHANGED processes
  BY DEF ClientLaunch
<1>2. ASSUME NEW p \in Pids, NEW b \in BOOLEAN,
             processes' = [processes EXCEPT ![c][p] =
                              [status |-> "running", entity |-> e, monitored |-> b]]
      PROVE  /\ processes'[c][p] = [status |-> "running", entity |-> e, monitored |-> b]
             /\ \A q \in Pids \ {p} : processes'[c][q] = processes[c][q]
             /\ \A d \in Clients \ {c} : processes'[d] = processes[d]
  BY <1>2 DEF TypeOK
<1>3. QED
  BY <1>1, <1>2

\* What the end of a process and its report do: that process is dead or gone.
LEMMA EndEffect ==
    ASSUME TypeOK, NEW c \in Clients, NEW p \in Pids,
           ProcessDies(c, p, "running") \/ ProcessDies(c, p, "killed") \/ MonitorReport(c, p)
    PROVE  /\ processes[c][p] # None
           /\ processes'[c][p] = None \/ processes'[c][p].status = "dead"
           /\ \A q \in Pids \ {p} : processes'[c][q] = processes[c][q]
           /\ \A d \in Clients \ {c} : processes'[d] = processes[d]
<1>1. processes[c][p] # None
  BY DEF ProcessDies, MonitorReport, Unreported
<1>2. processes[c][p] \in [status : {"running", "killed", "dead"}, entity : Entities, monitored : BOOLEAN]
  BY <1>1 DEF TypeOK, Process
<1>3. \/ processes' = [processes EXCEPT ![c][p].status = "dead"]
      \/ processes' = [processes EXCEPT ![c][p] = None]
  BY DEF ProcessDies, MonitorReport, Unreported
<1>4. CASE processes' = [processes EXCEPT ![c][p].status = "dead"]
  BY <1>1, <1>2, <1>4 DEF TypeOK
<1>5. CASE processes' = [processes EXCEPT ![c][p] = None]
  BY <1>1, <1>5 DEF TypeOK
<1>6. QED
  BY <1>3, <1>4, <1>5

\* With an IP, a START and RESTARTs only, an entity is launched only when all
\* its earlier instances are dead or killed.
LEMMA OpenedStep ==
    ASSUME TypeOK, Launched, Opened, [Next]_vars
    PROVE  Opened'
<1> USE LauncherAssumption DEF clientVars, toClientVars, toServerVars
<1>1. ASSUME NEW c \in Clients, ClientConnect(c)
      PROVE  Opened'
  <2>1. UNCHANGED <<entityList, toLaunch, processes, opening>>
    BY ONLY <1>1 DEF ClientConnect
  <2>2. QED
    BY ONLY Opened, <2>1 DEF Opened, Instances, Alive
<1>2. ASSUME NEW c \in Clients, ClientSetEntities(c)
      PROVE  Opened'
  <2>1. PICK m \in Received :
            /\ opening' = [opening EXCEPT ![c] = NextOpening(@, m)]
            /\ clientPc[c] = "ip"
            /\ entityList' = [entityList EXCEPT ![c] = IF m = "IP" THEN Own(c) ELSE {}]
            /\ UNCHANGED <<toLaunch, processes>>
    BY <1>2 DEF ClientSetEntities, ClientTakes
  <2>2. opening'[c] # "started"
    <3>1. opening'[c] = NextOpening(opening[c], m) /\ opening[c] = "nothing"
          /\ opening[c] \in Openings
      BY <2>1 DEF TypeOK, Launched
    <3>2. QED
      BY <3>1, OpeningGoesOn
  <2>3. opening[c] = "nothing" /\ entityList'[c] \subseteq Own(c)
    BY <2>1 DEF Launched, TypeOK
  <2>4. \A d \in Clients \ {c} : opening'[d] = opening[d] /\ entityList'[d] = entityList[d]
    BY <2>1 DEF TypeOK
  <2>5. \A e \in Entities : Instances(e)' = Instances(e)
    BY <2>1 DEF Instances, Alive
  <2>6. QED
    BY <2>1, <2>2, <2>3, <2>4, <2>5 DEF Opened, Own
<1>3. ASSUME NEW c \in Clients, ClientReceive(c)
      PROVE  Opened'
  <2>1. PICK m \in Received :
            /\ opening' = [opening EXCEPT ![c] = NextOpening(@, m)]
            /\ clientPc[c] = "loop"
            /\ toLaunch[c] = {}
            /\ toLaunch' = [toLaunch EXCEPT ![c] = IF m \in {"START", "RESTART"}
                                                   THEN entityList[c] ELSE {}]
            /\ m = "RESTART" =>
                   processes' = [processes EXCEPT ![c] = [p \in Pids |->
                         IF p \in processList[c] /\ Alive(c, p)
                         THEN [@[p] EXCEPT !.status = "killed"]
                         ELSE @[p]]]
            /\ m # "RESTART" => UNCHANGED processes
            /\ UNCHANGED entityList
    BY <1>3 DEF ClientReceive, ClientTakes
  <2>2. /\ opening'[c] = NextOpening(opening[c], m)
        /\ opening[c] # "nothing" /\ opening[c] \in Openings
        /\ \A d \in Clients \ {c} :
              opening'[d] = opening[d] /\ toLaunch'[d] = toLaunch[d] /\ processes'[d] = processes[d]
    BY <2>1 DEF TypeOK, Launched
  <2>3. opening'[c] \notin {"nothing", "ip"}
    BY <2>2, OpeningGoesOn
  <2>4. toLaunch'[c] \subseteq Own(c)
    BY <2>1 DEF TypeOK, Opened
  <2>5. ASSUME opening'[c] = "started"
        PROVE  \A p \in Pids : ~Alive(c, p)'
    <3>1. CASE opening[c] = "ip"
      <4>1. m # "RESTART" /\ \A p \in Pids : processes[c][p] = None
        BY <2>2, <2>5, <3>1 DEF NextOpening, AsDue, Opened
      <4>2. QED
        BY <2>1, <4>1 DEF Alive
    <3>2. CASE m = "RESTART"
      BY <1>3, <2>1, <3>2, RestartKillsAll
    <3>3. opening[c] \in {"ip", "started"} /\ (opening[c] = "started" => m = "RESTART")
      <4>1. opening[c] \in Openings /\ m \in Received
        BY <2>1 DEF TypeOK
      <4>2. NextOpening(opening[c], m) = "started"
        BY <2>2, <2>5
      <4>3. QED
        BY ONLY <4>1, <4>2, OpeningGoesOn
    <3>4. QED
      BY <3>1, <3>2, <3>3
  <2>6. ASSUME opening'[c] = "started", NEW e \in Own(c)
        PROVE  Instances(e)' = {}
    BY <2>5, <2>6 DEF Instances, Own
  <2>7. ASSUME NEW d \in Clients \ {c}, NEW e \in Own(d)
        PROVE  Instances(e)' = Instances(e)
    BY <2>2, <2>7 DEF Instances, Own, Alive
  <2>8. QED
    BY <2>1, <2>2, <2>3, <2>4, <2>6, <2>7 DEF Opened
<1>4. ASSUME NEW c \in Clients, ClientLaunch(c)
      PROVE  Opened'
  <2>1. PICK e \in toLaunch[c] :
            /\ toLaunch' = [toLaunch EXCEPT ![c] = @ \ {e}]
            /\ \/ \E p \in Pids, b \in BOOLEAN :
                    /\ processes[c][p] = None
                    /\ processes'[c][p] = [status |-> "running", entity |-> e, monitored |-> b]
                    /\ \A q \in Pids \ {p} : processes'[c][q] = processes[c][q]
                    /\ \A d \in Clients \ {c} : processes'[d] = processes[d]
               \/ UNCHANGED processes
    BY <1>4, LaunchEffect
  <2>2. UNCHANGED <<opening, entityList>>
    BY <1>4 DEF ClientLaunch
  <2>3. /\ toLaunch'[c] = toLaunch[c] \ {e}
        /\ \A d \in Clients \ {c} : toLaunch'[d] = toLaunch[d]
    BY <2>1 DEF TypeOK
  <2>4. e \in Own(c) /\ opening[c] \notin {"nothing", "ip"}
    BY <2>1 DEF Opened
  <2>5. CASE UNCHANGED processes
    <3>1. \A f \in Entities : Instances(f)' = Instances(f)
      BY <2>5 DEF Instances, Alive
    <3>2. QED
      BY <2>2, <2>3, <2>4, <2>5, <3>1 DEF Opened, Own
  <2>6. ASSUME NEW p \in Pids, NEW b \in BOOLEAN,
               processes[c][p] = None,
               processes'[c][p] = [status |-> "running", entity |-> e, monitored |-> b],
               \A q \in Pids \ {p} : processes'[c][q] = processes[c][q],
               \A d \in Clients \ {c} : processes'[d] = processes[d]
        PROVE  Opened'
    <3>1. Instances(e)' \subseteq Instances(e) \cup {p}
      BY <2>4, <2>6 DEF Instances, Alive, Own
    <3>2. ASSUME NEW f \in Entities \ {e}
          PROVE  Instances(f)' = Instances(f)
      BY <2>4, <2>6, <3>2 DEF Instances, Alive, Own
    <3>3. opening[c] = "started" => Instances(e) = {}
      BY <2>1 DEF Opened
    <3>4. QED
      BY <2>2, <2>3, <2>4, <2>6, <3>1, <3>2, <3>3 DEF Opened, Own
  <2>7. QED
    BY <2>1, <2>5, <2>6
<1>5. ASSUME NEW c \in Clients, NEW p \in Pids,
             ProcessDies(c, p, "running") \/ ProcessDies(c, p, "killed") \/ MonitorReport(c, p)
      PROVE  Opened'
  <2>1. UNCHANGED <<entityList, toLaunch, opening>>
    BY <1>5 DEF ProcessDies, MonitorReport, Unreported
  <2>2. /\ processes[c][p] # None
        /\ processes'[c][p] = None \/ processes'[c][p].status = "dead"
        /\ \A q \in Pids \ {p} : processes'[c][q] = processes[c][q]
        /\ \A d \in Clients \ {c} : processes'[d] = processes[d]
    BY <1>5, EndEffect
  <2>3. ASSUME NEW e \in Entities
        PROVE  Instances(e)' \subseteq Instances(e)
    BY <2>2, <2>3 DEF Instances, Alive
  <2>4. \A d \in Clients : opening[d] \in {"nothing", "ip"} => d # c
    BY <2>2 DEF Opened
  <2>5. QED
    BY <2>1, <2>2, <2>3, <2>4 DEF Opened, Own
<1>6. CASE UNCHANGED <<clientVars, processes>>
  BY <1>6 DEF Opened, Instances, Alive
<1>7. QED
  BY <1>1, <1>2, <1>3, <1>4, <1>5, <1>6, ClientFrame

-----------------------------------------------------------------------------
(* Types. *)

\* Taking a message from a socket, or sending one, leaves a sequence of messages.
LEMMA SocketTypes ==
    ASSUME NEW S, NEW M, NEW sockets \in [S -> Seq(M)], NEW c \in S
    PROVE  /\ \A m \in M : [sockets EXCEPT ![c] = Append(@, m)] \in [S -> Seq(M)]
           /\ sockets[c] # <<>> => /\ Head(sockets[c]) \in M
                                   /\ [sockets EXCEPT ![c] = Tail(@)] \in [S -> Seq(M)]
OBVIOUS

\* A function keeps its type when one value is replaced by another of the type.
LEMMA ExceptType ==
    ASSUME NEW S, NEW T, NEW f \in [S -> T], NEW c \in S, NEW v \in T
    PROVE  [f EXCEPT ![c] = v] \in [S -> T]
OBVIOUS

\* A message to a launcher leaves the types as they are.
LEMMA SentTypes ==
    ASSUME TypeOK, NEW c \in Clients, NEW m \in ServerMessages, SendToClient(c, m)
    PROVE  /\ toClient' \in [Clients -> Seq(ServerMessages)]
           /\ mixedToClient' \subseteq Clients
           /\ serverUp' \in BOOLEAN
<1>1. toClient' = [toClient EXCEPT ![c] = Append(@, m)] \/ UNCHANGED toClient
  BY DEF SendToClient, toClientVars
<1>2. serverUp' = FALSE \/ serverUp' = serverUp
  BY Zenon DEF SendToClient, ServerDies
<1>3. toClient' \in [Clients -> Seq(ServerMessages)]
  <2>1. toClient \in [Clients -> Seq(ServerMessages)]
    BY DEF TypeOK
  <2>2. [toClient EXCEPT ![c] = Append(@, m)] \in [Clients -> Seq(ServerMessages)]
    BY <2>1, SocketTypes
  <2>3. QED
    BY <1>1, <2>1, <2>2
<1>4. serverUp' \in BOOLEAN
  BY <1>2, Zenon DEF TypeOK
<1>5. mixedToClient' \subseteq Clients
  BY DEF SendToClient, toClientVars, TypeOK
<1>6. QED
  BY <1>3, <1>4, <1>5

\* Main, the proxies and the listen thread.
LEMMA ServerTypes ==
    ASSUME TypeOK, Descriptors, Proxies,
           MainStep \/ ListenStep \/ \E p \in ProxyPids : ProxyDies(p)
    PROVE  TypeOK'
<1> USE DEF signalVars, mainVars, listenVars, handlerVars, clientVars, toClientVars, toServerVars,
           TypeOK, HandlerPlaces
<1>1. CASE MainKillProxy
  BY <1>1 DEF MainKillProxy, Main, ServerDies, Signal!Begin, Signal!SignalTypeOK
<1>2. CASE MainRelaunchProxy
  <2> DEFINE left == [proxies EXCEPT ![proxyPid] = "none"]
  <2>1. left \in [ProxyPids -> {"none", "running", "killed", "dead"}]
    OBVIOUS
  <2>2. FreePid(left) \in ProxyPids
    BY NothingLeft, FreePidOfNone
  <2> HIDE DEF left
  <2>3. /\ proxies' \in [ProxyPids -> {"none", "running", "killed", "dead"}]
        /\ proxyPid' \in ProxyPids \cup {None}
    BY <1>2, <2>1, <2>2 DEF MainRelaunchProxy, left
  <2>4. mainPc' \in {"init", "launch", "wait", "reap", "send"} /\ targets' \in Seq(Clients)
    BY <1>2 DEF MainRelaunchProxy, Main
  <2>5. QED
    BY <1>2, <2>3, <2>4 DEF MainRelaunchProxy, Signal!SignalTypeOK
<1>3. CASE MainSendRestart
  <2>1. Head(targets) \in Clients /\ targets' \in Seq(Clients)
    BY <1>3 DEF MainSendRestart
  <2>2. /\ toClient' \in [Clients -> Seq(ServerMessages)]
        /\ mixedToClient' \subseteq Clients
        /\ serverUp' \in BOOLEAN
    BY <1>3, <2>1, SentTypes DEF MainSendRestart, ServerMessages
  <2>3. QED
    BY <1>3, <2>1, <2>2 DEF MainSendRestart, Main, Signal!SignalTypeOK
<1>4. CASE MainFinish
  BY <1>4 DEF MainFinish, Main, Signal!Finish, Signal!SignalTypeOK
<1>5. CASE ListenAccept
  <2>1. clientFd' \in Clients /\ backlog' \in Seq(Clients)
    BY <1>5 DEF ListenAccept
  <2>2. QED
    BY <1>5, <2>1 DEF ListenAccept, Listen, Signal!SignalTypeOK
<1>6. CASE ListenAcceptFails
  BY <1>6 DEF ListenAcceptFails, Listen, Signal!SignalTypeOK
<1>7. CASE ListenRegister
  <2>1. clientFd \in Clients
    BY <1>7 DEF ListenRegister, Listen, Descriptors
  <2>2. clientFdList' \in Seq(Clients) /\ clientList' \subseteq Clients
    BY <1>7, <2>1 DEF ListenRegister
  <2>3. handlerPc' \in [Clients -> HandlerPlaces]
    <3>1. PICK moved \in SUBSET Clients :
             LET left == [h \in Clients |-> IF h \in moved THEN "stale" ELSE handlerPc[h]] IN
             handlerPc' = left \/ handlerPc' = [left EXCEPT ![clientFd] = "read"]
      BY <1>7 DEF ListenRegister
    <3>2. QED
      BY <3>1
  <2>4. serverUp' \in BOOLEAN /\ listenPc' \in {"off", "accept", "register", "returned"}
    BY <1>7 DEF ListenRegister, Listen, ServerDies
  <2>5. QED
    BY <1>7, <2>2, <2>3, <2>4 DEF ListenRegister, Listen, Signal!SignalTypeOK
<1>8. CASE \E p \in ProxyPids : ProxyDies(p)
  BY <1>8 DEF ProxyDies, Signal!SignalTypeOK
<1>9. CASE MainListen
  BY <1>9 DEF MainListen, Main, Signal!SignalTypeOK
<1>10. CASE MainLaunchProxy
  <2>1. FreePid(proxies) \in ProxyPids
    BY <1>10, FreePidOfNone DEF MainLaunchProxy, Main, Proxies
  <2>2. /\ proxies' \in [ProxyPids -> {"none", "running", "killed", "dead"}]
        /\ proxyPid' \in ProxyPids \cup {None}
    BY <1>10, <2>1 DEF MainLaunchProxy
  <2>3. QED
    BY <1>10, <2>2 DEF MainLaunchProxy, Main, Signal!SignalTypeOK
<1>11. QED
  BY <1>1, <1>2, <1>3, <1>4, <1>5, <1>6, <1>7, <1>8, <1>9, <1>10 DEF MainStep, ListenStep

\* The handlers.
LEMMA HandlerTypes ==
    ASSUME TypeOK, Descriptors, NEW h \in Clients, HandlerStep(h)
    PROVE  TypeOK'
<1> USE DEF mainVars, listenVars, clientVars, signalVars, toClientVars, toServerVars,
           TypeOK, HandlerPlaces
<1>1. \A from, to : Handler(h, from, to) /\ to \in HandlerPlaces =>
          handlerPc' \in [Clients -> HandlerPlaces]
  BY DEF Handler
<1>2. CASE HandlerReadFd(h)
  BY <1>1, <1>2 DEF HandlerReadFd, Handler, Signal!SignalTypeOK
<1>3. CASE HandlerSendIp(h)
  <2>1. \/ \E d \in Clients, m \in ServerMessages : SendToClient(d, m)
        \/ UNCHANGED <<toClient, mixedToClient>> /\ ServerDies
    BY <1>3 DEF HandlerSendIp, ServerMessages
  <2>2. /\ toClient' \in [Clients -> Seq(ServerMessages)]
        /\ mixedToClient' \subseteq Clients
        /\ serverUp' \in BOOLEAN
    BY <2>1, SentTypes DEF ServerDies
  <2>3. handlerPc' \in [Clients -> HandlerPlaces]
    BY <1>1, <1>3 DEF HandlerSendIp
  <2>4. QED
    BY <1>3, <2>2, <2>3 DEF HandlerSendIp, Handler, Signal!SignalTypeOK
<1>4. CASE HandlerSendStart(h)
  <2>1. handlerFd[h] \in Clients /\ SendToClient(handlerFd[h], "START")
    BY <1>4 DEF HandlerSendStart, Handler, Descriptors
  <2>2. /\ toClient' \in [Clients -> Seq(ServerMessages)]
        /\ mixedToClient' \subseteq Clients
        /\ serverUp' \in BOOLEAN
    BY <2>1, SentTypes DEF ServerMessages
  <2>3. QED
    BY <1>1, <1>4, <2>2 DEF HandlerSendStart, Handler, Signal!SignalTypeOK
<1>5. CASE HandlerRecv(h)
  <2>1. toServer' \in [Clients -> Seq({"CRASH"})]
    BY <1>5, SocketTypes DEF HandlerRecv, Handler, Descriptors
  <2>2. QED
    BY <1>1, <1>5, <2>1 DEF HandlerRecv, Handler, Signal!SignalTypeOK
<1>6. CASE HandlerPost(h)
  BY <1>1, <1>6 DEF HandlerPost, Handler, Signal!Post, Signal!SignalTypeOK
<1>7. QED
  BY <1>2, <1>3, <1>4, <1>5, <1>6 DEF HandlerStep

\* The types of what client launchers leave alone when they take a message.
ServerPart ==
    /\ Signal!SignalTypeOK
    /\ serverUp \in BOOLEAN
    /\ mainPc \in {"init", "launch", "wait", "reap", "send"}
    /\ targets \in Seq(Clients)
    /\ proxies \in [ProxyPids -> {"none", "running", "killed", "dead"}]
    /\ proxyPid \in ProxyPids \cup {None}
    /\ listenPc \in {"off", "accept", "register", "returned"}
    /\ clientFd \in Clients \cup {None}
    /\ backlog \in Seq(Clients)
    /\ clientList \subseteq Clients
    /\ clientFdList \in Seq(Clients)
    /\ handlerPc \in [Clients -> HandlerPlaces]
    /\ handlerFd \in [Clients -> Clients \cup {None}]
    /\ toServer \in [Clients -> Seq({"CRASH"})]
    /\ mixedToClient \subseteq Clients
    /\ mixedToServer \subseteq Clients

\* What a launcher takes from its socket.
LEMMA TakeTypes ==
    ASSUME TypeOK, NEW c \in Clients, NEW m \in Received, ClientTakes(c, m)
    PROVE  /\ ServerPart'
           /\ toClient' \in [Clients -> Seq(ServerMessages)]
           /\ opening' \in [Clients -> Openings]
<1>1. toClient' \in [Clients -> Seq(ServerMessages)]
  BY SocketTypes DEF ClientTakes, TypeOK
<1>2. NextOpening(opening[c], m) \in Openings
  BY OpeningGoesOn DEF TypeOK
<1>3. opening' \in [Clients -> Openings]
  BY <1>2 DEF ClientTakes, TypeOK
<1>4. UNCHANGED <<signalVars, serverUp, mainVars, proxies, listenVars, handlerVars,
                  mixedToClient, toServerVars>>
  BY DEF ClientTakes
<1>5. ServerPart'
  BY ONLY TypeOK, <1>4
     DEF TypeOK, ServerPart, Signal!SignalTypeOK, mainVars, listenVars, handlerVars, signalVars,
         toServerVars, HandlerPlaces
<1>6. QED
  BY ONLY <1>1, <1>3, <1>5

\* A process that is killed or dies is a process still.
LEMMA StatusChange ==
    ASSUME NEW old \in Process, old # None, NEW s \in {"running", "killed", "dead"}
    PROVE  [old EXCEPT !.status = s] \in Process
<1>1. [old EXCEPT !.status = s]
          = [status |-> s, entity |-> old.entity, monitored |-> old.monitored]
  BY DEF Process
<1>2. old.entity \in Entities /\ old.monitored \in BOOLEAN
  BY DEF Process
<1>3. [status |-> s, entity |-> old.entity, monitored |-> old.monitored] \in Process
  BY <1>2 DEF Process
<1>4. QED
  BY <1>1, <1>3, Zenon

\* Putting one process in the place of another.
LEMMA ReplacedProcess ==
    ASSUME TypeOK, NEW c \in Clients, NEW p \in Pids, NEW new \in Process
    PROVE  [processes EXCEPT ![c][p] = new] \in [Clients -> [Pids -> Process]]
<1>1. [processes[c] EXCEPT ![p] = new] \in [Pids -> Process]
  BY DEF TypeOK
<1>2. [processes EXCEPT ![c] = [processes[c] EXCEPT ![p] = new]] \in [Clients -> [Pids -> Process]]
  BY <1>1 DEF TypeOK
<1>3. QED
  BY <1>2

\* What a launch does to the list of the launcher's processes.
LEMMA LaunchLists ==
    ASSUME NEW c \in Clients, ClientLaunch(c)
    PROVE  \E e \in toLaunch[c] :
              /\ toLaunch' = [toLaunch EXCEPT ![c] = @ \ {e}]
              /\ \/ \E p \in Pids, b \in BOOLEAN :
                      /\ processes' = [processes EXCEPT ![c][p] =
                                          [status |-> "running", entity |-> e, monitored |-> b]]
                      /\ processList' = [processList EXCEPT ![c] = @ \cup {p}]
                 \/ UNCHANGED <<processes, processList>>
BY DEF ClientLaunch

\* The client launchers.
LEMMA ClientTypes ==
    ASSUME TypeOK, NEW c \in Clients, ClientStep(c)
    PROVE  TypeOK'
<1> USE DEF mainVars, listenVars, handlerVars, clientVars, signalVars, toClientVars, toServerVars,
           TypeOK, HandlerPlaces
<1>1. CASE ClientConnect(c)
  <2>1. CASE /\ clientPc' = [clientPc EXCEPT ![c] = "ip"]
             /\ backlog' = Append(backlog, c)
    <3>1. clientPc' \in [Clients -> {"off", "ip", "loop", "gone"}] /\ backlog' \in Seq(Clients)
      BY <2>1
    <3>2. UNCHANGED <<requested, serving, pending, serverUp, mainPc, targets, proxies, proxyPid,
                      listenPc, clientFd, clientList, clientFdList, handlerPc, handlerFd, toClient,
                      mixedToClient, toServer, mixedToServer, entityList, toLaunch, processList, processes, opening>>
      BY <1>1 DEF ClientConnect
    <3>3. QED
      BY <3>1, <3>2 DEF Signal!SignalTypeOK
  <2>2. CASE /\ clientPc' = [clientPc EXCEPT ![c] = "gone"]
             /\ UNCHANGED backlog
    <3>1. clientPc' \in [Clients -> {"off", "ip", "loop", "gone"}]
      BY <2>2
    <3>2. QED
      BY <1>1, <2>2, <3>1 DEF ClientConnect, Signal!SignalTypeOK
  <2>3. QED
    BY <1>1, <2>1, <2>2 DEF ClientConnect
<1>2. CASE ClientSetEntities(c)
  <2>1. PICK m \in Received : ClientTakes(c, m)
    BY <1>2 DEF ClientSetEntities
  <2>2. /\ clientPc' \in [Clients -> {"off", "ip", "loop", "gone"}]
        /\ entityList' \in [Clients -> SUBSET Entities]
        /\ UNCHANGED <<toLaunch, processList, processes>>
    BY <1>2 DEF ClientSetEntities, Own
  <2>3. /\ ServerPart'
        /\ toClient' \in [Clients -> Seq(ServerMessages)]
        /\ opening' \in [Clients -> Openings]
    BY <2>1, TakeTypes
  <2>4. QED
    BY ONLY TypeOK, <2>2, <2>3 DEF TypeOK, ServerPart, HandlerPlaces
<1>3. CASE ClientReceive(c)
  <2>1. PICK m \in Received :
            /\ ClientTakes(c, m)
            /\ toLaunch' = [toLaunch EXCEPT ![c] = IF m \in {"START", "RESTART"}
                                                   THEN entityList[c] ELSE {}]
            /\ IF m = "RESTART"
               THEN /\ processes' = [processes EXCEPT ![c] = [p \in Pids |->
                         IF p \in processList[c] /\ Alive(c, p)
                         THEN [@[p] EXCEPT !.status = "killed"]
                         ELSE @[p]]]
                    /\ processList' = [processList EXCEPT ![c] = {}]
               ELSE UNCHANGED <<processes, processList>>
            /\ UNCHANGED <<clientPc, entityList>>
    BY <1>3 DEF ClientReceive
  <2>2. toLaunch' \in [Clients -> SUBSET Entities] /\ processList' \in [Clients -> SUBSET Pids]
    BY <2>1
  <2>3. ASSUME NEW p \in Pids, Alive(c, p)
        PROVE  [processes[c][p] EXCEPT !.status = "killed"] \in Process
    <3>1. processes[c][p] \in Process /\ processes[c][p] # None
      BY <2>3 DEF Alive
    <3>2. QED
      BY <3>1, StatusChange, Zenon
  <2>4. processes' \in [Clients -> [Pids -> Process]]
    <3> DEFINE killed == [p \in Pids |->
                    IF p \in processList[c] /\ Alive(c, p)
                    THEN [processes[c][p] EXCEPT !.status = "killed"]
                    ELSE processes[c][p]]
    <3>1. killed \in [Pids -> Process]
      BY <2>3
    <3>2. \/ processes' = [processes EXCEPT ![c] = killed]
          \/ UNCHANGED processes
      BY <2>1
    <3> HIDE DEF killed
    <3>3. QED
      BY <3>1, <3>2
  <2>5. /\ ServerPart'
        /\ toClient' \in [Clients -> Seq(ServerMessages)]
        /\ opening' \in [Clients -> Openings]
    BY <2>1, TakeTypes
  <2>6. UNCHANGED <<clientPc, entityList>>
    BY <2>1
  <2>7. QED
    BY ONLY TypeOK, <2>2, <2>4, <2>5, <2>6 DEF TypeOK, ServerPart, HandlerPlaces
<1>4. CASE ClientLaunch(c)
  <2>1. PICK e \in toLaunch[c] :
          /\ toLaunch' = [toLaunch EXCEPT ![c] = @ \ {e}]
          /\ \/ \E p \in Pids, b \in BOOLEAN :
                  /\ processes' = [processes EXCEPT ![c][p] =
                                      [status |-> "running", entity |-> e, monitored |-> b]]
                  /\ processList' = [processList EXCEPT ![c] = @ \cup {p}]
             \/ UNCHANGED <<processes, processList>>
    BY <1>4, LaunchLists
  <2>2. toLaunch' \in [Clients -> SUBSET Entities]
    <3>1. toLaunch[c] \ {e} \in SUBSET Entities
      OBVIOUS
    <3>2. QED
      BY <2>1, <3>1, ExceptType
  <2>3. ASSUME NEW p \in Pids, NEW b \in BOOLEAN
        PROVE  /\ [processes EXCEPT ![c][p] =
                       [status |-> "running", entity |-> e, monitored |-> b]]
                     \in [Clients -> [Pids -> Process]]
               /\ [processList EXCEPT ![c] = @ \cup {p}] \in [Clients -> SUBSET Pids]
    <3>1. [status |-> "running", entity |-> e, monitored |-> b] \in Process
      BY <2>1 DEF Process
    <3>2. processList[c] \cup {p} \in SUBSET Pids
      OBVIOUS
    <3>3. QED
      BY <3>1, <3>2, ReplacedProcess, ExceptType
  <2>4. processes' \in [Clients -> [Pids -> Process]] /\ processList' \in [Clients -> SUBSET Pids]
    <3>1. CASE UNCHANGED <<processes, processList>>
      BY <3>1
    <3>2. ASSUME NEW p \in Pids, NEW b \in BOOLEAN,
                 processes' = [processes EXCEPT ![c][p] =
                                  [status |-> "running", entity |-> e, monitored |-> b]],
                 processList' = [processList EXCEPT ![c] = @ \cup {p}]
          PROVE  /\ processes' \in [Clients -> [Pids -> Process]]
                 /\ processList' \in [Clients -> SUBSET Pids]
      BY <2>3, <3>2, Zenon
    <3>3. QED
      BY <2>1, <3>1, <3>2
  <2>5. clientPc' \in [Clients -> {"off", "ip", "loop", "gone"}]
    <3>1. clientPc' = [clientPc EXCEPT ![c] = "gone"] \/ UNCHANGED clientPc
      BY <1>4 DEF ClientLaunch
    <3>2. QED
      BY <3>1
  <2>6. QED
    BY <1>4, <2>2, <2>4, <2>5 DEF ClientLaunch, Signal!SignalTypeOK
<1>5. QED
  BY <1>1, <1>2, <1>3, <1>4 DEF ClientStep

\* Processes that end, and their monitor threads.
LEMMA ProcessTypes ==
    ASSUME TypeOK, NEW c \in Clients, NEW p \in Pids,
           ProcessDies(c, p, "running") \/ ProcessDies(c, p, "killed") \/ MonitorReport(c, p)
    PROVE  TypeOK'
<1> USE DEF mainVars, listenVars, handlerVars, clientVars, signalVars, toClientVars, toServerVars
<1>1. CASE ProcessDies(c, p, "running") \/ ProcessDies(c, p, "killed")
  <2> DEFINE dead == [processes[c][p] EXCEPT !.status = "dead"]
  <2>1. dead \in Process
    <3>1. processes[c][p] \in Process /\ processes[c][p] # None
      BY <1>1 DEF ProcessDies, TypeOK
    <3>2. QED
      BY <3>1, StatusChange, Zenon
  <2>2. processes' = [processes EXCEPT ![c][p] = dead]
    BY <1>1 DEF ProcessDies
  <2> HIDE DEF dead
  <2>3. processes' \in [Clients -> [Pids -> Process]]
    BY <2>1, <2>2, ReplacedProcess
  <2>4. QED
    BY <1>1, <2>3 DEF ProcessDies, TypeOK, Signal!SignalTypeOK
<1>2. CASE MonitorReport(c, p)
  <2>1. processes' \in [Clients -> [Pids -> Process]]
    BY <1>2, ReplacedProcess DEF MonitorReport, Unreported, Process
  <2>2. toServer' \in [Clients -> Seq({"CRASH"})]
    <3>1. toServer' = [toServer EXCEPT ![c] = Append(@, "CRASH")] \/ UNCHANGED toServer
      BY <1>2 DEF MonitorReport, Unreported
    <3>2. toServer \in [Clients -> Seq({"CRASH"})]
      BY DEF TypeOK
    <3>3. [toServer EXCEPT ![c] = Append(@, "CRASH")] \in [Clients -> Seq({"CRASH"})]
      BY <3>2, SocketTypes
    <3>4. QED
      BY <3>1, <3>2, <3>3
  <2>3. clientPc' \in [Clients -> {"off", "ip", "loop", "gone"}]
    <3>1. clientPc' = [clientPc EXCEPT ![c] = "gone"] \/ UNCHANGED clientPc
      BY <1>2 DEF MonitorReport, Unreported
    <3>2. QED
      BY <3>1 DEF TypeOK
  <2>4. mixedToServer' \subseteq Clients
    BY <1>2 DEF MonitorReport, Unreported, TypeOK
  <2>5. QED
    BY <1>2, <2>1, <2>2, <2>3, <2>4 DEF MonitorReport, Unreported, TypeOK, Signal!SignalTypeOK
<1>3. QED
  BY <1>1, <1>2

-----------------------------------------------------------------------------
(* The theorems. *)

\* Every step keeps the invariant.
LEMMA InvStep == Inv /\ [Next]_vars => Inv'
<1> SUFFICES ASSUME Inv, [Next]_vars
             PROVE  Inv'
  OBVIOUS
<1>1. TypeOK'
  <2>1. CASE UNCHANGED vars
    BY <2>1 DEF Inv, TypeOK, vars, mainVars, listenVars, handlerVars, clientVars, signalVars,
                toClientVars, toServerVars, Signal!SignalTypeOK
  <2>2. QED
    BY <2>1, ServerTypes, HandlerTypes, ClientTypes, ProcessTypes DEF Inv, Next
<1>2. Descriptors' /\ Proxies'
  BY DescriptorsStep, ProxiesStep DEF Inv
<1>3. Launched' /\ Opened'
  BY LaunchedStep, OpenedStep DEF Inv
<1>4. QED
  BY <1>1, <1>2, <1>3 DEF Inv

\* A set whose elements are all the same has one of them at most.
LEMMA AtMostOne ==
    ASSUME NEW S, \A p, q \in S : p = q
    PROVE  Cardinality(S) <= 1
<1>1. CASE S = {}
  BY <1>1, FS_EmptySet
<1>2. ASSUME NEW p \in S
      PROVE  Cardinality(S) <= 1
  <2>1. S = {p}
    BY <1>2
  <2>2. Cardinality(S) = 1
    BY <2>1, FS_Singleton
  <2>3. QED
    BY <2>2
<1>3. QED
  BY <1>1, <1>2

\* The invariants of the runs follow.
LEMMA InvImplies == Inv => TypeOK /\ OneProxy /\ NoOrphan /\ OneInstance
<1> SUFFICES ASSUME Inv
             PROVE  OneProxy /\ NoOrphan /\ OneInstance
  BY DEF Inv
<1>1. OneProxy
  BY AtMostOne DEF Inv, Proxies, OneProxy
<1>2. NoOrphan
  BY DEF Inv, Launched, NoOrphan
<1>3. OneInstance
  <2> SUFFICES ASSUME NEW e \in Entities, opening[Home[e]] \in AsDue
               PROVE  Cardinality(Instances(e)) <= 1
    BY DEF OneInstance
  <2>1. Home[e] \in Clients /\ e \in Own(Home[e])
    BY LauncherAssumption DEF Own
  <2>2. CASE opening[Home[e]] = "started"
    BY <2>1, <2>2, AtMostOne DEF Inv, Opened
  <2>3. CASE opening[Home[e]] \in {"nothing", "ip"}
    <3>1. Instances(e) = {}
      BY <2>1, <2>3 DEF Inv, Opened, Instances, Alive
    <3>2. QED
      BY <3>1, FS_EmptySet
  <2>4. QED
    BY <2>2, <2>3 DEF AsDue
<1>4. QED
  BY <1>1, <1>2, <1>3

\* The invariant holds in every state that the launchers reach.
LEMMA Invariance == Spec => []Inv
BY InitInv, InvStep, PTL DEF Spec

\* Every variable of the launchers keeps its type: in particular the sockets
\* carry only messages the receiver knows or takes for its IP.
THEOREM LauncherTypeCorrect == Spec => []TypeOK
BY Invariance, InvImplies, PTL

\* Two proxies never run side by side, however the proxy crashes and whichever
\* fork of the next one fails: main launches one only where it has reaped the
\* last (Server.cpp:280-282).
THEOREM NoTwoProxies == Spec => []OneProxy
BY Invariance, InvImplies, PTL

\* Every process that runs is named in processList, so that the next RESTART
\* kills it (Client.cpp:123-139).
THEOREM NoOrphans == Spec => []NoOrphan
BY Invariance, InvImplies, PTL

\* An entity runs once at a time while its launcher is sent an IP, a START and
\* then RESTARTs, however its processes die and its forks fail.
THEOREM InstancesAreSingle == Spec => []OneInstance
BY Invariance, InvImplies, PTL

-----------------------------------------------------------------------------
(* The dialogue with a client launcher. *)

\* No handler but its own has the socket of client c.
OnlyOwn(c) == \A h \in Clients : handlerFd[h] = c => h = c

\* What handler c has sent to client c.
SentIp(c) == handlerFd[c] = c /\ handlerPc[c] \in {"start", "recv", "post"}
SentStart(c) == handlerFd[c] = c /\ handlerPc[c] \in {"recv", "post"}

\* A launcher connects once, and is registered once.
Waiting(c) ==
    \/ \E i \in 1..Len(backlog) : backlog[i] = c
    \/ listenPc = "register" /\ clientFd = c

Registered ==
    /\ \A i, j \in 1..Len(backlog) : backlog[i] = backlog[j] => i = j
    /\ listenPc = "register" => \A i \in 1..Len(backlog) : backlog[i] # clientFd
    /\ \A c \in Clients :
        /\ handlerPc[c] \in {"none", "read"} => handlerFd[c] = None
        /\ Waiting(c) => handlerPc[c] = "none"
        /\ clientPc[c] = "off" => ~Waiting(c) /\ handlerPc[c] = "none"

\* What a handler sends for the IP is one, or junk, or what it read in freed memory.
Kind(m) == IF m \in {"JUNK", "FREED"} THEN "IP" ELSE m

\* What is on its way to a client, when this is how its dialogue began, its
\* handler has sent the IP (ip) and the START (start), and the server is up: an
\* IP and a START, once each and in this order, and any number of RESTARTs.
Dialogue(q, stage, ip, start, up) ==
    /\ stage # "twice"
    /\ stage \in AsDue =>
        /\ \A i, j \in 1..Len(q) : Kind(q[i]) = Kind(q[j]) /\ Kind(q[i]) # "RESTART" => i = j
        /\ \A i \in 1..Len(q) : Kind(q[i]) = "IP" => ip /\ stage = "nothing"
        /\ \A i \in 1..Len(q) : Kind(q[i]) = "START" =>
              /\ start
              /\ stage = "ip" \/ (stage = "nothing" /\ \E j \in 1..(i - 1) : Kind(q[j]) = "IP")
        /\ stage = "nothing" /\ ip /\ up => \E i \in 1..Len(q) : Kind(q[i]) = "IP"
        /\ stage # "nothing" => ip
        /\ stage = "started" => start
        /\ start => ip

\* The dialogue of a client that no handler but its own serves.
Told(c) ==
    OnlyOwn(c) =>
        /\ opening[c] # "twice"
        /\ clientPc[c] # "gone" =>
              Dialogue(toClient[c], opening[c], SentIp(c), SentStart(c), serverUp)

\* The messages behind the first one.
LEMMA TailOf ==
    ASSUME NEW M, NEW q \in Seq(M), q # <<>>
    PROVE  /\ Len(q) \in Nat /\ 1 \in 1..Len(q) /\ q[1] = Head(q)
           /\ Len(Tail(q)) = Len(q) - 1
           /\ \A i \in 1..Len(Tail(q)) : i + 1 \in 1..Len(q) /\ Tail(q)[i] = q[i + 1]
           /\ \A i \in 1..Len(q) : i # 1 => i - 1 \in 1..Len(Tail(q)) /\ Tail(q)[i - 1] = q[i]
<1>1. Len(q) \in Nat /\ Len(q) # 0 /\ Head(q) = q[1]
  BY LenProperties, EmptySeq
<1>2. Len(Tail(q)) = Len(q) - 1 /\ \A i \in 1..Len(Tail(q)) : Tail(q)[i] = q[i + 1]
  BY HeadTailProperties
<1> DEFINE L == Len(q)
           t == Tail(q)
<1> HIDE DEF L, t
<1>3. \A i \in 1..(L - 1) : i + 1 \in 1..L
  BY <1>1 DEF L
<1>4. \A i \in 1..L : i # 1 => i - 1 \in 1..(L - 1) /\ (i - 1) + 1 = i
  BY <1>1 DEF L
<1>5. 1 \in 1..L
  BY <1>1 DEF L
<1>6. Len(t) = L - 1 /\ \A i \in 1..Len(t) : t[i] = q[i + 1]
  BY <1>2 DEF L, t
<1>7. \A i \in 1..Len(t) : i + 1 \in 1..L /\ t[i] = q[i + 1]
  BY ONLY <1>3, <1>6, Zenon
<1>8. \A i \in 1..L : i # 1 => i - 1 \in 1..Len(t) /\ t[i - 1] = q[i]
  BY ONLY <1>4, <1>6, Zenon
<1>9. QED
  BY <1>1, <1>2, <1>5, <1>7, <1>8, Zenon DEF L, t

\* The messages with one more at the end.
LEMMA AppendOf ==
    ASSUME NEW M, NEW q \in Seq(M), NEW m \in M
    PROVE  LET L == Len(q)
               z == Append(q, m)
           IN  /\ L \in Nat /\ Len(z) = L + 1
               /\ \A i \in 1..L : i \in 1..Len(z) /\ i # L + 1 /\ z[i] = q[i]
               /\ \A i \in 1..Len(z) : i # L + 1 => i \in 1..L
               /\ L + 1 \in 1..Len(z) /\ z[L + 1] = m
<1> DEFINE L == Len(q)
           z == Append(q, m)
<1>1. L \in Nat /\ Len(z) = L + 1 /\ z[L + 1] = m /\ \A i \in 1..L : z[i] = q[i]
  BY AppendProperties, LenProperties
<1> HIDE DEF L, z
<1>2. /\ \A i \in 1..L : i \in 1..(L + 1) /\ i # L + 1
      /\ \A i \in 1..(L + 1) : i # L + 1 => i \in 1..L
      /\ L + 1 \in 1..(L + 1)
  BY ONLY <1>1
<1>3. QED
  BY <1>1, <1>2, Zenon DEF L, z

\* A client takes the next message: the dialogue goes on as it should.
LEMMA DialogueTakes ==
    ASSUME NEW q \in Seq(ServerMessages), q # <<>>, NEW stage \in Openings,
           NEW m \in Received, m = Head(q) \/ m = "MIXED",
           NEW ip, NEW start, NEW up, Dialogue(q, stage, ip, start, up)
    PROVE  Dialogue(Tail(q), NextOpening(stage, m), ip, start, up)
<1> DEFINE L == Len(q)
           T == Len(Tail(q))
           t == Tail(q)
           new == NextOpening(stage, m)
<1>1. CASE stage \notin AsDue
  <2>1. new = stage
    BY <1>1 DEF NextOpening
  <2>2. stage # "twice"
    BY Zenon DEF Dialogue
  <2>3. QED
    BY <1>1, <2>1, <2>2, Zenon DEF Dialogue
<1>2. CASE stage \in AsDue /\ m \in {"JUNK", "FREED", "MIXED"}
  <2>1. new \notin AsDue /\ new # "twice"
    BY <1>2 DEF NextOpening, AsDue
  <2>2. QED
    BY <2>1, Zenon DEF Dialogue
<1>3. CASE stage \in AsDue /\ m \in {"IP", "START", "RESTART"}
  <2>0. m = Head(q) /\ Kind(m) = m
    BY <1>3 DEF Kind
  <2>1. 1 \in 1..L /\ q[1] = m
    BY <2>0, TailOf
  <2>2. \A i \in 1..T : i + 1 \in 1..L /\ i + 1 # 1 /\ t[i] = q[i + 1]
    <3>1. L \in Nat /\ T = L - 1 /\ \A i \in 1..T : i + 1 \in 1..L /\ t[i] = q[i + 1]
      BY TailOf
    <3> HIDE DEF t, T, L
    <3>2. \A i \in 1..T : i + 1 # 1
      BY <3>1
    <3>3. QED
      BY <3>1, <3>2, Zenon
  <2>3. \A i \in 1..L : i # 1 => i - 1 \in 1..T /\ t[i - 1] = q[i]
    BY TailOf
  <2>4. \A i, j \in 1..T : i + 1 = j + 1 => i = j
    <3>1. T \in Nat
      BY HeadTailProperties, LenProperties
    <3> HIDE DEF T
    <3>2. QED
      BY <3>1
  <2>6. \A i, j \in 1..L : Kind(q[i]) = Kind(q[j]) /\ Kind(q[i]) # "RESTART" => i = j
    BY <1>3, Zenon DEF Dialogue
  <2>7. \A i \in 1..L : Kind(q[i]) = "IP" => ip /\ stage = "nothing"
    BY <1>3, Zenon DEF Dialogue
  <2>8. \A i \in 1..L : Kind(q[i]) = "START" =>
              /\ start
              /\ stage = "ip" \/ (stage = "nothing" /\ \E j \in 1..(i - 1) : Kind(q[j]) = "IP")
    BY <1>3, Zenon DEF Dialogue
  <2>10. (stage # "nothing" => ip) /\ (stage = "started" => start) /\ (start => ip)
    BY <1>3, Zenon DEF Dialogue
  <2> HIDE DEF t, T, L
  <2>12. \A i, j \in 1..T : Kind(t[i]) = Kind(t[j]) /\ Kind(t[i]) # "RESTART" => i = j
    BY ONLY <2>2, <2>4, <2>6, Zenon
  <2>14. ASSUME m # "RESTART" PROVE \A i \in 1..T : Kind(t[i]) # m
    <3>1. ASSUME NEW k \in 1..L, k # 1 PROVE Kind(q[k]) # m
      BY ONLY <2>0, <2>1, <2>6, <2>14, <3>1, Zenon
    <3>2. QED
      BY ONLY <2>2, <3>1, Zenon
  <2>15. \A i \in 1..T : Kind(t[i]) = "IP" => ip /\ stage = "nothing"
    BY ONLY <2>2, <2>7, Zenon
  <2>16. \A i \in 1..T : Kind(t[i]) = "START" => start /\ stage \in {"nothing", "ip"}
    BY ONLY <2>2, <2>8, Zenon
  <2>17. CASE m = "RESTART" /\ stage \in {"nothing", "ip"}
    <3>1. new = "early" /\ "early" \notin AsDue
      BY <2>17 DEF NextOpening, AsDue
    <3>2. QED
      BY <3>1, Zenon DEF Dialogue
  <2>18. CASE m = "RESTART" /\ stage = "started"
    <3>1. new = "started"
      BY <2>18 DEF NextOpening, AsDue
    <3>2. \A i \in 1..T : Kind(t[i]) # "IP" /\ Kind(t[i]) # "START"
      BY <2>15, <2>16, <2>18
    <3>3. Dialogue(t, "started", ip, start, up)
      BY <2>10, <2>12, <2>18, <3>2, Zenon DEF Dialogue, T, t
    <3>4. QED
      BY <3>1, <3>3, Zenon DEF t
  <2>19. CASE m = "IP"
    <3>1. stage = "nothing" /\ ip
      BY ONLY <2>0, <2>1, <2>7, <2>19, Zenon
    <3>2. new = "ip"
      BY <2>19, <3>1 DEF NextOpening, AsDue
    <3>3. \A i \in 1..T : Kind(t[i]) # "IP"
      BY <2>14, <2>19, Zenon
    <3>4. \A i \in 1..T : Kind(t[i]) = "START" => start
      BY <2>16, Zenon
    <3>5. Dialogue(t, "ip", ip, start, up)
      BY <2>10, <2>12, <3>1, <3>3, <3>4, Zenon DEF Dialogue, T, t
    <3>6. QED
      BY <3>2, <3>5, Zenon DEF t
  <2>20. CASE m = "START"
    <3>1. start /\ stage = "ip"
      <4>1. ~\E j \in 1..(1 - 1) : Kind(q[j]) = "IP"
        OBVIOUS
      <4>2. QED
        BY ONLY <2>0, <2>1, <2>8, <2>20, <4>1, Zenon
    <3>2. new = "started"
      BY <2>20, <3>1 DEF NextOpening, AsDue
    <3>3. \A i \in 1..T : Kind(t[i]) # "START"
      BY <2>14, <2>20, Zenon
    <3>4. \A i \in 1..T : Kind(t[i]) # "IP"
      BY <2>15, <3>1
    <3>5. Dialogue(t, "started", ip, start, up)
      BY <2>10, <2>12, <3>1, <3>3, <3>4, Zenon DEF Dialogue, T, t
    <3>6. QED
      BY <3>2, <3>5, Zenon DEF t
  <2>22. QED
    BY <1>3, <2>17, <2>18, <2>19, <2>20, Zenon DEF t, AsDue
<1>4. QED
  BY <1>1, <1>2, <1>3 DEF Received, ServerMessages

\* Main sends a RESTART, whenever it comes.
LEMMA DialogueRestart ==
    ASSUME NEW q \in Seq(ServerMessages), NEW stage, NEW ip, NEW start, NEW up,
           Dialogue(q, stage, ip, start, up)
    PROVE  Dialogue(Append(q, "RESTART"), stage, ip, start, up)
<1> DEFINE L == Len(q)
           z == Append(q, "RESTART")
<1>1. /\ L \in Nat /\ Len(z) = L + 1
      /\ \A i \in 1..L : i \in 1..Len(z) /\ i # L + 1 /\ z[i] = q[i]
      /\ \A i \in 1..Len(z) : i # L + 1 => i \in 1..L
      /\ L + 1 \in 1..Len(z) /\ Kind(z[L + 1]) = "RESTART"
  BY AppendOf DEF ServerMessages, Kind
<1> HIDE DEF z
<1>2. CASE stage \in AsDue
  <2>1. stage # "twice"
    BY <1>2, Zenon DEF Dialogue
  <2>2. \A i, j \in 1..L : Kind(q[i]) = Kind(q[j]) /\ Kind(q[i]) # "RESTART" => i = j
    BY <1>2, Zenon DEF Dialogue
  <2>3. \A i \in 1..L : Kind(q[i]) = "IP" => ip /\ stage = "nothing"
    BY <1>2, Zenon DEF Dialogue
  <2>4. \A i \in 1..L : Kind(q[i]) = "START" =>
              /\ start
              /\ stage = "ip" \/ (stage = "nothing" /\ \E j \in 1..(i - 1) : Kind(q[j]) = "IP")
    BY <1>2, Zenon DEF Dialogue
  <2>5. stage = "nothing" /\ ip /\ up => \E i \in 1..L : Kind(q[i]) = "IP"
    BY <1>2, Zenon DEF Dialogue
  <2>6. (stage # "nothing" => ip) /\ (stage = "started" => start) /\ (start => ip)
    BY <1>2, Zenon DEF Dialogue
  <2> HIDE DEF L
  <2>7. \A i \in 1..L : \A j \in 1..(i - 1) : j \in 1..L
    BY ONLY <1>1
  <2>8. \A i \in 1..Len(z) : Kind(z[i]) # "RESTART" => i \in 1..L /\ z[i] = q[i]
    BY ONLY <1>1, Zenon
  <2>9. "IP" # "RESTART" /\ "START" # "RESTART"
    OBVIOUS
  <2>10. \A i, j \in 1..Len(z) : Kind(z[i]) = Kind(z[j]) /\ Kind(z[i]) # "RESTART" => i = j
    BY ONLY <2>2, <2>8, Zenon
  <2>11. \A i \in 1..Len(z) : Kind(z[i]) = "IP" => ip /\ stage = "nothing"
    BY ONLY <2>3, <2>8, <2>9, Zenon
  <2>12. ASSUME NEW i \in 1..Len(z), Kind(z[i]) = "START"
         PROVE  /\ start
                /\ stage = "ip" \/ (stage = "nothing" /\ \E j \in 1..(i - 1) : Kind(z[j]) = "IP")
    <3>1. i \in 1..L /\ Kind(q[i]) = "START"
      BY ONLY <2>8, <2>9, <2>12, Zenon
    <3>2. CASE stage = "nothing" /\ \E j \in 1..(i - 1) : Kind(q[j]) = "IP"
      <4>1. PICK j \in 1..(i - 1) : Kind(q[j]) = "IP"
        BY <3>2
      <4>2. Kind(z[j]) = "IP"
        BY ONLY <1>1, <2>7, <3>1, <4>1, Zenon
      <4>3. QED
        BY ONLY <2>4, <3>1, <3>2, <4>1, <4>2, Zenon
    <3>3. QED
      BY ONLY <2>4, <3>1, <3>2, Zenon
  <2>13. stage = "nothing" /\ ip /\ up => \E i \in 1..Len(z) : Kind(z[i]) = "IP"
    BY ONLY <1>1, <2>5, Zenon
  <2>14. QED
    BY <2>1, <2>6, <2>10, <2>11, <2>12, <2>13, Zenon DEF Dialogue, z
<1>3. QED
  BY <1>2, Zenon DEF Dialogue, z

\* The handler sends the IP, or what it takes for it, which it has not sent before.
LEMMA DialogueIp ==
    ASSUME NEW q \in Seq(ServerMessages), NEW stage, NEW up,
           NEW m \in {"IP", "JUNK", "FREED"}, Dialogue(q, stage, FALSE, FALSE, up)
    PROVE  Dialogue(Append(q, m), stage, TRUE, FALSE, up)
<1> DEFINE L == Len(q)
           z == Append(q, m)
<1>1. /\ L \in Nat /\ Len(z) = L + 1
      /\ \A i \in 1..L : i \in 1..Len(z) /\ i # L + 1 /\ z[i] = q[i]
      /\ \A i \in 1..Len(z) : i # L + 1 => i \in 1..L
      /\ L + 1 \in 1..Len(z) /\ Kind(z[L + 1]) = "IP"
  BY AppendOf DEF ServerMessages, Kind
<1> HIDE DEF z
<1>2. CASE stage \in AsDue
  <2>1. stage = "nothing"
    BY <1>2, Zenon DEF Dialogue
  <2>2. \A i \in 1..L : Kind(q[i]) # "IP" /\ Kind(q[i]) # "START"
    BY <1>2, Zenon DEF Dialogue, L
  <2>3. \A i, j \in 1..L : Kind(q[i]) = Kind(q[j]) /\ Kind(q[i]) # "RESTART" => i = j
    BY <1>2, Zenon DEF Dialogue, L
  <2>4. \A i \in 1..Len(z) : Kind(z[i]) # "START" /\ (Kind(z[i]) = "IP" => i = L + 1)
    BY <1>1, <2>2
  <2>5. \A i, j \in 1..Len(z) : Kind(z[i]) = Kind(z[j]) /\ Kind(z[i]) # "RESTART" => i = j
    BY <1>1, <2>3, <2>4, Zenon
  <2>6. QED
    BY <1>1, <1>2, <2>1, <2>4, <2>5, Zenon DEF Dialogue, z
<1>3. QED
  BY <1>2, Zenon DEF Dialogue, z

\* Then the START, which comes behind the IP, if that has not been taken yet.
LEMMA DialogueStart ==
    ASSUME NEW q \in Seq(ServerMessages), NEW stage \in Openings,
           Dialogue(q, stage, TRUE, FALSE, TRUE)
    PROVE  Dialogue(Append(q, "START"), stage, TRUE, TRUE, TRUE)
<1> DEFINE L == Len(q)
           z == Append(q, "START")
<1>1. /\ L \in Nat /\ Len(z) = L + 1
      /\ \A i \in 1..L : i \in 1..Len(z) /\ i # L + 1 /\ z[i] = q[i]
      /\ \A i \in 1..Len(z) : i # L + 1 => i \in 1..L
      /\ L + 1 \in 1..Len(z) /\ Kind(z[L + 1]) = "START"
  BY AppendOf DEF ServerMessages, Kind
<1> HIDE DEF z
<1>2. CASE stage \in AsDue
  <2>1. stage \in {"nothing", "ip"}
    BY <1>2, Zenon DEF Dialogue, AsDue
  <2>2. /\ \A i \in 1..L : Kind(q[i]) # "START"
        /\ \A i \in 1..L : Kind(q[i]) = "IP" => stage = "nothing"
        /\ stage = "nothing" => \E i \in 1..L : Kind(q[i]) = "IP"
    BY <1>2, Zenon DEF Dialogue, L
  <2>3. \A i, j \in 1..L : Kind(q[i]) = Kind(q[j]) /\ Kind(q[i]) # "RESTART" => i = j
    BY <1>2, Zenon DEF Dialogue, L
  <2>4. \A i \in 1..Len(z) : /\ Kind(z[i]) = "START" => i = L + 1
                             /\ Kind(z[i]) = "IP" => stage = "nothing"
    BY <1>1, <2>2
  <2>5. \A i, j \in 1..Len(z) : Kind(z[i]) = Kind(z[j]) /\ Kind(z[i]) # "RESTART" => i = j
    BY <1>1, <2>3, <2>4, Zenon
  <2>6. stage = "nothing" => \E j \in 1..((L + 1) - 1) : Kind(z[j]) = "IP"
    <3>1. (L + 1) - 1 = L
      BY ONLY <1>1
    <3>2. QED
      BY ONLY <1>1, <2>2, <3>1, Zenon
  <2>7. \A i \in 1..Len(z) : Kind(z[i]) = "START" =>
           (stage = "ip" \/ (stage = "nothing" /\ \E j \in 1..(i - 1) : Kind(z[j]) = "IP"))
    BY ONLY <2>1, <2>4, <2>6, Zenon
  <2>8. stage = "nothing" => \E i \in 1..Len(z) : Kind(z[i]) = "IP"
    BY ONLY <1>1, <2>2, Zenon
  <2>9. QED
    BY <1>2, <2>1, <2>4, <2>5, <2>7, <2>8, Zenon DEF Dialogue, z
<1>3. QED
  BY <1>2, Zenon DEF Dialogue, z

\* When the server dies what it was about to send does not matter.
LEMMA DialogueDown ==
    ASSUME NEW q, NEW stage, NEW ip, NEW start, NEW up, NEW ip2, NEW start2,
           Dialogue(q, stage, ip, start, up), ip => ip2, start => start2, start2 => ip2
    PROVE  Dialogue(q, stage, ip2, start2, FALSE)
BY Zenon DEF Dialogue

-----------------------------------------------------------------------------
(* Connections and handlers. *)

\* What waits to be registered is left alone by all but those who connect,
\* listen, and handle; a launcher that has connected stays so.
LEMMA ServingFrame ==
    ASSUME TypeOK, [Next]_vars
    PROVE  \/ ListenStep
           \/ \E h \in Clients : HandlerReadFd(h)
           \/ \E h \in Clients, from \in {"ip", "stale", "start", "recv", "post"},
                 to \in {"start", "recv", "post"} :
                 Handler(h, from, to) /\ handlerFd' = handlerFd
           \/ \E c \in Clients : ClientConnect(c)
           \/ /\ UNCHANGED <<backlog, clientFd, clientList, handlerPc, handlerFd>>
              /\ listenPc' = "register" => listenPc = "register"
              /\ \A c \in Clients : clientPc'[c] = "off" => clientPc[c] = "off"
<1> USE DEF signalVars, mainVars, listenVars, handlerVars, clientVars, toClientVars, toServerVars
<1>1. CASE MainStep
  BY <1>1 DEF MainStep, MainListen, MainLaunchProxy, MainKillProxy, MainRelaunchProxy,
              MainSendRestart, MainFinish
<1>2. CASE \E p \in ProxyPids : ProxyDies(p)
  BY <1>2 DEF ProxyDies
<1>3. ASSUME NEW h \in Clients, HandlerStep(h)
      PROVE  \/ HandlerReadFd(h)
             \/ \E from \in {"ip", "stale", "start", "recv", "post"},
                   to \in {"start", "recv", "post"} :
                   Handler(h, from, to) /\ handlerFd' = handlerFd
  BY <1>3 DEF HandlerStep, HandlerSendIp, HandlerSendStart, HandlerRecv, HandlerPost
<1>4. ASSUME NEW c \in Clients, ClientStep(c)
      PROVE  \/ ClientConnect(c)
             \/ /\ UNCHANGED <<listenVars, handlerVars>>
                /\ \A d \in Clients : clientPc'[d] = "off" => clientPc[d] = "off"
  <2>1. CASE ClientSetEntities(c)
    BY <2>1 DEF ClientSetEntities, ClientTakes, TypeOK
  <2>2. CASE ClientReceive(c)
    BY <2>2 DEF ClientReceive, ClientTakes
  <2>3. CASE ClientLaunch(c)
    BY <2>3 DEF ClientLaunch, TypeOK
  <2>4. QED
    BY <1>4, <2>1, <2>2, <2>3 DEF ClientStep
<1>5. ASSUME NEW c \in Clients, NEW p \in Pids,
             ProcessDies(c, p, "running") \/ ProcessDies(c, p, "killed") \/ MonitorReport(c, p)
      PROVE  /\ UNCHANGED <<listenVars, handlerVars>>
             /\ \A d \in Clients : clientPc'[d] = "off" => clientPc[d] = "off"
  BY <1>5 DEF ProcessDies, MonitorReport, Unreported, TypeOK
<1>6. CASE UNCHANGED vars
  BY <1>6 DEF vars
<1>7. QED
  BY <1>1, <1>2, <1>3, <1>4, <1>5, <1>6 DEF Next

\* Accepting takes the first connection from those that wait.
LEMMA AcceptTakesFirst ==
    ASSUME TypeOK, Registered, ListenAccept
    PROVE  /\ \A i, j \in 1..Len(backlog') : backlog'[i] = backlog'[j] => i = j
           /\ \A i \in 1..Len(backlog') : backlog'[i] # clientFd'
           /\ \A c \in Clients : Waiting(c)' => Waiting(c)
<1> DEFINE B == Len(backlog)
           T == Len(Tail(backlog))
           t == Tail(backlog)
<1>1. backlog \in Seq(Clients) /\ backlog # <<>> /\ backlog' = t /\ clientFd' = Head(backlog)
  BY DEF TypeOK, ListenAccept
<1>2. 1 \in 1..B /\ backlog[1] = Head(backlog) /\ B \in Nat /\ T = B - 1
  BY <1>1, TailOf
<1>3. \A i \in 1..T : i + 1 \in 1..B /\ t[i] = backlog[i + 1]
  BY <1>1, TailOf
<1>4. \A i, j \in 1..B : backlog[i] = backlog[j] => i = j
  BY Zenon DEF Registered
<1>5. \A c \in Clients : (\E i \in 1..B : backlog[i] = c) => Waiting(c)
  BY Zenon DEF Waiting
<1>6. \A c \in Clients : Waiting(c)' => clientFd' = c \/ \E i \in 1..Len(backlog') : backlog'[i] = c
  BY Zenon DEF Waiting
<1> HIDE DEF B, T, t
<1>7. Len(backlog') = T
  BY <1>1 DEF T, t
<1>8. \A i \in 1..T : i + 1 # 1
  BY ONLY <1>2
<1>9. \A i, j \in 1..T : i + 1 = j + 1 => i = j
  BY ONLY <1>2
<1>10. \A i, j \in 1..T : t[i] = t[j] => i = j
  BY ONLY <1>3, <1>4, <1>9, Zenon
<1>11. \A i \in 1..T : t[i] # Head(backlog)
  BY ONLY <1>2, <1>3, <1>4, <1>8, Zenon
<1>12. \A c \in Clients : Waiting(c)' => Waiting(c)
  <2> SUFFICES ASSUME NEW c \in Clients, Waiting(c)' PROVE \E i \in 1..B : backlog[i] = c
    BY <1>5
  <2>1. Head(backlog) = c \/ \E i \in 1..T : t[i] = c
    BY <1>1, <1>6, <1>7
  <2>2. QED
    BY ONLY <1>2, <1>3, <2>1, Zenon
<1>13. QED
  BY ONLY <1>1, <1>7, <1>10, <1>11, <1>12, Zenon

\* Connecting adds one that did not wait.
LEMMA ConnectAddsLast ==
    ASSUME TypeOK, Registered, NEW c \in Clients, ClientConnect(c)
    PROVE  /\ \A i, j \in 1..Len(backlog') : backlog'[i] = backlog'[j] => i = j
           /\ listenPc = "register" => \A i \in 1..Len(backlog') : backlog'[i] # clientFd
           /\ \A d \in Clients \ {c} : Waiting(d)' => Waiting(d)
<1> DEFINE L == Len(backlog)
           z == Append(backlog, c)
<1>1. backlog \in Seq(Clients) /\ clientPc[c] = "off" /\ UNCHANGED <<listenPc, clientFd>>
  BY DEF TypeOK, ClientConnect, listenVars
<1>2. backlog' = backlog \/ backlog' = z
  BY DEF ClientConnect
<1>3. ~Waiting(c)
  BY <1>1 DEF Registered
<1>4. (\A i \in 1..L : backlog[i] # c) /\ ~(listenPc = "register" /\ clientFd = c)
  BY <1>3, Zenon DEF Waiting
<1>5. \A i, j \in 1..L : backlog[i] = backlog[j] => i = j
  BY Zenon DEF Registered
<1>6. listenPc = "register" => \A i \in 1..L : backlog[i] # clientFd
  BY Zenon DEF Registered
<1>7. \A d \in Clients : \/ \E i \in 1..L : backlog[i] = d
                         \/ listenPc = "register" /\ clientFd = d
                         => Waiting(d)
  BY Zenon DEF Waiting
<1>8. \A d \in Clients : Waiting(d)' =>
         \/ \E i \in 1..Len(backlog') : backlog'[i] = d
         \/ listenPc = "register" /\ clientFd = d
  BY <1>1, Zenon DEF Waiting
<1>9. CASE backlog' = backlog
  <2>1. Len(backlog') = L
    BY <1>9
  <2> HIDE DEF L
  <2>2. QED
    BY ONLY <1>5, <1>6, <1>7, <1>8, <1>9, <2>1, Zenon
<1>10. CASE backlog' = z
  <2>1. /\ L \in Nat /\ Len(z) = L + 1
        /\ \A i \in 1..L : i \in 1..Len(z) /\ i # L + 1 /\ z[i] = backlog[i]
        /\ \A i \in 1..Len(z) : i # L + 1 => i \in 1..L
        /\ L + 1 \in 1..Len(z) /\ z[L + 1] = c
    BY <1>1, AppendOf
  <2>2. Len(backlog') = Len(z)
    BY <1>10
  <2> HIDE DEF L, z
  <2>3. \A i \in 1..Len(z) : i = L + 1 \/ (i \in 1..L /\ z[i] = backlog[i])
    BY ONLY <2>1, Zenon
  <2>4. \A i, j \in 1..Len(z) : z[i] = z[j] => i = j
    BY ONLY <1>4, <1>5, <2>1, <2>3, Zenon
  <2>5. listenPc = "register" => \A i \in 1..Len(z) : z[i] # clientFd
    BY ONLY <1>4, <1>6, <2>1, <2>3, Zenon
  <2>6. \A d \in Clients \ {c} : (\E i \in 1..Len(z) : z[i] = d) => \E i \in 1..L : backlog[i] = d
    BY ONLY <2>1, <2>3, Zenon
  <2>7. QED
    BY ONLY <1>7, <1>8, <1>10, <2>2, <2>4, <2>5, <2>6, Zenon
<1>11. QED
  BY <1>2, <1>9, <1>10

\* A launcher is registered once: its handler is new when it is created, and
\* reads client_fd once.
LEMMA RegisteredStep ==
    ASSUME TypeOK, Registered, [Next]_vars
    PROVE  Registered'
<1> DEFINE Each(c) ==
        /\ handlerPc[c] \in {"none", "read"} => handlerFd[c] = None
        /\ Waiting(c) => handlerPc[c] = "none"
        /\ clientPc[c] = "off" => ~Waiting(c) /\ handlerPc[c] = "none"
<1>1. \A c \in Clients : Each(c)
  BY DEF Registered
<1>2. CASE ListenAccept
  <2>1. UNCHANGED <<clientList, handlerPc, handlerFd, clientPc>>
    BY <1>2 DEF ListenAccept, Listen, handlerVars, clientVars
  <2>2. \A c \in Clients : Waiting(c)' => Waiting(c)
    BY <1>2, AcceptTakesFirst
  <2>3. ASSUME NEW c \in Clients PROVE Each(c)'
    <3>1. Each(c) /\ (Waiting(c)' => Waiting(c))
      BY <1>1, <2>2
    <3>2. QED
      BY ONLY <2>1, <3>1, Zenon
  <2>4. QED
    BY <1>2, <2>3, AcceptTakesFirst, Zenon DEF Registered
<1>3. CASE ListenAcceptFails
  <2>1. UNCHANGED <<clientList, handlerPc, handlerFd, clientPc, backlog>> /\ listenPc' = "returned"
    BY <1>3 DEF ListenAcceptFails, Listen, handlerVars, clientVars
  <2>2. \A c \in Clients : Waiting(c)' => Waiting(c)
    BY <2>1 DEF Waiting
  <2>3. ASSUME NEW c \in Clients PROVE Each(c)'
    <3>1. Each(c) /\ (Waiting(c)' => Waiting(c))
      BY <1>1, <2>2
    <3>2. QED
      BY ONLY <2>1, <3>1, Zenon
  <2>4. QED
    BY <2>1, <2>3 DEF Registered
<1>4. CASE ListenRegister
  <2>1. /\ UNCHANGED <<handlerFd, clientPc, backlog, clientFd>>
        /\ listenPc = "register" /\ listenPc' \in {"accept", "returned"}
    BY <1>4 DEF ListenRegister, Listen, clientVars
  <2>2. \A c \in Clients : Waiting(c)' => Waiting(c) /\ c # clientFd
    BY <2>1, Zenon DEF Waiting, Registered
  <2>3. \A c \in Clients : c = clientFd => Waiting(c)
    BY <2>1 DEF Waiting
  <2>4. ASSUME NEW c \in Clients PROVE Each(c)'
    <3>1. Each(c) /\ (Waiting(c)' => Waiting(c) /\ c # clientFd) /\ (c = clientFd => Waiting(c))
      BY <1>1, <2>2, <2>3
    <3>2. \/ handlerPc'[c] = handlerPc[c]
          \/ c = clientFd /\ handlerPc'[c] = "read"
          \/ handlerPc[c] = "ip" /\ handlerPc'[c] = "stale"
      BY <1>4, RegisterMoves
    <3>4. clientPc'[c] = clientPc[c] /\ handlerFd'[c] = handlerFd[c]
      BY <2>1
    <3>5. "read" # "none" /\ "stale" \notin {"none", "read"} /\ "ip" # "none"
      OBVIOUS
    <3>6. CASE handlerPc'[c] = handlerPc[c]
      BY ONLY <2>1, <3>1, <3>4, <3>6, Zenon
    <3>7. CASE c = clientFd /\ handlerPc'[c] = "read"
      BY ONLY <2>1, <3>1, <3>4, <3>5, <3>7, Zenon
    <3>8. CASE handlerPc[c] = "ip" /\ handlerPc'[c] = "stale"
      BY ONLY <2>1, <3>1, <3>4, <3>5, <3>8, Zenon
    <3>9. QED
      BY <3>2, <3>6, <3>7, <3>8
  <2>5. QED
    BY <2>1, <2>4 DEF Registered
<1>5. ASSUME NEW h \in Clients, HandlerReadFd(h) PROVE Registered'
  <2>1. /\ UNCHANGED <<clientList, clientPc, backlog, listenPc, clientFd>>
        /\ handlerPc[h] = "read" /\ handlerPc' = [handlerPc EXCEPT ![h] = "ip"]
        /\ handlerFd' = [handlerFd EXCEPT ![h] = clientFd]
    BY <1>5 DEF HandlerReadFd, Handler, listenVars, clientVars
  <2>2. \A c \in Clients : Waiting(c)' <=> Waiting(c)
    BY <2>1 DEF Waiting
  <2>3. ASSUME NEW c \in Clients PROVE Each(c)'
    <3>1. Each(c) /\ (Waiting(c)' <=> Waiting(c))
      BY <1>1, <2>2
    <3>2. c # h => handlerPc'[c] = handlerPc[c] /\ handlerFd'[c] = handlerFd[c]
      BY <2>1 DEF TypeOK
    <3>3. handlerPc'[h] = "ip"
      BY <2>1 DEF TypeOK
    <3>4. CASE c = h
      BY ONLY <2>1, <3>1, <3>3, <3>4
    <3>5. CASE c # h
      BY ONLY <2>1, <3>1, <3>2, <3>5, Zenon
    <3>6. QED
      BY <3>4, <3>5
  <2>4. QED
    BY <2>1, <2>3, Zenon DEF Registered
<1>6. ASSUME NEW h \in Clients, NEW from \in {"ip", "stale", "start", "recv", "post"},
             NEW to \in {"start", "recv", "post"},
             Handler(h, from, to), handlerFd' = handlerFd
      PROVE  Registered'
  <2>1. /\ UNCHANGED <<clientList, clientPc, backlog, listenPc, clientFd, handlerFd>>
        /\ handlerPc[h] = from /\ handlerPc' = [handlerPc EXCEPT ![h] = to]
    BY <1>6 DEF Handler, listenVars, clientVars
  <2>2. \A c \in Clients : Waiting(c)' <=> Waiting(c)
    BY <2>1 DEF Waiting
  <2>3. ASSUME NEW c \in Clients PROVE Each(c)'
    <3>1. Each(c) /\ (Waiting(c)' <=> Waiting(c))
      BY <1>1, <2>2
    <3>2. c # h => handlerPc'[c] = handlerPc[c]
      BY <2>1 DEF TypeOK
    <3>3. handlerPc'[h] = to
      BY <2>1 DEF TypeOK
    <3>4. CASE c = h
      BY ONLY <1>6, <2>1, <3>1, <3>3, <3>4
    <3>5. CASE c # h
      BY ONLY <2>1, <3>1, <3>2, <3>5, Zenon
    <3>6. QED
      BY <3>4, <3>5
  <2>4. QED
    BY <2>1, <2>3, Zenon DEF Registered
<1>7. ASSUME NEW c \in Clients, ClientConnect(c) PROVE Registered'
  <2>1. /\ UNCHANGED <<clientList, listenPc, clientFd, handlerPc, handlerFd>>
        /\ clientPc[c] = "off"
        /\ \A d \in Clients \ {c} : clientPc'[d] = clientPc[d]
        /\ clientPc'[c] # "off"
    BY <1>7 DEF ClientConnect, handlerVars, TypeOK
  <2>2. \A d \in Clients \ {c} : Waiting(d)' => Waiting(d)
    BY <1>7, ConnectAddsLast
  <2>3. ASSUME NEW d \in Clients PROVE Each(d)'
    <3>1. Each(d) /\ (d # c => (Waiting(d)' => Waiting(d)) /\ clientPc'[d] = clientPc[d])
      BY <1>1, <2>1, <2>2
    <3>2. CASE d = c
      BY ONLY <2>1, <3>1, <3>2, Zenon
    <3>3. CASE d # c
      BY ONLY <2>1, <3>1, <3>3, Zenon
    <3>4. QED
      BY <3>2, <3>3
  <2>4. QED
    BY <1>7, <2>1, <2>3, ConnectAddsLast, Zenon DEF Registered
<1>8. CASE /\ UNCHANGED <<backlog, clientFd, clientList, handlerPc, handlerFd>>
           /\ listenPc' = "register" => listenPc = "register"
           /\ \A c \in Clients : clientPc'[c] = "off" => clientPc[c] = "off"
  <2>1. \A c \in Clients : Waiting(c)' => Waiting(c)
    BY <1>8 DEF Waiting
  <2>2. ASSUME NEW c \in Clients PROVE Each(c)'
    <3>1. Each(c) /\ (Waiting(c)' => Waiting(c)) /\ (clientPc'[c] = "off" => clientPc[c] = "off")
      BY <1>1, <1>8, <2>1
    <3>2. QED
      BY ONLY <1>8, <3>1, Zenon
  <2>3. QED
    BY <1>8, <2>2 DEF Registered
<1>9. QED
  BY ServingFrame, <1>2, <1>3, <1>4, <1>5, <1>6, <1>7, <1>8, Zenon DEF ListenStep

\* A step that leaves the dialogue with a client alone, whoever else dies.
LEMMA ToldFrame ==
    ASSUME TypeOK, TypeOK', NEW c \in Clients, Told(c),
           OnlyOwn(c)' => OnlyOwn(c),
           toClient'[c] = toClient[c], opening'[c] = opening[c],
           SentIp(c)' <=> SentIp(c), SentStart(c)' <=> SentStart(c),
           clientPc'[c] # "gone" => clientPc[c] # "gone",
           serverUp' => serverUp
    PROVE  Told(c)'
<1> SUFFICES ASSUME OnlyOwn(c)'
             PROVE  /\ opening'[c] # "twice"
                    /\ clientPc'[c] # "gone" =>
                          Dialogue(toClient'[c], opening'[c], SentIp(c)', SentStart(c)', serverUp')
  BY DEF Told
<1>1. opening[c] # "twice"
  BY DEF Told
<1>2. ASSUME clientPc'[c] # "gone"
      PROVE  Dialogue(toClient[c], opening[c], SentIp(c)', SentStart(c)', serverUp')
  <2>1. Dialogue(toClient[c], opening[c], SentIp(c), SentStart(c), serverUp)
    BY <1>2 DEF Told
  <2>2. serverUp' = serverUp \/ serverUp' = FALSE
    BY DEF TypeOK
  <2>3. SentIp(c)' = SentIp(c) /\ SentStart(c)' = SentStart(c)
    BY DEF SentStart, SentIp
  <2>4. CASE serverUp' = serverUp
    BY <2>1, <2>3, <2>4
  <2>5. CASE serverUp' = FALSE
    <3>1. Dialogue(toClient[c], opening[c], SentIp(c), SentStart(c), FALSE)
      BY <2>1, Zenon DEF Dialogue
    <3>2. QED
      BY <2>3, <2>5, <3>1
  <2>6. QED
    BY <2>2, <2>4, <2>5
<1>3. QED
  BY <1>1, <1>2

\* What a send does to the socket of a client, and to the server.
LEMMA SendEffect ==
    ASSUME TypeOK, NEW d \in Clients, NEW m, SendToClient(d, m), NEW c \in Clients
    PROVE  /\ serverUp' => serverUp
           /\ \/ toClient'[c] = toClient[c] /\ (c = d => clientPc[c] = "gone")
              \/ c = d /\ toClient'[c] = Append(toClient[c], m) /\ serverUp' = serverUp
BY DEF SendToClient, ServerDies, Connected, TypeOK, toClientVars

\* Main's RESTART.
LEMMA ToldRestart ==
    ASSUME TypeOK, TypeOK', NEW c \in Clients, Told(c), MainSendRestart
    PROVE  Told(c)'
<1>1. /\ UNCHANGED <<handlerPc, handlerFd, opening, clientPc>>
      /\ targets # <<>> /\ SendToClient(Head(targets), "RESTART")
  BY DEF MainSendRestart, handlerVars, clientVars
<1>2. Head(targets) \in Clients
  BY <1>1, HeadTailProperties DEF TypeOK
<1>3. /\ OnlyOwn(c)' <=> OnlyOwn(c)
      /\ SentIp(c)' = SentIp(c) /\ SentStart(c)' = SentStart(c)
  BY <1>1 DEF OnlyOwn, SentIp, SentStart
<1>4. /\ serverUp' => serverUp
      /\ \/ toClient'[c] = toClient[c]
         \/ toClient'[c] = Append(toClient[c], "RESTART") /\ serverUp' = serverUp
  BY <1>1, <1>2, SendEffect
<1>5. CASE toClient'[c] = toClient[c]
  BY <1>1, <1>3, <1>4, <1>5, ToldFrame
<1>6. CASE toClient'[c] = Append(toClient[c], "RESTART") /\ serverUp' = serverUp
  <2>1. toClient[c] \in Seq(ServerMessages)
    BY DEF TypeOK
  <2>2. Dialogue(toClient[c], opening[c], SentIp(c), SentStart(c), serverUp) =>
        Dialogue(Append(toClient[c], "RESTART"), opening[c], SentIp(c), SentStart(c), serverUp)
    BY <2>1, DialogueRestart
  <2>3. QED
    BY <1>1, <1>3, <1>6, <2>2 DEF Told
<1>7. QED
  BY <1>4, <1>5, <1>6

\* A handler's IP.
LEMMA ToldIp ==
    ASSUME TypeOK, TypeOK', Registered, NEW c \in Clients, Told(c),
           NEW h \in Clients, HandlerSendIp(h)
    PROVE  Told(c)'
<1>1. /\ handlerPc[h] \in {"ip", "stale"} /\ handlerPc' = [handlerPc EXCEPT ![h] = "start"]
      /\ UNCHANGED <<handlerFd, opening, clientPc>>
  BY DEF HandlerSendIp, Handler, clientVars
<1>2. /\ handlerPc'[h] = "start"
      /\ \A g \in Clients \ {h} : handlerPc'[g] = handlerPc[g]
  BY <1>1 DEF TypeOK
<1>3. OnlyOwn(c)' <=> OnlyOwn(c)
  BY <1>1 DEF OnlyOwn
<1>4. \/ /\ handlerFd[h] \in Clients
         /\ \E m \in {"IP", "JUNK", "FREED"} : SendToClient(handlerFd[h], m)
      \/ serverUp' = FALSE /\ UNCHANGED toClient
  BY DEF HandlerSendIp, TypeOK, ServerDies, toClientVars
<1>5. serverUp' => serverUp
  BY <1>4, SendEffect DEF TypeOK
<1>6. ASSUME handlerFd[h] # c PROVE toClient'[c] = toClient[c]
  BY <1>4, <1>6, SendEffect
<1>7. CASE ~OnlyOwn(c)
  BY <1>3, <1>7 DEF Told
<1>8. CASE OnlyOwn(c) /\ h # c
  <2>1. toClient'[c] = toClient[c]
    BY <1>6, <1>8 DEF OnlyOwn
  <2>2. (SentIp(c)' <=> SentIp(c)) /\ (SentStart(c)' <=> SentStart(c))
    BY <1>1, <1>2, <1>8 DEF SentIp, SentStart
  <2>3. QED
    BY <1>1, <1>3, <1>5, <2>1, <2>2, ToldFrame
<1>9. CASE h = c /\ handlerFd[c] # c
  <2>1. toClient'[c] = toClient[c]
    BY <1>6, <1>9
  <2>2. (SentIp(c)' <=> SentIp(c)) /\ (SentStart(c)' <=> SentStart(c))
    BY <1>1, <1>9 DEF SentIp, SentStart
  <2>3. QED
    BY <1>1, <1>3, <1>5, <2>1, <2>2, ToldFrame
<1>10. CASE OnlyOwn(c) /\ h = c /\ handlerFd[c] = c
  <2>1. SentIp(c) = FALSE /\ SentStart(c) = FALSE /\ SentIp(c)' = TRUE /\ SentStart(c)' = FALSE
    BY <1>1, <1>2, <1>10 DEF SentIp, SentStart
  <2>3. \/ \E m \in {"IP", "JUNK", "FREED"} : SendToClient(c, m)
        \/ serverUp' = FALSE /\ UNCHANGED toClient
    BY <1>4, <1>10
  <2>4. opening[c] # "twice"
    BY <1>10 DEF Told
  <2>5. ASSUME clientPc[c] # "gone"
        PROVE  Dialogue(toClient'[c], opening[c], TRUE, FALSE, serverUp')
    <3>1. Dialogue(toClient[c], opening[c], FALSE, FALSE, serverUp)
      BY <1>10, <2>1, <2>5 DEF Told
    <3>2. ASSUME NEW m \in {"IP", "JUNK", "FREED"},
                 toClient'[c] = Append(toClient[c], m), serverUp' = serverUp
          PROVE  Dialogue(toClient'[c], opening[c], TRUE, FALSE, serverUp')
      <4>1. toClient[c] \in Seq(ServerMessages)
        BY DEF TypeOK
      <4>2. Dialogue(Append(toClient[c], m), opening[c], TRUE, FALSE, serverUp)
        BY <3>1, <4>1, DialogueIp
      <4>3. QED
        BY <3>2, <4>2
    <3>3. CASE serverUp' = FALSE /\ toClient' = toClient
      <4>1. Dialogue(toClient[c], opening[c], TRUE, FALSE, FALSE)
        BY <3>1, DialogueDown
      <4>2. QED
        BY <3>3, <4>1
    <3>4. ASSUME NEW m \in {"IP", "JUNK", "FREED"}, SendToClient(c, m)
          PROVE  toClient'[c] = Append(toClient[c], m) /\ serverUp' = serverUp
      BY <2>5, <3>4, SendEffect
    <3>5. QED
      BY <2>3, <3>2, <3>3, <3>4
  <2>6. QED
    BY <1>1, <2>1, <2>4, <2>5 DEF Told
<1>11. QED
  BY <1>7, <1>8, <1>9, <1>10

\* A handler's START.
LEMMA ToldStart ==
    ASSUME TypeOK, TypeOK', Descriptors, NEW c \in Clients, Told(c),
           NEW h \in Clients, HandlerSendStart(h)
    PROVE  Told(c)'
<1>1. /\ handlerPc[h] = "start" /\ handlerPc' = [handlerPc EXCEPT ![h] = "recv"]
      /\ UNCHANGED <<handlerFd, opening, clientPc>>
      /\ serverUp = TRUE /\ SendToClient(handlerFd[h], "START")
  BY DEF HandlerSendStart, Handler, clientVars
<1>2. /\ handlerPc'[h] = "recv"
      /\ \A g \in Clients \ {h} : handlerPc'[g] = handlerPc[g]
  BY <1>1 DEF TypeOK
<1>3. OnlyOwn(c)' <=> OnlyOwn(c)
  <2>1. handlerFd' = handlerFd /\ opening' = opening
    BY ONLY <1>1, Zenon
  <2>2. QED
    BY ONLY <2>1, Zenon DEF OnlyOwn
<1>4. handlerFd[h] \in Clients
  BY <1>1 DEF Descriptors
<1>5. ASSUME handlerFd[h] # c PROVE toClient'[c] = toClient[c]
  BY <1>1, <1>4, <1>5, SendEffect
<1>6. CASE ~OnlyOwn(c)
  BY <1>3, <1>6 DEF Told
<1>7. CASE OnlyOwn(c) /\ h # c
  <2>1. toClient'[c] = toClient[c]
    BY <1>5, <1>7 DEF OnlyOwn
  <2>2. (SentIp(c)' <=> SentIp(c)) /\ (SentStart(c)' <=> SentStart(c))
    BY <1>1, <1>2, <1>7 DEF SentIp, SentStart
  <2>3. QED
    BY <1>1, <1>3, <2>1, <2>2, ToldFrame
<1>8. CASE h = c /\ handlerFd[c] # c
  <2>1. toClient'[c] = toClient[c]
    BY <1>5, <1>8
  <2>2. (SentIp(c)' <=> SentIp(c)) /\ (SentStart(c)' <=> SentStart(c))
    BY <1>1, <1>8 DEF SentIp, SentStart
  <2>3. QED
    BY <1>1, <1>3, <2>1, <2>2, ToldFrame
<1>9. CASE OnlyOwn(c) /\ h = c /\ handlerFd[c] = c
  <2>1. SentIp(c) = TRUE /\ SentStart(c) = FALSE /\ SentIp(c)' = TRUE /\ SentStart(c)' = TRUE
    BY <1>1, <1>2, <1>9 DEF SentIp, SentStart
  <2>2. opening[c] # "twice"
    BY <1>9 DEF Told
  <2>3. ASSUME clientPc[c] # "gone"
        PROVE  Dialogue(toClient'[c], opening[c], TRUE, TRUE, serverUp')
    <3>1. Dialogue(toClient[c], opening[c], TRUE, FALSE, TRUE)
      BY <1>1, <1>9, <2>1, <2>3 DEF Told
    <3>2. toClient[c] \in Seq(ServerMessages)
          /\ opening[c] \in Openings
      BY DEF TypeOK
    <3>3. Dialogue(Append(toClient[c], "START"), opening[c], TRUE, TRUE, TRUE)
      BY <3>1, <3>2, DialogueStart
    <3>4. toClient'[c] = Append(toClient[c], "START") /\ serverUp' = TRUE
      <4>1. SendToClient(c, "START") /\ serverUp = TRUE
        BY ONLY <1>1, <1>9
      <4>2. /\ serverUp' => serverUp
            /\ \/ toClient'[c] = toClient[c] /\ clientPc[c] = "gone"
               \/ toClient'[c] = Append(toClient[c], "START") /\ serverUp' = serverUp
        BY ONLY TypeOK, <4>1, SendEffect, c \in Clients, Zenon
      <4>3. QED
        BY ONLY <2>3, <4>1, <4>2, Zenon
    <3>5. QED
      BY ONLY <3>3, <3>4, Zenon
  <2>4. QED
    BY <1>1, <2>1, <2>2, <2>3 DEF Told
<1>10. QED
  BY <1>6, <1>7, <1>8, <1>9

\* A client launcher receives.
LEMMA ToldTakes ==
    ASSUME TypeOK, TypeOK', NEW c \in Clients, Told(c), NEW d \in Clients,
           NEW m \in Received, ClientTakes(d, m), clientPc[d] \in {"ip", "loop"},
           \A b \in Clients \ {d} : clientPc'[b] = clientPc[b]
    PROVE  Told(c)'
<1>1. /\ toClient[d] # <<>> /\ (m = Head(toClient[d]) \/ m = "MIXED")
      /\ toClient' = [toClient EXCEPT ![d] = Tail(@)]
      /\ opening' = [opening EXCEPT ![d] = NextOpening(@, m)]
      /\ UNCHANGED <<handlerPc, handlerFd, serverUp>>
  BY DEF ClientTakes, handlerVars
<1>2. /\ OnlyOwn(c)' <=> OnlyOwn(c)
      /\ SentIp(c)' = SentIp(c) /\ SentStart(c)' = SentStart(c)
  BY <1>1 DEF OnlyOwn, SentIp, SentStart
<1>3. CASE c # d
  <2>1. toClient'[c] = toClient[c] /\ opening'[c] = opening[c] /\ clientPc'[c] = clientPc[c]
    BY <1>1, <1>3 DEF TypeOK
  <2>2. QED
    BY <1>1, <1>2, <2>1, ToldFrame
<1>4. CASE c = d
  <2>1. toClient'[c] = Tail(toClient[c]) /\ opening'[c] = NextOpening(opening[c], m)
    BY <1>1, <1>4 DEF TypeOK
  <2>2. toClient[c] \in Seq(ServerMessages) /\ toClient[c] # <<>>
        /\ opening[c] \in Openings /\ (m = Head(toClient[c]) \/ m = "MIXED")
    BY <1>1, <1>4 DEF TypeOK
  <2>3. ASSUME OnlyOwn(c)
        PROVE  Dialogue(toClient'[c], opening'[c], SentIp(c), SentStart(c), serverUp)
    <3>1. Dialogue(toClient[c], opening[c], SentIp(c), SentStart(c), serverUp)
      BY <1>4, <2>3 DEF Told
    <3>2. Dialogue(Tail(toClient[c]), NextOpening(opening[c], m), SentIp(c), SentStart(c), serverUp)
      BY <2>2, <3>1, DialogueTakes
    <3>3. QED
      BY <2>1, <3>2
  <2>4. ASSUME OnlyOwn(c) PROVE opening'[c] # "twice"
    BY <2>3, <2>4, Zenon DEF Dialogue
  <2>5. QED
    BY <1>1, <1>2, <2>3, <2>4 DEF Told
<1>5. QED
  BY <1>3, <1>4

\* The dialogue goes on as it should, or the wrong handler has a hand in it.
LEMMA ToldStep ==
    ASSUME TypeOK, TypeOK', Descriptors, Registered, [Next]_vars,
           NEW c \in Clients, Told(c)
    PROVE  Told(c)'
<1> USE DEF signalVars, mainVars, listenVars, handlerVars, clientVars, toClientVars, toServerVars
<1> DEFINE Quiet == /\ UNCHANGED <<toClient, opening>>
                    /\ clientPc'[c] # "gone" => clientPc[c] # "gone"
                    /\ serverUp' => serverUp
<1>1. ASSUME Quiet, UNCHANGED <<handlerPc, handlerFd>> PROVE Told(c)'
  <2>1. /\ OnlyOwn(c)' <=> OnlyOwn(c)
        /\ SentIp(c)' <=> SentIp(c)
        /\ SentStart(c)' <=> SentStart(c)
    BY <1>1 DEF OnlyOwn, SentIp, SentStart
  <2>2. QED
    BY <1>1, <2>1, ToldFrame
<1>2. CASE MainListen \/ MainLaunchProxy \/ MainKillProxy \/ MainRelaunchProxy \/ MainFinish
  <2>1. Quiet /\ UNCHANGED <<handlerPc, handlerFd>>
    BY <1>2 DEF MainListen, MainLaunchProxy, MainKillProxy, MainRelaunchProxy, MainFinish,
                Main, ServerDies
  <2>2. QED
    BY <1>1, <2>1
<1>3. CASE MainSendRestart
  BY <1>3, ToldRestart
<1>4. CASE ListenAccept \/ ListenAcceptFails
  <2>1. Quiet /\ UNCHANGED <<handlerPc, handlerFd>>
    BY <1>4 DEF ListenAccept, ListenAcceptFails, Listen
  <2>2. QED
    BY <1>1, <2>1
<1>5. CASE ListenRegister
  <2>1. /\ UNCHANGED <<toClient, opening, clientPc, handlerFd>>
        /\ serverUp' => serverUp
        /\ listenPc = "register"
    BY <1>5 DEF ListenRegister, Listen, ServerDies
  <2>2. \/ handlerPc'[c] = handlerPc[c]
        \/ clientFd = c /\ handlerPc'[c] = "read"
        \/ handlerPc[c] = "ip" /\ handlerPc'[c] = "stale"
    BY <1>5, RegisterMoves
  <2>3. clientFd = c => handlerPc[c] = "none"
    BY <2>1 DEF Registered, Waiting
  <2>4. /\ OnlyOwn(c)' <=> OnlyOwn(c)
        /\ SentIp(c)' <=> SentIp(c)
        /\ SentStart(c)' <=> SentStart(c)
    BY <2>1, <2>2, <2>3 DEF OnlyOwn, SentIp, SentStart
  <2>5. QED
    BY <2>1, <2>4, ToldFrame
<1>6. ASSUME NEW h \in Clients, HandlerReadFd(h) PROVE Told(c)'
  <2>1. /\ UNCHANGED <<toClient, opening, clientPc, serverUp>>
        /\ handlerPc[h] = "read" /\ handlerPc' = [handlerPc EXCEPT ![h] = "ip"]
        /\ handlerFd' = [handlerFd EXCEPT ![h] = clientFd]
    BY <1>6 DEF HandlerReadFd, Handler
  <2>2. handlerFd[h] # c
    BY <2>1, LauncherAssumption DEF Registered
  <2>3. \A g \in Clients \ {h} : handlerFd'[g] = handlerFd[g] /\ handlerPc'[g] = handlerPc[g]
    BY <2>1 DEF TypeOK
  <2>4. OnlyOwn(c)' => OnlyOwn(c)
    BY <2>2, <2>3 DEF OnlyOwn
  <2>5. handlerPc'[h] = "ip"
    BY <2>1 DEF TypeOK
  <2>6. (SentIp(c)' <=> SentIp(c)) /\ (SentStart(c)' <=> SentStart(c))
    BY <2>1, <2>2, <2>3, <2>5 DEF SentIp, SentStart
  <2>7. QED
    BY <2>1, <2>4, <2>6, ToldFrame
<1>7. ASSUME NEW h \in Clients, HandlerRecv(h) \/ HandlerPost(h) PROVE Told(c)'
  <2>1. /\ Quiet /\ handlerFd' = handlerFd
        /\ handlerPc[h] \in {"recv", "post"}
        /\ \E to \in {"recv", "post"} : handlerPc' = [handlerPc EXCEPT ![h] = to]
    BY <1>7 DEF HandlerRecv, HandlerPost, Handler
  <2>2. /\ handlerPc'[h] \in {"recv", "post"}
        /\ \A g \in Clients \ {h} : handlerPc'[g] = handlerPc[g]
    BY <2>1 DEF TypeOK
  <2>3. /\ OnlyOwn(c)' <=> OnlyOwn(c)
        /\ SentIp(c)' <=> SentIp(c)
        /\ SentStart(c)' <=> SentStart(c)
    BY <2>1, <2>2 DEF OnlyOwn, SentIp, SentStart
  <2>4. QED
    BY <2>1, <2>3, ToldFrame
<1>8. ASSUME NEW h \in Clients, HandlerStep(h) PROVE Told(c)'
  BY <1>6, <1>7, <1>8, ToldIp, ToldStart DEF HandlerStep
<1>9. ASSUME NEW d \in Clients, ClientConnect(d) PROVE Told(c)'
  <2>1. Quiet /\ UNCHANGED <<handlerPc, handlerFd>>
    BY <1>9 DEF ClientConnect, TypeOK
  <2>2. QED
    BY <1>1, <2>1
<1>10. ASSUME NEW d \in Clients, ClientSetEntities(d) PROVE Told(c)'
  <2>1. PICK m \in Received :
            ClientTakes(d, m) /\ clientPc[d] = "ip" /\ clientPc' = [clientPc EXCEPT ![d] = "loop"]
    BY <1>10 DEF ClientSetEntities
  <2>2. \A b \in Clients \ {d} : clientPc'[b] = clientPc[b]
    BY <2>1 DEF TypeOK
  <2>3. QED
    BY <2>1, <2>2, ToldTakes
<1>11. ASSUME NEW d \in Clients, ClientReceive(d) PROVE Told(c)'
  <2>1. PICK m \in Received :
            ClientTakes(d, m) /\ clientPc[d] = "loop" /\ clientPc' = clientPc
    BY <1>11 DEF ClientReceive
  <2>2. QED
    BY <2>1, ToldTakes
<1>12. ASSUME NEW d \in Clients, ClientLaunch(d) PROVE Told(c)'
  <2>1. Quiet /\ UNCHANGED <<handlerPc, handlerFd>>
    BY <1>12 DEF ClientLaunch, TypeOK
  <2>2. QED
    BY <1>1, <2>1
<1>13. ASSUME NEW d \in Clients, NEW p \in Pids,
              ProcessDies(d, p, "running") \/ ProcessDies(d, p, "killed") \/ MonitorReport(d, p)
       PROVE  Told(c)'
  <2>1. Quiet /\ UNCHANGED <<handlerPc, handlerFd>>
    BY <1>13 DEF ProcessDies, MonitorReport, Unreported, TypeOK
  <2>2. QED
    BY <1>1, <2>1
<1>14. CASE UNCHANGED vars \/ \E p \in ProxyPids : ProxyDies(p)
  <2>1. Quiet /\ UNCHANGED <<handlerPc, handlerFd>>
    BY <1>14 DEF vars, ProxyDies
  <2>2. QED
    BY <1>1, <2>1
<1>15. QED
  BY <1>2, <1>3, <1>4, <1>5, <1>8, <1>9, <1>10, <1>11, <1>12, <1>13, <1>14
     DEF Next, MainStep, ListenStep, ClientStep

\* Before anybody connects there is no dialogue.
LEMMA InitDialogues == Init => Registered /\ \A c \in Clients : Told(c)
<1> SUFFICES ASSUME Init PROVE Registered /\ \A c \in Clients : Told(c)
  OBVIOUS
<1>1. Len(<<>>) = 0
  OBVIOUS
<1>2. \A c \in Clients : ~Waiting(c)
  BY <1>1 DEF Init, Waiting
<1>3. Registered
  BY <1>1, <1>2 DEF Init, Registered
<1>4. ASSUME NEW c \in Clients PROVE Told(c)
  <2>1. ~SentIp(c) /\ ~SentStart(c)
    BY DEF Init, SentIp, SentStart
  <2>2. toClient[c] = <<>> /\ opening[c] = "nothing"
    BY DEF Init
  <2>3. Dialogue(<<>>, "nothing", SentIp(c), SentStart(c), serverUp)
    BY <1>1, <2>1 DEF Dialogue
  <2>4. QED
    BY <2>2, <2>3 DEF Told
<1>5. QED
  BY <1>3, <1>4

\* Who is registered and who has been told what, in every reachable state.
LEMMA DialoguesInvariance == Spec => [](Registered /\ \A c \in Clients : Told(c))
<1> DEFINE Dialogues == Registered /\ \A c \in Clients : Told(c)
<1>1. Init => Dialogues
  BY InitDialogues
<1>2. TypeOK /\ TypeOK' /\ Descriptors /\ Dialogues /\ [Next]_vars => Dialogues'
  <2> SUFFICES ASSUME TypeOK, TypeOK', Descriptors, Dialogues, [Next]_vars PROVE Dialogues'
    OBVIOUS
  <2>1. Registered'
    BY RegisteredStep
  <2>2. \A c \in Clients : Told(c)'
    BY ToldStep
  <2>3. QED
    BY <2>1, <2>2
<1>3. Inv => TypeOK /\ Descriptors
  BY DEF Inv
<1>4. QED
  BY <1>1, <1>2, <1>3, Invariance, PTL DEF Spec

-----------------------------------------------------------------------------
(* What departs from the dialogue, and why. *)

\* Client c has a handler and is not listed, or another handler has its socket.
Unlisted(c) == ~OnlyOwn(c) \/ (c \notin clientList /\ handlerPc[c] # "none")

\* The message m is on its way to client c.
UnderWay(c, m) == \E i \in 1..Len(toClient[c]) : toClient[c][i] = m

Causes ==
    /\ \A h \in Clients :
        /\ handlerPc[h] # "none"  => Len(clientFdList) > 0
        /\ handlerPc[h] = "stale" => Len(clientFdList) > 1
    /\ \A c \in Clients :
        /\ UnderWay(c, "JUNK") \/ opening[c] = "junk" => Unlisted(c)
        /\ UnderWay(c, "FREED") \/ opening[c] = "freed" => Len(clientFdList) > 1
        /\ opening[c] = "mixed" => c \in mixedToClient

\* A step leaves a socket and its dialogue alone, sends, or takes.
LEMMA SocketFrame ==
    ASSUME TypeOK, Descriptors, [Next]_vars, NEW c \in Clients
    PROVE  \/ toClient'[c] = toClient[c] /\ opening'[c] = opening[c]
           \/ /\ opening'[c] = opening[c]
              /\ \E n \in {"START", "RESTART"} : toClient'[c] = Append(toClient[c], n)
           \/ /\ opening'[c] = opening[c]
              /\ \E h \in Clients, n \in {"IP", "JUNK", "FREED"} :
                    /\ toClient'[c] = Append(toClient[c], n)
                    /\ HandlerSendIp(h) /\ handlerFd[h] = c
                    /\ n = "JUNK" => c \notin clientList
                    /\ n = "FREED" => handlerPc[h] = "stale"
           \/ /\ toClient[c] # <<>> /\ toClient'[c] = Tail(toClient[c])
              /\ \E m \in Received :
                    /\ opening'[c] = NextOpening(opening[c], m)
                    /\ m = Head(toClient[c]) \/ (m = "MIXED" /\ c \in mixedToClient)
<1> USE DEF signalVars, mainVars, listenVars, handlerVars, clientVars, toClientVars, toServerVars
<1>1. CASE MainSendRestart
  <2>1. targets # <<>> /\ SendToClient(Head(targets), "RESTART") /\ UNCHANGED opening
    BY <1>1 DEF MainSendRestart
  <2>2. Head(targets) \in Clients
    BY <2>1, HeadTailProperties DEF TypeOK
  <2>3. QED
    BY <2>1, <2>2, SendEffect
<1>2. CASE MainListen \/ MainLaunchProxy \/ MainKillProxy \/ MainRelaunchProxy \/ MainFinish
  BY <1>2 DEF MainListen, MainLaunchProxy, MainKillProxy, MainRelaunchProxy, MainFinish
<1>3. CASE ListenStep
  BY <1>3 DEF ListenStep, ListenAccept, ListenAcceptFails, ListenRegister, Listen
<1>4. ASSUME NEW h \in Clients, HandlerSendIp(h)
      PROVE  \/ toClient'[c] = toClient[c] /\ opening'[c] = opening[c]
             \/ /\ opening'[c] = opening[c]
                /\ \E n \in {"IP", "JUNK", "FREED"} :
                      /\ toClient'[c] = Append(toClient[c], n)
                      /\ HandlerSendIp(h) /\ handlerFd[h] = c
                      /\ n = "JUNK" => c \notin clientList
                      /\ n = "FREED" => handlerPc[h] = "stale"
  <2>1. UNCHANGED opening
    BY <1>4 DEF HandlerSendIp, Handler
  <2>2. \/ UNCHANGED toClient
        \/ \E n \in {"IP", "JUNK", "FREED"} :
              /\ handlerFd[h] \in Clients /\ SendToClient(handlerFd[h], n)
              /\ n = "JUNK" => handlerFd[h] \notin clientList
              /\ n = "FREED" => handlerPc[h] = "stale"
    BY <1>4 DEF HandlerSendIp, TypeOK
  <2>3. QED
    BY <1>4, <2>1, <2>2, SendEffect
<1>5. ASSUME NEW h \in Clients, HandlerSendStart(h)
      PROVE  /\ opening'[c] = opening[c]
             /\ toClient'[c] = toClient[c] \/ toClient'[c] = Append(toClient[c], "START")
  <2>1. UNCHANGED opening /\ handlerFd[h] \in Clients /\ SendToClient(handlerFd[h], "START")
    BY <1>5 DEF HandlerSendStart, Handler, Descriptors
  <2>2. QED
    BY <2>1, SendEffect
<1>6. CASE \E h \in Clients : HandlerReadFd(h) \/ HandlerRecv(h) \/ HandlerPost(h)
  BY <1>6 DEF HandlerReadFd, HandlerRecv, HandlerPost, Handler
<1>7. ASSUME NEW d \in Clients, NEW m \in Received, ClientTakes(d, m)
      PROVE  \/ toClient'[c] = toClient[c] /\ opening'[c] = opening[c]
             \/ /\ toClient[c] # <<>> /\ toClient'[c] = Tail(toClient[c])
                /\ opening'[c] = NextOpening(opening[c], m)
                /\ m = Head(toClient[c]) \/ (m = "MIXED" /\ c \in mixedToClient)
  BY <1>7 DEF ClientTakes, TypeOK
<1>8. CASE \E d \in Clients : ClientSetEntities(d) \/ ClientReceive(d)
  <2>1. \E d \in Clients, m \in Received : ClientTakes(d, m)
    BY <1>8 DEF ClientSetEntities, ClientReceive
  <2>2. QED
    BY <1>7, <2>1
<1>9. CASE \E d \in Clients : ClientConnect(d) \/ ClientLaunch(d)
  BY <1>9 DEF ClientConnect, ClientLaunch
<1>10. CASE \E d \in Clients, p \in Pids :
               ProcessDies(d, p, "running") \/ ProcessDies(d, p, "killed") \/ MonitorReport(d, p)
  BY <1>10 DEF ProcessDies, MonitorReport
<1>11. CASE UNCHANGED vars \/ \E p \in ProxyPids : ProxyDies(p)
  BY <1>11 DEF vars, ProxyDies
<1>12. CASE \E h \in Clients : HandlerStep(h)
  BY <1>4, <1>5, <1>6, <1>12 DEF HandlerStep
<1>13. CASE \E d \in Clients : ClientStep(d)
  BY <1>8, <1>9, <1>13 DEF ClientStep
<1>14. CASE MainStep
  BY <1>1, <1>2, <1>14 DEF MainStep
<1>15. QED
  BY <1>3, <1>10, <1>11, <1>12, <1>13, <1>14 DEF Next

\* What is under way was so before, or has been sent; what is taken was under way.
LEMMA UnderWayFrame ==
    ASSUME TypeOK, Descriptors, [Next]_vars, NEW c \in Clients,
           NEW stage \in {"junk", "freed"}, NEW m,
           m = IF stage = "junk" THEN "JUNK" ELSE "FREED",
           UnderWay(c, m)' \/ opening'[c] = stage
    PROVE  \/ UnderWay(c, m) \/ opening[c] = stage
           \/ \E h \in Clients :
                /\ HandlerSendIp(h) /\ handlerFd[h] = c
                /\ m = "JUNK" => c \notin clientList
                /\ m = "FREED" => handlerPc[h] = "stale"
<1> DEFINE q == toClient[c]
           L == Len(q)
<1>1. q \in Seq(ServerMessages) /\ opening[c] \in Openings /\ m \in {"JUNK", "FREED"}
  BY DEF TypeOK
<1>2. CASE toClient'[c] = q /\ opening'[c] = opening[c]
  BY <1>2 DEF UnderWay
<1>3. ASSUME NEW n \in ServerMessages, toClient'[c] = Append(q, n), opening'[c] = opening[c], n # m
      PROVE  UnderWay(c, m) \/ opening[c] = stage
  <2>1. \A i \in 1..Len(Append(q, n)) : i = L + 1 \/ (i \in 1..L /\ Append(q, n)[i] = q[i])
    BY <1>1, AppendOf
  <2>2. Append(q, n)[L + 1] = n
    BY <1>1, AppendOf
  <2>3. QED
    BY <1>3, <2>1, <2>2, Zenon DEF UnderWay
<1>4. ASSUME NEW n \in Received, q # <<>>, toClient'[c] = Tail(q),
             opening'[c] = NextOpening(opening[c], n),
             n = Head(q) \/ n = "MIXED"
      PROVE  UnderWay(c, m) \/ opening[c] = stage
  <2>1. CASE UnderWay(c, m)'
    <3>1. \A i \in 1..Len(Tail(q)) : i + 1 \in 1..L /\ Tail(q)[i] = q[i + 1]
      BY <1>1, <1>4, TailOf
    <3>2. QED
      BY <1>4, <2>1, <3>1, Zenon DEF UnderWay
  <2>2. CASE opening'[c] = stage /\ opening[c] # stage
    <3>1. n = m
      <4>1. opening[c] \in Openings /\ n \in Received
        BY <1>1, <1>4
      <4>2. NextOpening(opening[c], n) = stage /\ opening[c] # stage
        BY <1>4, <2>2
      <4>3. (stage = "junk" /\ m = "JUNK") \/ (stage = "freed" /\ m = "FREED")
        OBVIOUS
      <4>4. QED
        BY ONLY <4>1, <4>2, <4>3, OpeningGoesOn
    <3>2. 1 \in 1..L /\ q[1] = Head(q)
      BY <1>1, <1>4, TailOf
    <3>3. m # "MIXED"
      BY <1>1
    <3>4. q[1] = m
      BY <1>4, <3>1, <3>2, <3>3
    <3>5. QED
      BY <3>2, <3>4 DEF UnderWay
  <2>3. QED
    BY <2>1, <2>2
<1> HIDE DEF q
<1>5. QED
  BY <1>1, <1>2, <1>3, <1>4, SocketFrame DEF q, ServerMessages

\* Who is not listed, or whose socket another handler has, stays so.
LEMMA UnlistedStays ==
    ASSUME TypeOK, Registered, [Next]_vars, NEW c \in Clients, Unlisted(c)
    PROVE  Unlisted(c)'
<1>1. ASSUME ~OnlyOwn(c) PROVE ~OnlyOwn(c)'
  <2>1. PICK h \in Clients : handlerFd[h] = c /\ h # c
    BY <1>1 DEF OnlyOwn
  <2>2. handlerPc[h] # "read"
    BY <2>1, LauncherAssumption DEF Registered
  <2>3. handlerFd'[h] = handlerFd[h]
    <3>1. CASE ListenStep
      BY <3>1 DEF ListenStep, ListenAccept, ListenAcceptFails, ListenRegister, handlerVars
    <3>2. CASE \E g \in Clients : HandlerReadFd(g)
      BY <2>2, <3>2 DEF HandlerReadFd, Handler, TypeOK
    <3>3. CASE \E g \in Clients : ClientConnect(g)
      BY <3>3 DEF ClientConnect, handlerVars
    <3>4. QED
      BY <3>1, <3>2, <3>3, ServingFrame
  <2>4. QED
    BY <2>1, <2>3 DEF OnlyOwn
<1>2. ASSUME c \notin clientList, handlerPc[c] # "none"
      PROVE  c \notin clientList' /\ handlerPc'[c] # "none"
  <2>1. ~Waiting(c)
    BY <1>2 DEF Registered
  <2>2. CASE ListenRegister
    <3>1. clientFd # c /\ (clientList' = clientList \cup {clientFd} \/ clientList' = clientList)
      BY <2>1, <2>2 DEF Waiting, ListenRegister, Listen
    <3>2. QED
      BY <1>2, <2>2, <3>1, RegisterMoves
  <2>3. CASE ListenAccept \/ ListenAcceptFails
    BY <1>2, <2>3 DEF ListenAccept, ListenAcceptFails, handlerVars
  <2>4. ASSUME NEW h \in Clients, NEW to \in {"ip", "start", "recv", "post"}, NEW from, Handler(h, from, to)
        PROVE  c \notin clientList' /\ handlerPc'[c] # "none"
    BY <1>2, <2>4 DEF Handler, listenVars, TypeOK
  <2>5. CASE \E h \in Clients : HandlerReadFd(h)
    BY <2>4, <2>5 DEF HandlerReadFd
  <2>6. CASE \E h \in Clients : ClientConnect(h)
    BY <1>2, <2>6 DEF ClientConnect, handlerVars
  <2>7. QED
    BY <1>2, <2>2, <2>3, <2>4, <2>5, <2>6, ServingFrame DEF ListenStep
<1>3. QED
  BY <1>1, <1>2 DEF Unlisted

\* The list of the clients' sockets grows by those that are registered, and so do
\* the handlers, of which only those that search the list lose it.
LEMMA HandlersGrow ==
    ASSUME TypeOK, Descriptors, [Next]_vars
    PROVE  /\ Len(clientFdList) \in Nat /\ Len(clientFdList') \in Nat
           /\ \/ Len(clientFdList') = Len(clientFdList) + 1
              \/ /\ Len(clientFdList') = Len(clientFdList)
                 /\ \A h \in Clients :
                      /\ handlerPc'[h] # "none" => handlerPc[h] # "none"
                      /\ handlerPc'[h] = "stale" => handlerPc[h] = "stale"
           /\ \A h \in Clients : handlerPc'[h] = "stale" => handlerPc[h] \in {"ip", "stale"}
<1> USE DEF signalVars, mainVars, listenVars, handlerVars, clientVars, toClientVars, toServerVars
<1>1. clientFdList \in Seq(Clients) /\ Len(clientFdList) \in Nat
  BY LenProperties DEF TypeOK
<1>2. CASE ListenRegister
  <2>1. clientFd \in Clients /\ clientFdList' = Append(clientFdList, clientFd)
    BY <1>2 DEF ListenRegister, Listen, Descriptors
  <2>2. Len(clientFdList') = Len(clientFdList) + 1
    BY <1>1, <2>1, AppendOf
  <2>3. \A h \in Clients : handlerPc'[h] = "stale" => handlerPc[h] \in {"ip", "stale"}
    BY <1>2, RegisterMoves
  <2>4. QED
    BY <1>1, <2>2, <2>3
<1>3. ASSUME ~ListenRegister PROVE UNCHANGED clientFdList
  <2>1. CASE MainStep
    BY <2>1 DEF MainStep, MainListen, MainLaunchProxy, MainKillProxy, MainRelaunchProxy,
                MainSendRestart, MainFinish
  <2>2. CASE ListenStep
    BY <1>3, <2>2 DEF ListenStep, ListenAccept, ListenAcceptFails
  <2>3. CASE \E h \in Clients : HandlerStep(h)
    BY <2>3 DEF HandlerStep, HandlerReadFd, HandlerSendIp, HandlerSendStart, HandlerRecv,
                HandlerPost, Handler
  <2>4. CASE \E c \in Clients : ClientStep(c)
    BY <2>4 DEF ClientStep, ClientConnect, ClientSetEntities, ClientReceive, ClientLaunch,
                ClientTakes
  <2>5. CASE \E c \in Clients, p \in Pids :
                ProcessDies(c, p, "running") \/ ProcessDies(c, p, "killed") \/ MonitorReport(c, p)
    BY <2>5 DEF ProcessDies, MonitorReport
  <2>6. CASE UNCHANGED vars \/ \E p \in ProxyPids : ProxyDies(p)
    BY <2>6 DEF vars, ProxyDies
  <2>7. QED
    BY <2>1, <2>2, <2>3, <2>4, <2>5, <2>6 DEF Next
<1>4. ASSUME ~ListenRegister, NEW h \in Clients
      PROVE  /\ handlerPc'[h] # "none" => handlerPc[h] # "none"
             /\ handlerPc'[h] = "stale" => handlerPc[h] = "stale"
  <2>1. CASE ListenAccept \/ ListenAcceptFails
    BY <2>1 DEF ListenAccept, ListenAcceptFails
  <2>2. ASSUME NEW g \in Clients, NEW from \in HandlerPlaces \ {"none"},
               NEW to \in {"ip", "start", "recv", "post"}, Handler(g, from, to)
        PROVE  /\ handlerPc'[h] # "none" => handlerPc[h] # "none"
               /\ handlerPc'[h] = "stale" => handlerPc[h] = "stale"
    BY <2>2 DEF Handler, TypeOK
  <2>3. CASE \E g \in Clients : HandlerReadFd(g)
    BY <2>2, <2>3 DEF HandlerReadFd, HandlerPlaces
  <2>4. CASE \E g \in Clients : ClientConnect(g)
    BY <2>4 DEF ClientConnect
  <2>5. QED
    BY <1>4, <2>1, <2>2, <2>3, <2>4, ServingFrame DEF ListenStep, HandlerPlaces
<1>5. QED
  BY <1>1, <1>2, <1>3, <1>4

\* A socket on which messages were mixed stays one.
LEMMA MixedStays ==
    ASSUME [Next]_vars, NEW c \in mixedToClient
    PROVE  c \in mixedToClient'
<1> USE DEF signalVars, mainVars, listenVars, handlerVars, clientVars, toClientVars, toServerVars
<1>1. CASE MainStep
  BY <1>1 DEF MainStep, MainListen, MainLaunchProxy, MainKillProxy, MainRelaunchProxy,
              MainSendRestart, MainFinish, SendToClient
<1>2. CASE ListenStep
  BY <1>2 DEF ListenStep, ListenAccept, ListenAcceptFails, ListenRegister, Listen
<1>3. CASE \E h \in Clients : HandlerStep(h)
  BY <1>3 DEF HandlerStep, HandlerReadFd, HandlerSendIp, HandlerSendStart, HandlerRecv,
              HandlerPost, Handler, SendToClient
<1>4. CASE \E d \in Clients : ClientStep(d)
  BY <1>4 DEF ClientStep, ClientConnect, ClientSetEntities, ClientReceive, ClientLaunch,
              ClientTakes
<1>5. CASE \E d \in Clients, p \in Pids :
              ProcessDies(d, p, "running") \/ ProcessDies(d, p, "killed") \/ MonitorReport(d, p)
  BY <1>5 DEF ProcessDies, MonitorReport
<1>6. CASE UNCHANGED vars \/ \E p \in ProxyPids : ProxyDies(p)
  BY <1>6 DEF vars, ProxyDies
<1>7. QED
  BY <1>1, <1>2, <1>3, <1>4, <1>5, <1>6 DEF Next

\* Junk and freed memory reach a launcher only by their causes.
LEMMA CausesStep ==
    ASSUME TypeOK, Descriptors, Registered, Causes, [Next]_vars
    PROVE  Causes'
<1>1. /\ Len(clientFdList) \in Nat /\ Len(clientFdList') \in Nat
      /\ Len(clientFdList') >= Len(clientFdList)
  BY HandlersGrow
<1>2. ASSUME NEW h \in Clients
      PROVE  /\ handlerPc'[h] # "none"  => Len(clientFdList') > 0
             /\ handlerPc'[h] = "stale" => Len(clientFdList') > 1
  BY HandlersGrow DEF Causes
<1>3. ASSUME NEW c \in Clients, UnderWay(c, "JUNK")' \/ opening'[c] = "junk"
      PROVE  Unlisted(c)'
  <2>1. \/ UnderWay(c, "JUNK") \/ opening[c] = "junk"
        \/ \E h \in Clients : HandlerSendIp(h) /\ handlerFd[h] = c /\ c \notin clientList
    BY <1>3, UnderWayFrame
  <2>2. ASSUME NEW h \in Clients, HandlerSendIp(h), handlerFd[h] = c, c \notin clientList
        PROVE  Unlisted(c)
    <3>1. handlerPc[h] # "none"
      BY <2>2 DEF HandlerSendIp, Handler
    <3>2. QED
      BY <2>2, <3>1 DEF Unlisted, OnlyOwn
  <2>3. Unlisted(c)
    BY <2>1, <2>2 DEF Causes
  <2>4. QED
    BY <2>3, UnlistedStays
<1>4. ASSUME NEW c \in Clients, UnderWay(c, "FREED")' \/ opening'[c] = "freed"
      PROVE  Len(clientFdList') > 1
  <2>1. \/ UnderWay(c, "FREED") \/ opening[c] = "freed"
        \/ \E h \in Clients : handlerPc[h] = "stale"
    BY <1>4, UnderWayFrame
  <2>2. QED
    BY <1>1, <2>1 DEF Causes
<1>5. ASSUME NEW c \in Clients, opening'[c] = "mixed"
      PROVE  c \in mixedToClient'
  <2>1. opening[c] \in Openings /\ toClient[c] \in Seq(ServerMessages)
    BY DEF TypeOK
  <2>2. opening[c] = "mixed" \/ c \in mixedToClient
    <3>1. ASSUME NEW m \in Received, toClient[c] # <<>>, m = Head(toClient[c])
          PROVE  m # "MIXED"
      BY <2>1, <3>1, HeadTailProperties DEF ServerMessages
    <3>2. \/ opening'[c] = opening[c]
          \/ \E m \in Received : /\ toClient[c] # <<>>
                                 /\ opening'[c] = NextOpening(opening[c], m)
                                 /\ m = Head(toClient[c]) \/ c \in mixedToClient
      BY SocketFrame
    <3>3. QED
      BY <1>5, <2>1, <3>1, <3>2, OpeningGoesOn
  <2>3. QED
    BY <2>2, MixedStays DEF Causes
<1>6. QED
  BY <1>2, <1>3, <1>4, <1>5 DEF Causes

\* Why a dialogue departs from what it should be, in every reachable state.
LEMMA CausesInvariance == Spec => []Causes
<1>1. Init => Causes
  <2> SUFFICES ASSUME Init PROVE Causes
    OBVIOUS
  <2>1. \A c \in Clients : toClient[c] = <<>> /\ Len(<<>>) = 0
    BY DEF Init
  <2>2. \A c \in Clients : ~UnderWay(c, "JUNK") /\ ~UnderWay(c, "FREED")
    BY <2>1 DEF UnderWay
  <2>3. QED
    BY <2>2 DEF Init, Causes
<1>2. Inv /\ Registered /\ Causes /\ [Next]_vars => Causes'
  BY CausesStep DEF Inv
<1>3. QED
  BY <1>1, <1>2, Invariance, DialoguesInvariance, PTL DEF Spec

\* A launcher that is sent a second IP or a second START has been served by a handler
\* that read client_fd too late; one that is sent an IP that was never set also when
\* it could not be listed; what else is no message is made of the bytes of two
\* threads or was read by a handler under which the list grew: TwiceOnlyByRace.
THEOREM OnlyTheRaceDoubles == Spec => []TwiceOnlyByRace
<1>1. Registered /\ (\A c \in Clients : Told(c)) /\ Causes => TwiceOnlyByRace
  BY DEF Told, OnlyOwn, WellServed, Causes, Unlisted, TwiceOnlyByRace
<1>2. QED
  BY <1>1, DialoguesInvariance, CausesInvariance, PTL

\* A launcher that was started, and whose socket no other handler has, has a
\* handler on the server's side that receives from it, or that posts what it has
\* received: the CRASHes of its entities have a reader.
StartedIsHeard ==
    \A c \in Clients :
        clientPc[c] = "loop" /\ opening[c] = "started" /\ (\A h \in Clients : handlerFd[h] = c => h = c)
        => handlerFd[c] = c /\ handlerPc[c] \in {"recv", "post"}

\* No launcher starts its entities before its handler is past its last send: the
\* START is sent by the handler that goes on to receive from the same socket, and
\* nobody else sends one.
THEOREM StartedAreHeard == Spec => []StartedIsHeard
<1>1. Registered /\ (\A c \in Clients : Told(c)) => StartedIsHeard
  <2> SUFFICES ASSUME NEW c \in Clients, Told(c), OnlyOwn(c),
                      clientPc[c] = "loop", opening[c] = "started"
               PROVE  SentStart(c)
    BY DEF StartedIsHeard, SentStart, OnlyOwn
  <2>1. Dialogue(toClient[c], "started", SentIp(c), SentStart(c), serverUp)
    BY DEF Told
  <2>2. QED
    BY <2>1 DEF Dialogue, AsDue
<1>2. QED
  BY <1>1, DialoguesInvariance, PTL

-----------------------------------------------------------------------------
(* What a restart waits for. *)

\* While a restart is carried out, and with it the mutex held that the handlers
\* need, main can take its next step, or waits for a proxy that was killed to die,
\* or for a launcher that takes its messages to take one; or for a launcher that
\* died while its processes hold the connection.
RestartGoesOn ==
    serverUp /\ serving =>
        \/ mainPc = "reap" /\ proxies[proxyPid] \in {"killed", "dead"}
        \/ mainPc = "send" /\ targets = <<>>
        \/ /\ mainPc = "send" /\ targets # <<>>
           /\ LET c == Head(targets) IN
              \/ ~Connected(c) \/ Len(toClient[c]) < SocketCap
              \/ clientPc[c] \in {"ip", "loop"}
              \/ clientPc[c] = "gone" /\ Connected(c)

\* The proxy that is waited for exists and was killed; the mutex is held in these
\* stages of main and in no other.
Reaping ==
    /\ proxyPid # None => proxies[proxyPid] # "none"
    /\ serverUp => (serving <=> mainPc \in {"reap", "send"})
    /\ serverUp /\ mainPc = "reap" => proxies[proxyPid] \in {"killed", "dead"}

\* Who is sent a RESTART has connected.
Known ==
    /\ \A i \in 1..Len(clientFdList) : clientPc[clientFdList[i]] # "off"
    /\ \A i \in 1..Len(targets) : clientPc[targets[i]] # "off"

\* Main and the proxies are left alone by all others.
LEMMA MainFrame ==
    ASSUME [Next]_vars
    PROVE  \/ MainStep
           \/ \E p \in ProxyPids : ProxyDies(p)
           \/ UNCHANGED <<serving, mainVars, proxies>> /\ (serverUp' => serverUp)
<1> USE DEF signalVars, mainVars, listenVars, handlerVars, clientVars, toClientVars, toServerVars
<1>1. CASE ListenStep
  BY <1>1 DEF ListenStep, ListenAccept, ListenAcceptFails, ListenRegister, Listen, ServerDies
<1>2. ASSUME NEW h \in Clients, HandlerStep(h)
      PROVE  UNCHANGED <<serving, mainVars, proxies>> /\ (serverUp' => serverUp)
  <2>1. CASE HandlerPost(h)
    BY <2>1 DEF HandlerPost, Handler, Signal!Post
  <2>2. QED
    BY <1>2, <2>1 DEF HandlerStep, HandlerReadFd, HandlerSendIp, HandlerSendStart,
                      HandlerRecv, Handler, SendToClient, ServerDies
<1>3. CASE \E c \in Clients : ClientStep(c)
  BY <1>3 DEF ClientStep, ClientConnect, ClientSetEntities, ClientReceive, ClientLaunch,
              ClientTakes
<1>4. CASE \E c \in Clients, p \in Pids :
              ProcessDies(c, p, "running") \/ ProcessDies(c, p, "killed") \/ MonitorReport(c, p)
  BY <1>4 DEF ProcessDies, MonitorReport, Unreported
<1>5. CASE UNCHANGED vars
  BY <1>5 DEF vars
<1>6. QED
  BY <1>1, <1>2, <1>3, <1>4, <1>5 DEF Next

\* SIGKILL comes before waitpid, and waitpid before the next proxy.
LEMMA ReapingStep ==
    ASSUME TypeOK, Proxies, Reaping, [Next]_vars
    PROVE  Reaping'
<1> USE DEF signalVars, mainVars, toClientVars, toServerVars
<1>0. None \notin ProxyPids \/ proxyPid = None \/ proxyPid \in ProxyPids
  BY DEF TypeOK
<1>1. CASE MainListen
  BY <1>1 DEF MainListen, Main, Reaping
<1>2. CASE MainLaunchProxy
  <2>1. Main("launch", "wait") /\ UNCHANGED <<serving, serverUp>>
    BY <1>2 DEF MainLaunchProxy
  <2>2. FreePid(proxies) \in ProxyPids
    BY <2>1, FreePidOfNone DEF Main, Proxies
  <2>3. \/ proxyPid' = FreePid(proxies) /\ proxies' = [proxies EXCEPT ![FreePid(proxies)] = "running"]
        \/ UNCHANGED <<proxyPid, proxies>>
    BY <1>2 DEF MainLaunchProxy
  <2>4. proxyPid' # None => proxies'[proxyPid'] # "none"
    BY <2>2, <2>3 DEF TypeOK, Reaping
  <2>5. QED
    BY <2>1, <2>4 DEF Main, Reaping
<1>3. CASE MainKillProxy
  <2>1. Main("wait", "reap") /\ serving' = TRUE /\ proxyPid' = proxyPid
    BY <1>3 DEF MainKillProxy, Signal!Begin
  <2>2. CASE proxyPid = None
    BY <1>3, <2>1, <2>2 DEF MainKillProxy, ServerDies, Reaping
  <2>3. CASE proxyPid # None
    <3>1. proxyPid \in ProxyPids
      BY <2>3 DEF TypeOK
    <3>2. proxies[proxyPid] \in {"running", "killed", "dead"}
      BY <2>3, <3>1 DEF TypeOK, Reaping
    <3>3. proxies' = [proxies EXCEPT ![proxyPid] =
                         IF proxies[proxyPid] = "running" THEN "killed" ELSE proxies[proxyPid]]
      BY <1>3, <2>3 DEF MainKillProxy
    <3>4. proxies'[proxyPid] \in {"killed", "dead"}
      BY <3>1, <3>2, <3>3 DEF TypeOK
    <3>5. QED
      BY <2>1, <3>4 DEF Main, Reaping
  <2>4. QED
    BY <2>2, <2>3
<1>4. CASE MainRelaunchProxy
  <2> DEFINE left == [proxies EXCEPT ![proxyPid] = "none"]
  <2>1. left \in [ProxyPids -> {"none", "running", "killed", "dead"}]
    BY DEF TypeOK
  <2>2. \A p \in ProxyPids : left[p] = "none"
    BY NothingLeft
  <2> HIDE DEF left
  <2>3. FreePid(left) \in ProxyPids
    BY <2>2, FreePidOfNone
  <2>4. \/ proxyPid' = FreePid(left) /\ proxies' = [left EXCEPT ![FreePid(left)] = "running"]
        \/ proxyPid' = None /\ proxies' = left
    BY <1>4 DEF MainRelaunchProxy, left
  <2>5. proxyPid' # None => proxies'[proxyPid'] # "none"
    BY <2>1, <2>3, <2>4
  <2>6. Main("reap", "send") /\ UNCHANGED <<serving, serverUp>>
    BY <1>4 DEF MainRelaunchProxy
  <2>7. QED
    BY <2>5, <2>6 DEF Main, Reaping
<1>5. CASE MainSendRestart
  <2>1. UNCHANGED <<serving, proxies, proxyPid>> /\ Main("send", "send")
    BY <1>5 DEF MainSendRestart
  <2>2. QED
    BY <2>1 DEF Main, Reaping
<1>6. CASE MainFinish
  BY <1>6 DEF MainFinish, Main, Signal!Finish, Reaping
<1>7. ASSUME NEW p \in ProxyPids, ProxyDies(p)
      PROVE  Reaping'
  <2>1. /\ \A q \in ProxyPids : proxies'[q] = IF q = p THEN "dead" ELSE proxies[q]
        /\ UNCHANGED <<serving, serverUp, mainPc, proxyPid>>
    BY <1>7 DEF ProxyDies, TypeOK
  <2>2. serverUp /\ mainPc = "reap" => proxyPid # None
    BY DEF Proxies
  <2>3. proxyPid # None => proxyPid \in ProxyPids
    BY DEF TypeOK
  <2>4. QED
    BY <2>1, <2>2, <2>3 DEF Reaping
<1>8. CASE UNCHANGED <<serving, mainVars, proxies>> /\ (serverUp' => serverUp)
  BY <1>8 DEF Reaping
<1>9. QED
  BY <1>1, <1>2, <1>3, <1>4, <1>5, <1>6, <1>7, <1>8, MainFrame DEF MainStep

\* A launcher that has connected stays so.
LEMMA ConnectedStays ==
    ASSUME TypeOK, [Next]_vars
    PROVE  \A c \in Clients : clientPc'[c] = "off" => clientPc[c] = "off"
<1> USE DEF listenVars, handlerVars, clientVars, toClientVars, toServerVars
<1>1. CASE ListenStep
  BY <1>1 DEF ListenStep, ListenAccept, ListenAcceptFails, ListenRegister, Listen
<1>2. ASSUME NEW h \in Clients, NEW from, NEW to, Handler(h, from, to)
      PROVE  UNCHANGED clientPc
  BY <1>2 DEF Handler
<1>3. ASSUME NEW c \in Clients, ClientConnect(c)
      PROVE  \A d \in Clients : clientPc'[d] = "off" => clientPc[d] = "off"
  BY <1>3 DEF ClientConnect, TypeOK
<1>4. CASE \E h \in Clients : HandlerReadFd(h)
  BY <1>2, <1>4 DEF HandlerReadFd
<1>5. QED
  BY ServingFrame, <1>1, <1>2, <1>3, <1>4

\* client_fd_list grows by accepted connections, and targets is taken from it.
LEMMA KnownStep ==
    ASSUME TypeOK, Descriptors, Registered, Known, [Next]_vars
    PROVE  Known'
<1> USE DEF signalVars, mainVars, listenVars, handlerVars, clientVars, toClientVars, toServerVars
<1>1. ASSUME NEW q \in Seq(Clients), \A i \in 1..Len(q) : clientPc[q[i]] # "off"
      PROVE  \A i \in 1..Len(q) : clientPc'[q[i]] # "off"
  BY <1>1, ConnectedStays, ElementOfSeq
<1>2. clientFdList \in Seq(Clients) /\ targets \in Seq(Clients)
  BY DEF TypeOK
<1>3. CASE ListenRegister
  <2>1. clientFd \in Clients /\ Waiting(clientFd)
    BY <1>3 DEF ListenRegister, Listen, Descriptors, Waiting
  <2>2. clientPc[clientFd] # "off"
    BY <2>1 DEF Registered
  <2>3. /\ UNCHANGED <<targets, clientPc>>
        /\ clientFdList' = Append(clientFdList, clientFd)
    BY <1>3 DEF ListenRegister, Listen
  <2> DEFINE z == Append(clientFdList, clientFd)
             L == Len(clientFdList)
  <2>4. \A i \in 1..Len(z) : i = L + 1 \/ (i \in 1..L /\ z[i] = clientFdList[i])
    BY <1>2, <2>1, AppendOf
  <2>5. z[L + 1] = clientFd
    BY <1>2, <2>1, AppendOf
  <2>6. \A i \in 1..L : clientPc[clientFdList[i]] # "off"
    BY DEF Known
  <2> HIDE DEF z, L
  <2>7. \A i \in 1..Len(z) : clientPc[z[i]] # "off"
    BY <2>2, <2>4, <2>5, <2>6
  <2>8. QED
    BY <2>3, <2>7 DEF Known, z
<1>4. CASE MainRelaunchProxy
  <2>1. targets' = clientFdList /\ UNCHANGED <<clientFdList, clientPc>>
    BY <1>4 DEF MainRelaunchProxy
  <2>2. QED
    BY <2>1 DEF Known
<1>5. CASE MainSendRestart
  <2>1. targets # <<>> /\ targets' = Tail(targets) /\ UNCHANGED <<clientFdList, clientPc>>
    BY <1>5 DEF MainSendRestart
  <2>2. \A i \in 1..Len(Tail(targets)) : i + 1 \in 1..Len(targets) /\ Tail(targets)[i] = targets[i + 1]
    BY <1>2, <2>1, TailOf
  <2>3. QED
    BY <2>1, <2>2 DEF Known
<1>6. CASE UNCHANGED <<targets, clientFdList>>
  BY <1>1, <1>2, <1>6 DEF Known
<1>7. CASE MainListen \/ MainLaunchProxy \/ MainKillProxy \/ MainFinish
  BY <1>6, <1>7 DEF MainListen, MainLaunchProxy, MainKillProxy, MainFinish
<1>8. CASE ListenAccept \/ ListenAcceptFails
  BY <1>6, <1>8 DEF ListenAccept, ListenAcceptFails, Listen
<1>9. CASE \E p \in ProxyPids : ProxyDies(p)
  BY <1>6, <1>9 DEF ProxyDies
<1>10. CASE \E h \in Clients : HandlerStep(h)
  BY <1>6, <1>10 DEF HandlerStep, HandlerReadFd, HandlerSendIp, HandlerSendStart, HandlerRecv,
                     HandlerPost, Handler
<1>11. CASE \E c \in Clients : ClientStep(c)
  BY <1>6, <1>11 DEF ClientStep, ClientConnect, ClientSetEntities, ClientReceive, ClientLaunch,
                     ClientTakes
<1>12. CASE \E c \in Clients, p \in Pids :
              ProcessDies(c, p, "running") \/ ProcessDies(c, p, "killed") \/ MonitorReport(c, p)
  BY <1>6, <1>12 DEF ProcessDies, MonitorReport, Unreported
<1>13. CASE UNCHANGED vars
  BY <1>6, <1>13 DEF vars
<1>14. QED
  BY <1>3, <1>4, <1>5, <1>7, <1>8, <1>9, <1>10, <1>11, <1>12, <1>13
     DEF Next, MainStep, ListenStep

\* A restart never waits for a proxy that is not going to die, nor for a launcher
\* that has not connected: what it waits for can go on without the mutex.
THEOREM RestartsWaitOnlyForOthers == Spec => []RestartGoesOn
<1>1. Init => Registered /\ Reaping /\ Known
  <2>1. Init => Reaping
    BY DEF Init, Reaping, Signal!SignalInit
  <2>2. Init => Known
    BY DEF Init, Known
  <2>3. QED
    BY <2>1, <2>2, InitDialogues
<1>2. Inv /\ Registered /\ Reaping /\ Known /\ [Next]_vars => Registered' /\ Reaping' /\ Known'
  BY RegisteredStep, ReapingStep, KnownStep DEF Inv
<1>3. Inv /\ Reaping /\ Known => RestartGoesOn
  <2> SUFFICES ASSUME Inv, Reaping, Known, serverUp, serving, mainPc = "send", targets # <<>>
               PROVE  LET c == Head(targets) IN
                      \/ ~Connected(c) \/ Len(toClient[c]) < SocketCap
                      \/ clientPc[c] \in {"ip", "loop"}
                      \/ clientPc[c] = "gone" /\ Connected(c)
    BY DEF RestartGoesOn, Reaping
  <2>1. targets \in Seq(Clients)
    BY DEF Inv, TypeOK
  <2>2. 1 \in 1..Len(targets) /\ targets[1] = Head(targets)
    BY <2>1, TailOf
  <2>3. Head(targets) \in Clients
    BY <2>1, HeadTailProperties
  <2>4. clientPc[Head(targets)] \in {"ip", "loop", "gone"}
    BY <2>2, <2>3 DEF Inv, TypeOK, Known
  <2>5. QED
    BY <2>4
<1>4. QED
  BY <1>1, <1>2, <1>3, Invariance, PTL DEF Spec
=============================================================================
