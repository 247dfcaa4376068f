# cezFuzzer in TLA+

This directory holds a formal model of cezFuzzer (`src/`): TLA+ modules
translated from the C++ sources, TLC configurations that check them on small
instances, and theorems that TLAPS proves for every instance.

cezFuzzer puts two programs under test into containers and a proxy between
them. The proxy relays their UDP datagrams or TCP connections, mutates what
passes, and a pair of launchers notices when a program crashes and restarts
everything.

## 1. The system

```
  commander (Python): builds the containers, writes the redirections, starts
      |               one launcher in each container, then it is done
      v
  server launcher --- framed messages over TCP --- client launcher (one per container)
      | fork/SIGKILL/waitpid                          | fork/SIGKILL/waitpid
      v                                               v
    proxy  <---- redirected datagrams, connections --- entities (programs under test)
      | fork, pipes
      v
   radamsa
```

| Part | Source | State | Operations |
|---|---|---|---|
| Server launcher | `src/luncher/server` | `proxyPid`, `client_list`, `client_fd_list`, the notification (flag, message, mutex, condition) | main waits for a notification, kills and relaunches the proxy, sends RESTART to every client; a listen thread accepts clients; one handler thread per client sends it its IP and START and then turns each CRASH into a notification |
| Client launcher | `src/luncher/client` | its entities, `processList` | takes its IP, launches on START, kills and launches on RESTART; one monitor thread per child waits for its end and sends CRASH |
| Messages | `send_message`, `recv_message` of both | bytes on a socket | length (a `size_t`) and payload, resumed until complete |
| UDP relay | `src/proxy/src/UDPHandler.cpp`, `UDPConnection.hpp` | four sockets per connection, `dynamic_ports_` | a recv thread per side queues the port of a dynamic side and forwards requests; a send thread per side pops a port and forwards answers |
| TCP relay | `TCPHandler.cpp`, `TCPConnection.cpp` | listen sockets, pairs of sockets | accept, connect, two forwarding threads |
| Fuzzer | `Fuzzer.cpp` | two pipes and a child per call; the buffers of a call | `runRadamsa`; five ways to build a message from buffers that are allocated, repeated, cut and freed |
| Proxy start-up | `main.cpp`, `ProxyBase.cpp` | owns the handlers, the bound ports | builds them from the configuration; destroys them at the end of a `try` block |
| Commander, configuration | `src/commander`, both `ConfigurationManager.cpp` | `config.yaml` | completes ports, draws proxy ports for each connection and server, writes DNAT rules; launchers and proxy parse the result |

How they interact: the launchers by messages; the threads of one process by
shared variables, some under a mutex and some not; processes by fork, signals
and exit statuses; the relay threads by a shared queue and by descriptors
passed by value; the threads that call radamsa by the descriptors a fork
inherits.

What is hard here, and where it is looked at (every item is a hazard of
`PROJECT.json`, at its line):

* the order of flag, signal and sleep in the notification (`Notification`);
* threads that share a variable, a vector or a socket without a lock
  (`client_fd`, `client_fd_list`, `client_list`, the socket of a client
  launcher), modelled as races in `Launcher` and `Framing`;
* lists that grow, and move, while another thread has a pointer into them
  (`addNewClient`, `push_back`), and objects that are destroyed while threads use
  them (`Launcher`, `UdpRelay`, `TcpRelay`);
* main keeps the mutex while it sends, handlers need it to read on: everybody
  could wait for everybody (`Launcher`);
* crashes during restarts, restarts that cause crash reports, processes that
  die while they are being restarted (`Launcher`);
* partial sends and receives, connections that break in the middle of a
  message (`Framing`);
* answers matched to requests by arrival order only, empty datagrams, lost
  answers (`UdpRelay`);
* fork in a process with several threads, each with pipes of its own, with
  failures on every call (`RadamsaPipes`);
* peers that close, reset, refuse or stop to read, threads that are not created,
  descriptors that run out, and failures that end the whole process (`TcpRelay`);
* calls of the fuzzer that give nothing, or never return, in the middle of a relay
  thread (`UdpRelay`, `TcpRelay`, `FuzzBuffers`);
* up to seven buffers in one call, each `malloc` and each radamsa of which may
  fail, loops with a shorter last copy, results that are normalised after they
  were built (`FuzzBuffers`);
* three programs that share nothing but a file: where a container sends, where
  the proxy listens and where it sends on must fit together (`Redirections`).

## 2. The modules

| Module | Models | Used by |
|---|---|---|
| `RestartSignal` | abstract: a posted crash is covered by a restart that begins later | `Notification` implements it, `Launcher` uses it |
| `Notification` | the mutex, condition variable and flag of `Server.cpp`, statement by statement | `NotificationProofs` |
| `NotificationProofs` | the theorems about `Notification` | |
| `Launcher` | both launchers, their threads, processes and messages | `MCLauncher`, `LauncherProofs` |
| `MessageChannel` | abstract: messages arrive in order and once, until the connection breaks | `Framing` implements it |
| `Framing` | `send_message` and `recv_message` byte by byte | `MCFraming`, `FramingProofs` |
| `FramingProofs` | the theorems about `Framing` | |
| `UdpRelay` | one UDP connection of the proxy | `MCUdpRelay`, `UdpRelayProofs` |
| `UdpRelayProofs` | the theorems about `UdpRelay` | |
| `LauncherProofs` | the theorems about `Launcher` | |
| `RadamsaPipes` | concurrent calls of `FuzzerCore::runRadamsa` | `RadamsaPipesProofs` |
| `RadamsaPipesProofs` | the theorems about `RadamsaPipes` | |
| `FuzzBuffers` | `pass`, `guidedFuzzing`, `postFuzzing`, `preFuzzing`, `fullFuzzing` and what they call, allocation by allocation and copy by copy | `MCFuzzBuffers`, `FuzzBuffersProofs` |
| `FuzzBuffersProofs` | the theorems about `FuzzBuffers` | |
| `TcpRelay` | the listen and connection threads of the TCP side | `MCTcpRelay`, `TcpRelayProofs` |
| `TcpRelayProofs` | the theorems about `TcpRelay` | |
| `Redirections` | from `config.yaml` through the commander, the launchers' and the proxy's parse to the bound sockets | `MCRedirections`, `RedirectionsProofs` |
| `RedirectionsProofs` | the theorems about `Redirections` | |

`Launcher` is composed of the launchers and of `RestartSignal`: a message is one
element of a queue there, because `Framing` shows that the bytes of one sender
behave like that, and what it shows of several senders is there too: where two
threads are sending on one socket at a time, its reader may from then on take any
message for bytes of no meaning. The notification is three variables and three atomic steps, because
`Notification` shows that the code behind them implements these. The proofs
make the second substitution valid for any number of handler threads. In the
same way `FuzzBuffers` takes one call of `runRadamsa` for one step that fails,
gives some output or never returns; `RadamsaPipes` says when it does not return
(the child of another thread holds an end of its pipes). The relays take the
fuzzer for one step that gives a message, gives nothing, or does not return: with
an empty message, or because of such a radamsa. `FuzzBuffers` shows that a call
does not return in these two cases only (`CallReturns`).

An operator whose comment begins "Mutated form" is a deliberately wrong variant
of the definition that follows it. None is part of a specification; they stand
beside the definition they vary so that each property can be seen to fail when
the code is changed in that way.

### Correspondence with the code

*Notification.* `mutex` is `_notificatioMutex` (who owns it), `notification`
and `notificationMessage` the two globals. A handler goes
`recv -> lock -> message -> flag -> signal -> unlock` (`handle_client_connection`),
main `lock -> test -> (asleep -> woken ->)* restart -> clear -> unlock`.
`pthread_cond_wait` releases the mutex and sleeps in one step, may wake up
spuriously (which POSIX allows and the `while` is there for), and a signal
without a sleeper is lost. `pending`, the handlers that have raised the flag
since the last restart began, exists for the properties only.

*Launcher.* Main: `MainListen` (`init_server`) and `MainLaunchProxy`, between
which clients may already connect, start and crash; a client launcher that
connects before that is refused and ends, since nobody starts it again. Then
`MainKillProxy` (SIGKILL), `MainRelaunchProxy` (waitpid and
fork), `MainSendRestart` once per client, `MainFinish`. The listen thread:
`ListenAccept` writes `client_fd`, `ListenRegister` appends to both lists and
creates the handler with the *address* of `client_fd`; `HandlerReadFd` reads it,
perhaps after the next accept. A `push_back` while main iterates over the
vector, and an IP read from an uninitialised `ci`, are undefined behaviour:
the server may die there, and the message sent may be anything ("JUNK"). The
`realloc` of `addNewClient` may move the list under handlers between their search
and their send (`handlerPc = "stale"`): what they send may be the IP, which the
freed memory may still hold, anything else ("FREED"), or the server dies. When the
`realloc` fails the client is not listed. `Sending(c)` are the threads of the
server that are sending to client `c`; when there are two of them the socket
becomes one of `mixedToClient`, and its client may take any message for "MIXED".
The same is true of two monitors (`Unreported`) and `mixedToServer`, from which a
handler may miss a CRASH.
Clients: `ClientConnect`, `ClientSetEntities`, `ClientReceive`, `ClientLaunch`
(one turn of the loop each), `ProcessDies`, `MonitorReport`. A process is
running, killed (SIGKILL sent and not yet delivered), dead (not yet reaped) or
gone; one that is not `monitored`, because `pthread_create` failed, is neither
reported nor reaped. `pthread_detach` then gets what is no thread, and the
launcher may die. Children inherit every socket: the processes of a launcher that
died keep its connection open (`Connected`), and a proxy keeps the server's
listening socket open when the server is gone (`Listening`). What is sent to a
launcher when nobody holds its connection is lost, and a later send may end the
server (`SendToClient`); that the reset may also take with it CRASHes the server
has not read yet is left out. `opening` records how the dialogue with a client began, for the
properties.

*Framing.* `stream` holds bytes; every `send` and `recv` moves any number of
them that fits. `header` and `body` are what the receiver has of the length and
of the payload. A received length above `MAX_MSG_SIZE` makes `recv_message`
return -1, as the end of the stream does, and leaves the payload in the stream; a
length of zero, which nobody sends but which mixed bytes may make, is an empty
message.

*UdpRelay.* One connection of `UDPHandler`. A socket is named by its kind and
by the entity whose datagrams arrive there, and its thread goes
`recvfrom -> target -> store -> sendto` (recv threads) or
`recvfrom -> target -> sendto` (send threads). `popDynamicPort` and
`pushDynamicPort` are two critical sections of one mutex, hence two actions. A
datagram remembers the port of the request it belongs to, which the code cannot
see: that is how "the answer went to the right port" can be stated. A thread may
not have been started ("missing"), not come back from radamsa ("stuck"), or have
ended with an empty datagram ("closed"). A datagram is empty because an entity
sends it so, because a null result of the fuzzer is sent as one (`Forward`), or
because a server answers nothing with nothing (`EntityReceives`).
`MainLeavesTry` destroys the `UDPHandler` with the fuzzer all the threads use: from
then on a radamsa may run with arguments of any kind, and not return.

*RadamsaPipes.* `holders[t][e]` is the set of processes that have end `e` of
the pipes of call `t` open. `Fork` copies every descriptor the proxy has, those
of other calls too; `Exec` closes two of them. A read ends when data or no
writer is there; radamsa reads to the end of its input first.

*TcpRelay.* `wire[k]` is what is on its way from the peer at socket `k`,
`buffer[k]` what the thread of `k` has received, `got[k]` what the peer at `k`
was sent. `recv` returning 0 is not told from data by the code, -1 ends the
process; a send to a peer that closed provokes a reset, and the next send may
raise SIGPIPE; a send to a peer that does not read ("stalled") waits.
`MainLeavesTry` destroys the `TCPHandler` the listen threads still use.
`ListenPair` starts both threads, one of them, or none, since the code does not
notice that `pthread_create` failed. `ThreadFuzz` is the call of `postFuzzing`,
after which the chunk is sent with its fuzz, or nothing is (a malloc failed; `lost`
keeps the chunk for the properties), or the thread does not come back. `maxFds` is
the limit of descriptors, at which `accept` waits and `socket` ends the proxy.

*FuzzBuffers.* `heap` holds the buffer behind each pointer of the code, `Null`
for `nullptr`; a fresh buffer is full of `Junk`, which no byte is equal to.
`Radamsa`, `Expand`, `Normalize`, `Fill`, `FillEnd`, `Again` and `Combine` are
the calls and loops of `runRadamsaExpanded`, `normalizeOutputSize` and the
strategies; `Fill` is one iteration of a loop, the next copy of the source, cut
at the end. `src` and `run` say which buffer is being repeated and for which of
the two fuzzes. A `malloc` may fail wherever the code calls it; `mallocFailed`
exists for the properties. A call that radamsa keeps is at "stuck".

*Redirections.* The steps of the commander in the order of `main.py`:
`NormalizeUdpPorts`, `LoadConnections`, then the loop over the entities
(`NextEntity`) and in it the one over the destinations of each
(`InjectConnection`), `LoadRedirections`, `InjectRedirection` per entity,
`LaunchContainers`. Then `StartLaunchers`, the proxy's `ParseConfig`,
`BuildConnection` per connection and `ListenRedirection` per redirection; `todo`
is what is left of the loop that runs. `HasRule` says which rules
`docker_build.py` writes into the container of an entity, `Catches` which
datagrams a rule matches, and `UdpRoute` that the first rule that matches wins,
as it does for iptables; `TcpRoute` is the rule of a TCP client. The ports that
are drawn are only compared with each other and with the launcher's, so the run
takes the smallest free one for all others (`SmallestPort`); the proofs do not.
The programs do not read the file alike. A key may be missing (`Absent`) or have no
value (`Null`), which the commander tells apart and `parse` does not; most of the
commander lowers the protocol (`IsAnyTcp`, `IsAnyUdp`), `normalize_udp_ports` and
the proxy do not (`IsTcp`, `IsUdp`). `wellFormed` stands for all keys but the ports
that `parse` asks for: it is a choice of the initial state, and false when one of
them is missing or of another type.

## 3. The runs

Deadlock is checked in `notification`, whose threads never stop. The other systems
may stop (the server launcher is dead, every bounded sender is done, every peer is
gone, radamsa keeps the threads, the proxy is up), so
their configurations say `CHECK_DEADLOCK FALSE`; that nothing is stuck otherwise is
what their liveness properties say.

| Run | Question | Result |
|---|---|---|
| `notification` | three handlers and main: is a wake-up lost, a crash forgotten, the mutex misused? Does the code implement `RestartSignal`, fairness included? | holds |
| `launcher_safety` | two client launchers, with reallocs, accepts, thread creations and client forks that fail: who can be sent a dialogue other than IP, START, RESTARTs? | holds: a second IP or START comes from the race on `client_fd`, junk from that or from a list without the client, freed memory from a list that moved, mixed bytes from two senders |
| `launcher_live` | does a launcher that connects start its entity, and is a crash answered by a relaunch, from the first moment the server listens, while the two processes of the entity may report at the same time? | holds for a launcher that its own handler serves, whose dialogue is as due, and whose monitors did not mix their CRASHes |
| `launcher_restart` | one launcher, two entities, sockets with room for one message, a proxy that crashes by itself or cannot be forked, monitor threads that cannot be created, a launcher that dies of it: are there ever two proxies, two instances of an entity, an instance no RESTART would kill? Does a restart, which sends with the mutex held, come to its end? | holds: one instance of each entity that was addressed properly, reported or not, and the receiver of a RESTART never waits for a CRASH to be read; main does wait for a launcher that died and left processes behind |
| `launcher_storm` | do restarts end when crashes do? | **violated** |
| `framing_one_sender` | one sender, any split of the bytes, a connection that may break anywhere: are messages received whole, in order, once? | holds (`MessageChannel` is implemented) |
| `framing_monitors` | two monitor threads on one socket: does at least one CRASH arrive? | **violated** |
| `udp_relay` | a client with two source ports, a server that answers in order; requests and answers that are empty, threads that are missing, a fuzzer that gives nothing, does not return or is destroyed, a proxy that is killed: does each answer go to the port that asked? Is the port always queued before the answer can come? Is each datagram taken? | holds; a datagram is left at a thread that was not started, that an empty one ended, or that radamsa keeps |
| `radamsa_pipes` | two threads in `runRadamsa`, every system call may fail: zombies, leaked descriptors, SIGPIPE, calls that do not return | holds, with the exceptions the properties name: descriptors leak when `fork` or the second `pipe` fails, SIGPIPE needs a missing radamsa, and a call that hangs has had its pipes inherited |
| `tcp_relay` | two connections through one listen thread, limits of 2, 3 and 4 descriptors, a server that refuses, stalls or crashes, threads that are not created, mallocs that fail, radamsas that do not return: does data cross over, come twice or out of order? Is every chunk taken? | holds; a failed `malloc` loses a chunk, and a chunk is not taken when its own thread was not created, is kept by radamsa or by a peer that does not read, or its connection waits for a descriptor (`Excused`); other connections are not affected |
| `fuzz_buffers` | all five operations, again and again, while any `malloc` and any radamsa may fail: is a buffer leaked, a byte sent that nobody wrote, the message cut, the promised length missed? Does a call return? | holds; a call does not return when it repeats an empty message, radamsa having given nothing, or when radamsa keeps it |
| `redirections` | every small configuration: does the system start, and does what a container redirects arrive at a bound socket of its own connection and go on to where it was sent? | holds, with the preconditions the properties name (below) |

### What the violated runs show

* `launcher_storm`. `README.md:11` promises to detect crashes. `monitor_child`
  (`Client.cpp:81`) reports every end of a process, also that by the SIGKILL of
  a RESTART. So every restart produces as many CRASHes as it killed processes,
  each the cause of another restart; after one real crash the system restarts
  for ever.
* `framing_monitors`. Two threads that send on one socket interleave their
  lengths and payloads; the receiver then reads a length of no meaning and may
  wait for bytes that do not come. Neither CRASH is received.

### Exceptions that properties name

A property that holds only with an exception says so in its formula; these are
the weaknesses of the code that have no run of their own.

* Handlers read `client_fd` through a pointer: two launchers that connect in
  quick succession may both be served on the second socket, and the first is
  never started. `StartedAndRelaunched` excepts a launcher that is not
  `WellServed`; `TwiceOnlyByRace` is the other side of it: nothing else makes it be
  sent an IP or a START twice.
* A launcher may be sent an IP that is none: its handler has the descriptor of
  another connection, its `realloc` failed, or a later accept moved the list
  between search and send. And two threads of the server may send to it at the same
  time (main its RESTART, a handler an IP or START), or two of its monitors to the
  server, so that the bytes run into one another. `opening` keeps which of these a
  dialogue departed by; `TwiceOnlyByRace` gives each its cause,
  `StartedAndRelaunched` excepts them.
* A RESTART that comes before the START makes a launcher start its entities with
  the RESTART and, when the START comes, once more (`opening = "early"`).
* A launcher that died leaves processes that hold its connection and never read
  it: main, with the mutex, may wait for room for ever (`RestartCompletes`).
* The child of one call of `runRadamsa` inherits the write end of another call's
  input pipe if it is forked between that call's `pipe` and `close`: each radamsa
  waits for the end of an input the other holds open (`ReturnsUnlessInherited`).
  The thread that waits so serves its socket no more, which `CallReturns`,
  `EveryDatagramTaken` and `EveryChunkTaken` except ("stuck").
* A `malloc` that fails in `postFuzzing` loses a TCP chunk (`lost` in `InOrder`)
  and empties a UDP datagram, which may end the thread that takes the answer.
* `AcceptedParses` excepts the keys the commander never asks for (role, binary path
  and so on, and the port of the fuzzer) and empty ports but those of udp entities:
  with any of them the launchers end after the containers were started.
  `ReachesItsConnection` needs an entity whose protocol is `udp` in these letters,
  `ConnectsThroughProxy` one whose protocol is `tcp` in these letters: the commander
  takes `udp` for the default and lowers the case, the proxy does neither, and
  starts no relay when no entity is spelt so. `PortsKept` needs a file that gives
  every machine one port, as entity and as destination (`Consistent`), and
  `ConnectsThroughProxy` says nothing when the port drawn is 23927, the server
  launcher's.
* With both sides of a UDP connection dynamic the shared queue mixes their ports
  (`QueueOfDynamicSide` is stated for one dynamic side), one unanswered request
  makes all later answers go one port astray (`udp_relay` has
  `MayIgnore = FALSE`), and no socket of a TCP connection is ever closed.

### Bounds

| Bound | Where | Why it is enough |
|---|---|---|
| 3 handlers | `notification` | one that is served, one that posts before and one that posts during a restart; the proofs lift it to any number |
| 2 clients, 1 process number each | `launcher_safety` | two are needed for the race on `client_fd`, for a list that moves under a handler and for two handlers on one socket; of processes one that crashes is enough to make main send. Launchers are interchangeable, so symmetry is used (safety only); the proofs take any number of each |
| 1 client, 2 process numbers | `launcher_restart` | an old instance beside a new one, and a zombie that nobody reaps beside either; with one launcher, all of main's sends go to the socket that may be full |
| 2 clients, 1 entity, 2 process numbers | `launcher_live` | the second launcher races for `client_fd`, moves the lists and gets RESTARTs; two processes of the entity, the old and the new one, may report at the same time. An entity of the second launcher too would make a space out of reach within minutes; at the process limit, entities of one launcher could keep one another from being forked |
| `SocketCap` = 1 message | `Launcher` | the smallest buffer is the one most likely to make somebody wait |
| `ProxyPids` = 2 | `Launcher` | room for a proxy beside the old one, which `OneProxy` says there never is |
| 3 messages of 8 bytes, 10 bytes of socket | `framing_one_sender` | the socket holds less than one message (16 bytes with its length), so every split over several sends and receives occurs; the proofs take any messages and any socket |
| 2 CRASHes, 8 bytes of socket | `framing_monitors` | enough for the interleaving |
| 3 requests, 2 ports | `udp_relay` | the queue holds equal and different ports at once, in every order; the proofs take any number |
| 2 threads | `radamsa_pipes` | inheritance needs two calls; each thread calls again and again |
| messages of 0 to 3 bytes, outputs of 1, 2, 3 and 5, `MinOutput` = 4, `MaxBuffer` = 13 | `fuzz_buffers` | outputs that are shorter than the minimum, divide it, do not divide it and exceed it; 13 has room for two fuzzes and a message, as `MAX_BUFFER_SIZE` has (a hundred times the minimum). The proofs lift all of it |
| two UDP entities with every choice of ports, destinations and protocol keys, a star of three, two TCP servers and a client | `redirections` | pairs that name each other, twice, with and without ports; two connections to one machine; 16 proxy ports are enough for the most connections, 3 being the launcher's. With `SmallestPort` one port stands for those that could be drawn instead of it. The proofs lift all of it |
| 2 connections, 2 chunks from the client and 1 from the server of one, 1 from the client of the other; 2, 3 or 4 descriptors | `tcp_relay` | enough to cross over, to be split by a `recv` and to be interrupted; with 2 descriptors the second connection is never accepted, with 3 it ends the proxy, with 4 both are served. One server is eventful: it stalls, closes or crashes. `InOrder` is proved for any number of each |

### Fairness

Weak fairness for each thread and child process, the thread of `FuzzBuffers`
included: the operating system schedules them. Strong fairness where a thread competes for something that is free again
and again: the grant of a mutex (`HandlerLock`, `HandlerPost`) and room in a
socket that several monitor threads send to; a mutex of glibc does not promise
order, but a thread that is passed over for ever is not what the code is meant
to deal with. A killed process dies. Nothing obliges an entity or a proxy to
crash, a peer to send, to read, to close or to answer, or a system call to fail.
Fairness makes no call return that blocks: a thread that radamsa keeps has no step
(it is at "stuck", where its call of the fuzzer may take it at any time), nor has a
send to a peer that has stalled.

## 4. The proofs

All theorems are checked by TLAPS to the last leaf; they assume only the
ASSUMEs of the modules they are about (threads are distinct from one another and
from "nobody", the ports of the two sides are disjoint, ...).

`NotificationProofs`. The four invariants of the run are not inductive. They
are after two facts are added: whoever has raised the flag has written the
message before (`FlagHasMessage`), since main dispatches on the message, and the
flag stays up from main's wake-up to its clear (`RestartIsAsked`). Everything
rests on mutual exclusion: a handler between lock and unlock excludes main and
the others from the notification (`HandlerExcludes`, `MainExcludes`). From the
invariant follow `TypeCorrect`, `MutualExclusion`, `WakeupNotLost`,
`CrashNotForgotten`, and the safety part of the refinement, `RefinesSignal`:
setting the flag is the post, main's restart the beginning of the service,
clearing the flag its end.

`LauncherProofs`. `LauncherTypeCorrect`, `NoTwoProxies`, `NoOrphans`,
`InstancesAreSingle` and `OnlyTheRaceDoubles`, for any number of launchers,
entities and processes, any size of sockets, any failures, and including the
undefined behaviour of the races, the lists that move and the messages that mix. The invariant has a part for each component: a
thread uses a descriptor only where it has one (`Descriptors`); the one proxy
there may be is the one `proxyPid` names (`Proxies`), so nothing is left when
main has reaped it; `processList` names whatever runs (`Launched`), so a RESTART
kills it all (`RestartKillsAll`); and before its START a launcher has launched
nothing, after it what is still to be launched does not run (`Opened`).
`OneInstance` alone is not inductive: it needs `NoOrphan`, and that nothing runs
which is still on the list of `start_entities`. `ServerFrame` and `ClientFrame`
say which steps leave a component alone.

`OnlyTheRaceDoubles` (`TwiceOnlyByRace`) says of every way in which a launcher's
dialogue can depart from an IP, a START and RESTARTs what must have happened. It has
invariants of its own, because it relates what a client has received to what is
still on its way. A launcher is in the backlog, with the listen thread, or has a
handler, and never two of these (`Registered`); while no handler but its own has its
socket, the messages in `toClient`, the place of the handler and `opening` fit
together (`Told`, `Dialogue`): what is under way is one IP, or something in its
place, before one START, not yet received, and RESTARTs anywhere. The IP need only
be there while the server is up, since the send of it may be what ends the server.
So a second IP or START needs a second handler. The other departures are traced back
from what a launcher took to what is under way to the handler that sent it
(`Causes`): "JUNK" is sent to a launcher that is not listed, "FREED" by a handler
under which a later accept moved the list, and "MIXED" is taken from a mixed socket.

Two theorems are the safety that the liveness of the launchers rests on.
`StartedAreHeard` (a consequence of `Told`): a launcher that was started has a
handler that receives from its socket or posts what it received, as long as no
other handler took its descriptor, so the CRASHes of its entities have a reader
(`StartedAndRelaunched`). `RestartsWaitOnlyForOthers`: while a restart is carried
out, and the handlers are kept from the mutex, main can take its next step or
waits for somebody who does not need the mutex: a proxy that has already been
killed (`Reaping`), or a launcher that has connected (`Known`) and takes its
messages. What is left is the launcher that died while its processes hold its
connection, which `RestartCompletes` excepts too.

`UdpRelayProofs`. `RelayTypeCorrect`, and `QueueHoldsDynamicPorts`: when one
side is dynamic, the shared queue holds ports of that side only, for any
configuration of ports, any number of requests, empty or not, from either side,
answered or not. The queue alone is not inductive: what is pushed is the `from`
of the datagram a recv thread works on, which came out of an inbox. The
invariant adds `RecvHoldsOwnPorts`: whatever waits at the recv socket of a side,
or is being worked on there, came from a port of that side.

`AnswersFindAPort` (`NoFallback`) and `AnswersReachRequesters`
(`AnswerReachesRequester`) are about the case the handler is written for, which
is also that of the run: the dynamic side asks, the other one answers (`Asks`).
Their invariant (`AskInv`) counts: a port is in the queue for every answer that
is about to pop one, that waits, or that is still to be given, and for a request
between its push and its `sendto` (`PortForEach`). It is an inequality, since a
request that is not answered leaves a port nobody will pop. Only when every request is answered
(`~MayIgnore`) is it an equality, and the queue then lists the ports of just
these datagrams in that order (`PortsInOrder`), so the one popped is the right one.
The same equality is `QueueHoldsWhatIsDue`: the queue is as long as the requests and
answers under way are many, so it does not grow with a campaign, until an empty
answer ends the thread that pops the ports. With requests that are not answered
ports stay in it. A forward that fails, because of a closed socket, a thread that was
not started or a radamsa that keeps it, is accounted for in each of these.

`ThreadsEndOnlyEmpty` is what `EveryDatagramTaken` rests on, for any ports of
which one at least is dynamic (else no send thread is started): a thread that was
started is on its way back to its socket, or radamsa keeps it, or it has ended with
an empty datagram; and a datagram is empty only if an entity sent it so of its own
accord or answered one with nothing that a failed malloc had emptied. With neither
empty datagrams nor failing mallocs no thread ends. Its invariant follows the empty
datagrams through the inboxes and the entities (`Arrived`).

`TcpRelayProofs`. `TcpTypeCorrect`, and `StaysInOrder` (`InOrder`): for any
connections, redirections, limits of descriptors, peers that refuse, stall, close or
crash, threads that are not created, mallocs that fail, and the `TCPHandler`
destroyed at any time. The invariant says where each connection is: once in its
backlog, with its listen thread, or served (`Stages`), so that a descriptor is never
given to two pairs, and a thread sends to the other socket of its own pair
(`Paired`). Then what a peer was delivered, what the thread holds and what is on its
way are, one after the other, chunks the other peer has sent, in that order, and
what is missing between them was lost by a failed malloc (`Flow`, `Flows`). This
holds while the peer that receives is there: what is sent to one that has gone is
dropped, and no more is said of it than that what it did get was in order.

`OnlyFailuresStrand` is the safety behind `EveryChunkTaken`: whatever is on its way
to the proxy has a thread that can receive it, or one that has only a call of the
fuzzer and a send to an existing peer before that, or belongs to a connection that
is still to get its threads, in the backlog or with its listen thread; or the thread
was not created or is kept by radamsa. It needs three facts about whole connections:
a client that has connected is in a backlog, with the listen thread, or was given its
threads (`Kept`); threads have both their peers (`Joined`); and a reset, or an end of
stream, leaves nothing behind on the wire (`Drained`). The last one is why a thread
that repeats an empty message for ever loses no data of its own peer.

`FramingProofs`. `FramingTypeCorrect` for any number of senders on one socket:
whatever they interleave, a length that `recv_message` goes on with is one its
buffer has room for. For one sender, any messages, and any split of the bytes,
`StaysSynchronised` (`NeverDesynchronised`) and `StepsAreChannelSteps`, the
safety part of the refinement of `MessageChannel`. The invariant (`Flow`)
concatenates what the receiver has of a message, the bytes in the socket and
what the sender has left, and says that these bytes are the frames of the
messages not yet returned; where each frame ends is a function (`cut`) that
exists, rather than a recursive sum, so that the provers need no induction. It is
false for two senders, which is what `framing_monitors` shows.

`RedirectionsProofs`. For any configurations, any range of ports and any drawing
of them: `RedirectionsTypeCorrect`, `AcceptedIsParsed`, `RedirectedArrives`,
`RedirectedKeepsPorts` and `ClientsConnectThroughProxy`, each with the exceptions
its property names (section 3). The invariant follows
the file through the programs, each of which is a loop: what the loop has still
to do is in `todo`, and whatever is not there is done. Every destination has its
connection (`Asked`), every server its redirection (`Served`), no two of them
share a port (`Apart`), every connection is bound (`Bound`), and every
redirection listened for (`Heard`). `Bound` needs `Apart`: a connection is built
only if all its four ports are free when its turn comes. The rest is about rules:
the first that catches a datagram is that of some connection
(`RouteOfConnection`), and since a rule names both machines it cannot be a
connection between any others.

`RadamsaPipesProofs`. For any number of threads and any set of failing calls:
`PipesTypeCorrect`; `NoZombies`, a call that is over has reaped its child;
`NoDescriptorLeaks`, a call that got past its fork has closed its four
descriptors; `OnlyMissingRadamsaKills`, the input is written to a pipe somebody
can read unless radamsa could not be executed. The invariant (`CallInv`) ties
what the proxy holds of a call's pipes, and the state of its child, to the place
where the caller is. Its core: a child that has not ended keeps `in_pipe[0]`
open, and radamsa does not see the end of its input, hence writes nothing and
does not end, before the proxy has closed `in_pipe[1]`. `CallUndisturbed` says
why the other calls cannot interfere, although their children inherit the pipes:
a fork adds holders, and no child closes what another process holds.

`CallsHangOnlyOnOthers` (`NoCallHangs`) is the safety behind
`ReturnsUnlessInherited`: a caller that waits, for output or for its child, has a
radamsa that does not wait for the caller, unless the child of another call has
inherited an end of its pipes. So two threads alone never hang on one another
through their own pipes; `ChildEnds` says which ends a child has at each stage.

`FuzzBuffersProofs`. `TypeCorrect`, `NothingLeaks`, `NothingUninitialised`,
`OriginalStaysIntact` and `LengthWithinBounds`, for any messages, outputs and
limits with room for two fuzzes and the message (`RoomAssumption`, which the
constants of `Fuzzer.hpp` fulfil). The invariant has three layers, each proved on
top of the one before: which buffers exist at each place (`Shape`, from which
types and leaks follow), which of their bytes are written (`Written`: a loop has
written exactly the first `copied`), and how long the buffers are and where in
them the message is (`Whole`). A by-product: `runRadamsa` ends with a buffer of at
least the minimum, so the branch of `runRadamsaExpanded` for a first fuzz that is
too short (`Fuzzer.cpp:190-219`) is never taken with one.

`CallsComeToAnEnd` gives the calls a measure, as a state and an action property: a
call has at most sixteen stages before it (`StagesLeft`) and in a loop at most one
buffer to fill (`ToFill`), and every step comes down a stage or fills at least a
byte, whatever fails, except the loop that repeats an empty message and the step in
which radamsa keeps the call. This is what `CallReturns` rests on.

Every invariant that a run checks is proved, two of them under the hypotheses
above (`Asks`; one sender), which the runs' instances fulfil.
Only model-checked are the liveness properties: `CrashServed`,
`StartedAndRelaunched`, `RestartCompletes`, `EveryDatagramTaken`,
`ReturnsUnlessInherited`, `EveryChunkTaken`, `CallReturns`, and the
fairness in the refinements of `RestartSignal` and `MessageChannel`
(`ImplementsSignal`, `ImplementsChannel`). Their proofs need ENABLED, which is out
of reach of the provers here. The theorems named above as the safety behind a
liveness property say that whoever is waited for is there and can go on; that it
then does is fairness, and stays with TLC. So does the induction over the measure
of `CallsComeToAnEnd`. The properties of these theorems are defined in the proof
modules, beside their invariants. `CrashServed` rests on `WakeupNotLost` and
`CrashNotForgotten`.

## 5. What is not modelled

* The conversions of the single keys of `config.yaml`, `addArg` and
  `configureStyleArgs` (the constant arguments of radamsa), and the text of
  Dockerfiles around the rules.
* The docker commands (`docker_launcher.py`, `docker_network.py`): one sequential
  run, and nothing of it is left when the system runs. What it decides, that the
  other launchers are started 0.2 s after the server's, is in `ClientConnect`.
* The cut of a UDP payload at 65499 bytes.
* The loop of a client launcher after the end of the connection, which changes
  nothing.
* The threads that flush the output, and logging.
* The targets and radamsa: external actions with the behaviour the system relies
  on.
* A server launcher that cannot bind its port, sockets of the UDP side that
  cannot be created, descriptor numbers that are given out again after a close.
* The descriptors `runRadamsa` has open for the time of a call, in the count of
  `TcpRelay`; what the leaks of `RadamsaPipes` add to it.
* The bytes of mixed messages in `Launcher` (`Framing` has them): that one bogus
  length may swallow several messages is there as each of them taken for "MIXED".

## 6. Plan

Order of the work, the most important behaviour first:

1. the notification, the launchers, the messages (done, with theorems);
2. the UDP relay, the radamsa subprocess, the TCP relay (done, with theorems);
3. `Redirections` and `FuzzBuffers` (done, with theorems);
4. the invariants that were only model-checked: `TwiceOnlyByRace` of `Launcher`,
   `NoFallback` and `AnswerReachesRequester` of `UdpRelay`, `InOrder` of `TcpRelay`,
   `NeverDesynchronised` of `Framing` and its refinement of `MessageChannel`, all
   of `Redirections` (done);
5. theorems beyond the runs: the safety that the liveness properties rest on
   (`RestartsWaitOnlyForOthers`, `StartedAreHeard`, `ThreadsEndOnlyEmpty`,
   `OnlyFailuresStrand`, `CallsHangOnlyOnOthers`, `CallsComeToAnEnd`; done);
6. failures that cross components: calls of the fuzzer that give nothing or do not
   return in the relays, mixed messages and moved lists in the launchers, files the
   programs read by different rules (done).

What could follow: the case of two dynamic ports in `UdpRelay`, where ports of both
sides are in one queue and little can be promised.
