---------------------------- MODULE RadamsaPipes ----------------------------
(***************************************************************************)
(* FuzzerCore::runRadamsa (proxy/src/Fuzzer.cpp) called by several threads *)
(* of the proxy at once: every call makes two pipes, forks a radamsa that  *)
(* reads the one and writes the other, writes the input, reads the output  *)
(* and waits for the child.                                                *)
(*                                                                         *)
(* A fork copies every descriptor the proxy has open at that moment, those *)
(* of the other threads' calls too, and the child closes only the two it   *)
(* knows of.  What a call may wait for depends on who holds which end of   *)
(* which pipe, and that is what the model keeps.                           *)
(*                                                                         *)
(* radamsa itself is not part of the code: it reads its input to the end   *)
(* and then writes an output that may be larger than a pipe.  The input    *)
(* (at most 65536 bytes) always fits into one.                             *)
(***************************************************************************)
EXTENDS Naturals

CONSTANTS
    Threads,              \* the threads that call the fuzzer
    Proxy,                \* the proxy process
    Failing               \* what may fail: "pipe", "fork", "exec", "malloc"

ASSUME PipesAssumption ==
    /\ Proxy \notin Threads
    /\ Failing \subseteq {"pipe", "fork", "exec", "malloc"}

\* The radamsa a thread has forked is called like the thread.
Processes == Threads \cup {Proxy}

\* The pipes of a call and their ends: in_pipe[1], in_pipe[0], out_pipe[1],
\* out_pipe[0].
Ends == {"inWrite", "inRead", "outWrite", "outRead"}

VARIABLES
    proxyUp,              \* the proxy has not died of a SIGPIPE
    pc,                   \* where each thread is in runRadamsa
    holders,              \* the processes that have an end of a call's pipes open
    child,                \* the state of each call's radamsa
    output,               \* what is in each out_pipe, and what will follow
    result                \* history: what the last call of each thread returned,
                          \* "early" for a nullptr before there was a child

vars == <<proxyUp, pc, holders, child, output, result>>

Init ==
    /\ proxyUp = TRUE
    /\ pc = [t \in Threads |-> "idle"]
    /\ holders = [t \in Threads |-> [e \in Ends |-> {}]]
    /\ child = [t \in Threads |-> "none"]
    /\ output = [t \in Threads |-> "none"]
    /\ result = [t \in Threads |-> "none"]

\* A thread of the proxy takes a step.
Call(t, from, to) ==
    /\ proxyUp
    /\ pc[t] = from
    /\ pc' = [pc EXCEPT ![t] = to]

\* Process p closes the ends es of the pipes of call t.
Close(t, es, p) ==
    holders' = [holders EXCEPT ![t] = [e \in Ends |->
                   IF e \in es THEN @[e] \ {p} ELSE @[e]]]

\* The end of process p closes whatever it has open.
CloseAll(p) ==
    holders' = [u \in Threads |-> [e \in Ends |-> holders[u][e] \ {p}]]

-----------------------------------------------------------------------------
(* The caller. *)

\* The first pipe, and the second; when that one fails the first stays open.
MakeInPipe(t) ==
    \/ /\ Call(t, "idle", "pipe")
       /\ holders' = [holders EXCEPT ![t]["inWrite"] = {Proxy}, ![t]["inRead"] = {Proxy},
                                     ![t]["outWrite"] = {}, ![t]["outRead"] = {}]
       /\ UNCHANGED <<proxyUp, child, output, result>>
    \/ /\ "pipe" \in Failing
       /\ Call(t, "idle", "idle")
       /\ result' = [result EXCEPT ![t] = "early"]
       /\ UNCHANGED <<proxyUp, holders, child, output>>

MakeOutPipe(t) ==
    \/ /\ Call(t, "pipe", "fork")
       /\ holders' = [holders EXCEPT ![t]["outWrite"] = {Proxy}, ![t]["outRead"] = {Proxy}]
       /\ output' = [output EXCEPT ![t] = "none"]
       /\ UNCHANGED <<proxyUp, child, result>>
    \/ /\ "pipe" \in Failing
       /\ Call(t, "pipe", "idle")
       /\ result' = [result EXCEPT ![t] = "early"]
       /\ UNCHANGED <<proxyUp, holders, child, output>>

\* Mutated form: the ends of the child are closed before the fork.
ForkAfterClose(t) ==
    /\ Call(t, "fork", "write")
    /\ child' = [child EXCEPT ![t] = "forked"]
    /\ holders' = [holders EXCEPT ![t]["inRead"] = {}, ![t]["outWrite"] = {},
                                  ![t]["inWrite"] = @ \cup {t}, ![t]["outRead"] = @ \cup {t}]
    /\ UNCHANGED <<proxyUp, output, result>>

\* fork: the child has every end the proxy has.  When it fails the four ends
\* stay open.
Fork(t) ==
    \/ /\ Call(t, "fork", "write")
       /\ child' = [child EXCEPT ![t] = "forked"]
       /\ holders' = [u \in Threads |-> [e \in Ends |->
             IF Proxy \in holders[u][e] THEN holders[u][e] \cup {t} ELSE holders[u][e]]]
       /\ UNCHANGED <<proxyUp, output, result>>
    \/ /\ "fork" \in Failing
       /\ Call(t, "fork", "idle")
       /\ result' = [result EXCEPT ![t] = "early"]
       /\ UNCHANGED <<proxyUp, holders, child, output>>

\* The ends of the child are closed and the input is written; a SIGPIPE kills
\* the proxy when nobody could read it.  Its descriptors are then left as they
\* are: nothing is said of a call once the proxy is gone.
Write(t) ==
    /\ Call(t, "write", "closeIn")
    /\ proxyUp' = (holders[t]["inRead"] \ {Proxy} # {})
    /\ Close(t, {"inRead", "outWrite"}, Proxy)
    /\ UNCHANGED <<child, output, result>>

\* Mutated forms: in_pipe[1] stays open; out_pipe[0] stays open when malloc
\* fails; the child is not waited for when malloc fails.
CloseInNothing(t) ==
    /\ Call(t, "closeIn", "read")
    /\ UNCHANGED <<proxyUp, holders, child, output, result>>

CloseInOnly(t) ==
    /\ \E to \in {"read", "wait"} : Call(t, "closeIn", to)
    /\ Close(t, {"inWrite"}, Proxy)
    /\ UNCHANGED <<proxyUp, child, output, result>>

CloseInReturn(t) ==
    /\ \E to \in {"read", "idle"} : Call(t, "closeIn", to)
    /\ Close(t, IF pc'[t] = "read" THEN {"inWrite"} ELSE {"inWrite", "outRead"}, Proxy)
    /\ UNCHANGED <<proxyUp, child, output, result>>

\* The input is over; then the buffer for the output is allocated.
CloseIn(t) ==
    /\ \/ /\ Call(t, "closeIn", "read")
          /\ Close(t, {"inWrite"}, Proxy)
          /\ UNCHANGED result
       \/ /\ "malloc" \in Failing
          /\ Call(t, "closeIn", "wait")
          /\ Close(t, {"inWrite", "outRead"}, Proxy)
          /\ result' = [result EXCEPT ![t] = "null"]
    /\ UNCHANGED <<proxyUp, child, output>>

\* One read: what there is in the pipe, or nothing when no writer is left.
Read(t) ==
    /\ Call(t, "read", "wait")
    /\ \/ /\ output[t] \in {"last", "more"}
          /\ result' = [result EXCEPT ![t] = "data"]
       \/ /\ output[t] = "none"
          /\ holders[t]["outWrite"] = {}
          /\ result' = [result EXCEPT ![t] = "null"]
    /\ Close(t, {"outRead"}, Proxy)
    /\ UNCHANGED <<proxyUp, child, output>>

\* waitpid, and the return.
Wait(t) ==
    /\ Call(t, "wait", "idle")
    /\ child[t] = "exited"
    /\ child' = [child EXCEPT ![t] = "none"]
    /\ UNCHANGED <<proxyUp, holders, output, result>>

-----------------------------------------------------------------------------
(* The child. *)

\* Mutated form: no _exit after an execvp that failed.
ExecWithoutExit(t) ==
    /\ child[t] = "forked"
    /\ child' = [child EXCEPT ![t] = "caller"]
    /\ Close(t, {"inWrite", "outRead"}, t)
    /\ UNCHANGED <<proxyUp, pc, output, result>>

\* It closes in_pipe[1] and out_pipe[0], keeps the other two as its standard
\* input and output, and becomes radamsa.
Exec(t) ==
    /\ child[t] = "forked"
    /\ \/ /\ child' = [child EXCEPT ![t] = "running"]
          /\ Close(t, {"inWrite", "outRead"}, t)
       \/ /\ "exec" \in Failing
          /\ child' = [child EXCEPT ![t] = "exited"]
          /\ CloseAll(t)
    /\ UNCHANGED <<proxyUp, pc, output, result>>

\* radamsa has read to the end of its input, which is there when no process
\* holds the write end any more, and writes.
RadamsaWrites(t) ==
    /\ child[t] = "running"
    /\ output[t] = "none"
    /\ holders[t]["inWrite"] = {}
    /\ output' \in {[output EXCEPT ![t] = "last"], [output EXCEPT ![t] = "more"]}
    /\ UNCHANGED <<proxyUp, pc, holders, child, result>>

\* It exits when all is written.  What did not fit into the pipe is never read,
\* so it is stuck until nobody can read the pipe and a SIGPIPE ends it.
RadamsaExits(t) ==
    /\ child[t] = "running"
    /\ \/ output[t] = "last"
       \/ output[t] # "none" /\ holders[t]["outRead"] = {}
    /\ child' = [child EXCEPT ![t] = "exited"]
    /\ CloseAll(t)
    /\ UNCHANGED <<proxyUp, pc, output, result>>

-----------------------------------------------------------------------------
CallStep(t) ==
    \/ MakeInPipe(t)
    \/ MakeOutPipe(t)
    \/ Fork(t)
    \/ Write(t)
    \/ CloseIn(t)
    \/ Read(t)
    \/ Wait(t)

ChildStep(t) == Exec(t) \/ RadamsaWrites(t) \/ RadamsaExits(t)

Next == \E t \in Threads : CallStep(t) \/ ChildStep(t)

Spec == Init /\ [][Next]_vars

FairSpec == Spec /\ \A t \in Threads : WF_vars(CallStep(t)) /\ WF_vars(ChildStep(t))

-----------------------------------------------------------------------------
(* Properties. *)

\* Type invariant.
TypeOK ==
    /\ proxyUp \in BOOLEAN
    /\ pc \in [Threads -> {"idle", "pipe", "fork", "write", "closeIn", "read", "wait"}]
    /\ holders \in [Threads -> [Ends -> SUBSET Processes]]
    /\ child \in [Threads -> {"none", "forked", "running", "exited"}]
    /\ output \in [Threads -> {"none", "last", "more"}]
    /\ result \in [Threads -> {"none", "early", "null", "data"}]

\* A call that is over has reaped its radamsa, whatever failed on the way: the
\* proxy collects no zombies and no radamsa runs on behind its back.
ChildReaped == \A t \in Threads : pc[t] \in {"idle", "pipe", "fork"} => child[t] = "none"

\* A call that has forked its radamsa leaves no descriptor open in the proxy,
\* whether it returns a buffer or nullptr.
DescriptorsClosed ==
    \A t \in Threads : pc[t] = "idle" /\ result[t] # "early" =>
        \A e \in Ends : Proxy \notin holders[t][e]

\* The write of the input finds a reader, so that no SIGPIPE ends the proxy,
\* unless there was no radamsa to execute.
ProxySurvives ==
    proxyUp \/ \E t \in Threads :
        pc[t] = "closeIn" /\ child[t] = "exited" /\ output[t] = "none"

\* A radamsa of another call has inherited an end of the pipes of call t.
Inherited(t) == \E e \in Ends : holders[t][e] \ {Proxy, t} # {}

\* A call returns, whatever fails in it, unless the proxy dies of it or the
\* radamsa of another call, forked between its pipe and its close, holds an end
\* of its pipes.
ReturnsUnlessInherited ==
    \A t \in Threads : pc[t] = "fork" ~> pc[t] = "idle" \/ ~proxyUp \/ Inherited(t)
=============================================================================
