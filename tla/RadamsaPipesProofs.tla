-------------------------- MODULE RadamsaPipesProofs --------------------------
(***************************************************************************)
(* Proofs about RadamsaPipes.tla, for any number of threads that call      *)
(* runRadamsa and any set of system calls that fail.                       *)
(***************************************************************************)
EXTENDS RadamsaPipes, TLAPS

\* What is true of a call, its child and the ends the proxy holds, by the place
\* where the caller is.
CallInv(t) ==
    /\ pc[t] \in {"idle", "pipe", "fork"} <=> child[t] = "none"
    /\ child[t] \in {"forked", "running"} => t \in holders[t]["inRead"]
    /\ pc[t] \in {"pipe", "fork", "write"} => Proxy \in holders[t]["inRead"]
    /\ pc[t] \in {"pipe", "fork", "write", "closeIn"} => Proxy \in holders[t]["inWrite"]
    /\ pc[t] \in {"fork", "write", "closeIn"} => output[t] = "none"
    /\ pc[t] \in {"closeIn", "read", "wait"} =>
        Proxy \notin holders[t]["inRead"] \cup holders[t]["outWrite"]
    /\ pc[t] \in {"read", "wait"} => Proxy \notin holders[t]["inWrite"]
    /\ pc[t] = "wait" => Proxy \notin holders[t]["outRead"] /\ result[t] # "early"
    /\ pc[t] = "idle" /\ result[t] # "early" => \A e \in Ends : Proxy \notin holders[t][e]

\* The inductive invariant.
Inv ==
    /\ TypeOK
    /\ \A t \in Threads : CallInv(t)
    /\ ProxySurvives

\* The three invariants of the run follow from it.
LEMMA InvImplies == Inv => TypeOK /\ ChildReaped /\ DescriptorsClosed /\ ProxySurvives
BY DEF Inv, CallInv, ChildReaped, DescriptorsClosed

\* Initially no call is under way and nothing is open.
LEMMA InitInv == Init => Inv
BY DEF Init, Inv, TypeOK, CallInv, ProxySurvives, Ends, Processes

-----------------------------------------------------------------------------
(* What a step leaves alone. *)

\* A call is undisturbed by a step that changes none of its variables and that
\* opens or closes its pipes in neither the proxy nor its own child: such are
\* the steps of the other calls, which fork children that inherit its pipes.
LEMMA CallUndisturbed ==
    ASSUME NEW u \in Threads, CallInv(u),
           pc'[u] = pc[u], child'[u] = child[u],
           output'[u] = output[u], result'[u] = result[u],
           \A e \in Ends : /\ Proxy \in holders'[u][e] <=> Proxy \in holders[u][e]
                           /\ u \in holders[u][e] => u \in holders'[u][e]
    PROVE  CallInv(u)'
BY DEF CallInv, Ends

\* Once the proxy has died of a missing radamsa, nothing brings it back.
LEMMA DeathIsExplained ==
    ASSUME Inv, ~proxyUp,
           \A t \in Threads : child[t] = "exited" =>
               pc'[t] = pc[t] /\ child'[t] = child[t] /\ output'[t] = output[t]
    PROVE  ProxySurvives'
BY DEF Inv, ProxySurvives

-----------------------------------------------------------------------------
(* The steps of the caller. *)

\* in_pipe opens both its ends in the proxy; a failure opens nothing.
LEMMA MakeInPipeInv ==
    ASSUME Inv, NEW t \in Threads, MakeInPipe(t)
    PROVE  Inv'
<1> USE PipesAssumption DEF Inv
<1>1. TypeOK'
  <2>1. holders' \in [Threads -> [Ends -> SUBSET Processes]]
    BY DEF MakeInPipe, TypeOK, Ends, Processes
  <2>2. /\ pc' \in [Threads -> {"idle", "pipe", "fork", "write", "closeIn", "read", "wait"}]
        /\ child' \in [Threads -> {"none", "forked", "running", "exited"}]
        /\ proxyUp' \in BOOLEAN
    BY DEF MakeInPipe, Call, TypeOK
  <2>3. /\ output' \in [Threads -> {"none", "last", "more"}]
        /\ result' \in [Threads -> {"none", "early", "null", "data"}]
    BY DEF MakeInPipe, Call, TypeOK
  <2>4. QED
    BY <2>1, <2>2, <2>3 DEF TypeOK
<1>2. CallInv(t)'
  BY DEF MakeInPipe, Call, TypeOK, CallInv, Ends
<1>3. ASSUME NEW u \in Threads \ {t} PROVE CallInv(u)'
  <2>1. /\ pc'[u] = pc[u] /\ child'[u] = child[u]
        /\ output'[u] = output[u] /\ result'[u] = result[u]
        /\ holders'[u] = holders[u]
    BY DEF MakeInPipe, Call, TypeOK
  <2>2. QED
    BY <2>1, CallUndisturbed
<1>4. ProxySurvives'
  BY DEF MakeInPipe, Call, ProxySurvives
<1>5. QED
  BY <1>1, <1>2, <1>3, <1>4

\* out_pipe is opened too, or the call ends early and in_pipe stays open.
LEMMA MakeOutPipeInv ==
    ASSUME Inv, NEW t \in Threads, MakeOutPipe(t)
    PROVE  Inv'
<1> USE PipesAssumption DEF Inv
<1>1. TypeOK'
  <2>1. holders' \in [Threads -> [Ends -> SUBSET Processes]]
    <3>1. \/ holders' = holders
          \/ holders' = [holders EXCEPT ![t]["outWrite"] = {Proxy}, ![t]["outRead"] = {Proxy}]
      BY DEF MakeOutPipe
    <3>2. holders \in [Threads -> [Ends -> SUBSET Processes]]
      BY DEF TypeOK
    <3>3. QED
      BY <3>1, <3>2 DEF Ends, Processes
  <2>2. /\ pc' \in [Threads -> {"idle", "pipe", "fork", "write", "closeIn", "read", "wait"}]
        /\ child' \in [Threads -> {"none", "forked", "running", "exited"}]
        /\ proxyUp' \in BOOLEAN
    BY DEF MakeOutPipe, Call, TypeOK
  <2>3. /\ output' \in [Threads -> {"none", "last", "more"}]
        /\ result' \in [Threads -> {"none", "early", "null", "data"}]
    BY DEF MakeOutPipe, Call, TypeOK
  <2>4. QED
    BY <2>1, <2>2, <2>3 DEF TypeOK
<1>2. CallInv(t)'
  BY DEF MakeOutPipe, Call, TypeOK, CallInv, Ends
<1>3. ASSUME NEW u \in Threads \ {t} PROVE CallInv(u)'
  <2>1. /\ pc'[u] = pc[u] /\ child'[u] = child[u]
        /\ output'[u] = output[u] /\ result'[u] = result[u]
        /\ holders'[u] = holders[u]
    BY DEF MakeOutPipe, Call, TypeOK
  <2>2. QED
    BY <2>1, CallUndisturbed
<1>4. ProxySurvives'
  BY DEF MakeOutPipe, Call, ProxySurvives
<1>5. QED
  BY <1>1, <1>2, <1>3, <1>4

\* The child inherits in_pipe[0] of its own call, and ends of other calls too.
LEMMA ForkInv ==
    ASSUME Inv, NEW t \in Threads, Fork(t)
    PROVE  Inv'
<1> USE PipesAssumption DEF Inv
<1>1. TypeOK'
  <2>1. holders' \in [Threads -> [Ends -> SUBSET Processes]]
    <3>1. holders \in [Threads -> [Ends -> SUBSET Processes]]
      BY DEF TypeOK
    <3>2. CASE holders' = holders
      BY <3>1, <3>2
    <3>3. CASE holders' # holders
      <4>1. holders' = [u \in Threads |-> [e \in Ends |->
               IF Proxy \in holders[u][e] THEN holders[u][e] \cup {t} ELSE holders[u][e]]]
        BY <3>3 DEF Fork
      <4>2. \A u \in Threads, e \in Ends :
               holders[u][e] \subseteq Processes /\ holders[u][e] \cup {t} \subseteq Processes
        BY <3>1 DEF Processes
      <4>3. QED
        BY <4>1, <4>2
    <3>4. QED
      BY <3>2, <3>3
  <2>2. /\ pc' \in [Threads -> {"idle", "pipe", "fork", "write", "closeIn", "read", "wait"}]
        /\ child' \in [Threads -> {"none", "forked", "running", "exited"}]
        /\ proxyUp' \in BOOLEAN
    BY DEF Fork, Call, TypeOK
  <2>3. /\ output' \in [Threads -> {"none", "last", "more"}]
        /\ result' \in [Threads -> {"none", "early", "null", "data"}]
    BY DEF Fork, Call, TypeOK
  <2>4. QED
    BY <2>1, <2>2, <2>3 DEF TypeOK
<1>2. CallInv(t)'
  BY DEF Fork, Call, TypeOK, CallInv, Ends
<1>3. ASSUME NEW u \in Threads \ {t} PROVE CallInv(u)'
  <2>1. /\ pc'[u] = pc[u] /\ child'[u] = child[u]
        /\ output'[u] = output[u] /\ result'[u] = result[u]
    BY DEF Fork, Call, TypeOK
  <2>2. \A e \in Ends : /\ Proxy \in holders'[u][e] <=> Proxy \in holders[u][e]
                        /\ u \in holders[u][e] => u \in holders'[u][e]
    BY DEF Fork, TypeOK
  <2>3. QED
    BY <2>1, <2>2, CallUndisturbed
<1>4. ProxySurvives'
  BY DEF Fork, Call, ProxySurvives
<1>5. QED
  BY <1>1, <1>2, <1>3, <1>4

\* When the write finds no reader the child is gone, and without having read
\* anything: in_pipe[1] is still open in the proxy.
LEMMA WriteInv ==
    ASSUME Inv, NEW t \in Threads, Write(t)
    PROVE  Inv'
<1> USE PipesAssumption DEF Inv
<1>1. TypeOK'
  BY DEF Write, Call, Close, TypeOK, Ends, Processes
<1>2. CallInv(t)'
  BY DEF Write, Call, Close, TypeOK, CallInv, Ends
<1>3. ASSUME NEW u \in Threads \ {t} PROVE CallInv(u)'
  <2>1. /\ pc'[u] = pc[u] /\ child'[u] = child[u]
        /\ output'[u] = output[u] /\ result'[u] = result[u]
        /\ holders'[u] = holders[u]
    BY DEF Write, Call, Close, TypeOK
  <2>2. QED
    BY <2>1, CallUndisturbed
<1>4. ProxySurvives'
  <2>1. CASE holders[t]["inRead"] \ {Proxy} # {}
    BY <2>1 DEF Write, ProxySurvives
  <2>2. CASE holders[t]["inRead"] \ {Proxy} = {}
    <3>1. pc[t] = "write" /\ child[t] \in {"forked", "running", "exited"}
      BY DEF Write, Call, TypeOK, CallInv
    <3>2. child[t] = "exited" /\ output[t] = "none"
      BY <2>2, <3>1 DEF CallInv
    <3>3. pc'[t] = "closeIn" /\ child'[t] = "exited" /\ output'[t] = "none"
      BY <3>2 DEF Write, Call, TypeOK
    <3>4. QED
      BY <3>3 DEF ProxySurvives
  <2>3. QED
    BY <2>1, <2>2
<1>5. QED
  BY <1>1, <1>2, <1>3, <1>4

\* The input is closed; when malloc fails the output is closed as well.
LEMMA CloseInInv ==
    ASSUME Inv, NEW t \in Threads, CloseIn(t)
    PROVE  Inv'
<1> USE PipesAssumption DEF Inv
<1>1. TypeOK'
  <2>1. holders' \in [Threads -> [Ends -> SUBSET Processes]]
    BY DEF CloseIn, Close, TypeOK, Ends, Processes
  <2>2. /\ pc' \in [Threads -> {"idle", "pipe", "fork", "write", "closeIn", "read", "wait"}]
        /\ child' \in [Threads -> {"none", "forked", "running", "exited"}]
        /\ proxyUp' \in BOOLEAN
    BY DEF CloseIn, Call, TypeOK
  <2>3. /\ output' \in [Threads -> {"none", "last", "more"}]
        /\ result' \in [Threads -> {"none", "early", "null", "data"}]
    BY DEF CloseIn, Call, TypeOK
  <2>4. QED
    BY <2>1, <2>2, <2>3 DEF TypeOK
<1>2. CallInv(t)'
  BY DEF CloseIn, Call, Close, TypeOK, CallInv, Ends
<1>3. ASSUME NEW u \in Threads \ {t} PROVE CallInv(u)'
  <2>1. /\ pc'[u] = pc[u] /\ child'[u] = child[u]
        /\ output'[u] = output[u] /\ result'[u] = result[u]
        /\ holders'[u] = holders[u]
    BY DEF CloseIn, Call, Close, TypeOK
  <2>2. QED
    BY <2>1, CallUndisturbed
<1>4. ProxySurvives'
  BY DEF CloseIn, Call, ProxySurvives
<1>5. QED
  BY <1>1, <1>2, <1>3, <1>4

\* After its one read the call holds no end any more, and has a result.
LEMMA ReadInv ==
    ASSUME Inv, NEW t \in Threads, Read(t)
    PROVE  Inv'
<1> USE PipesAssumption DEF Inv
<1>1. TypeOK'
  BY DEF Read, Call, Close, TypeOK, Ends, Processes
<1>2. CallInv(t)'
  BY DEF Read, Call, Close, TypeOK, CallInv, Ends
<1>3. ASSUME NEW u \in Threads \ {t} PROVE CallInv(u)'
  <2>1. /\ pc'[u] = pc[u] /\ child'[u] = child[u]
        /\ output'[u] = output[u] /\ result'[u] = result[u]
        /\ holders'[u] = holders[u]
    BY DEF Read, Call, Close, TypeOK
  <2>2. QED
    BY <2>1, CallUndisturbed
<1>4. ProxySurvives'
  BY DEF Read, Call, ProxySurvives
<1>5. QED
  BY <1>1, <1>2, <1>3, <1>4

\* At the waitpid every end has been closed already.
LEMMA WaitInv ==
    ASSUME Inv, NEW t \in Threads, Wait(t)
    PROVE  Inv'
<1> USE PipesAssumption DEF Inv
<1>1. TypeOK'
  BY DEF Wait, Call, TypeOK
<1>2. CallInv(t)'
  BY DEF Wait, Call, TypeOK, CallInv, Ends
<1>3. ASSUME NEW u \in Threads \ {t} PROVE CallInv(u)'
  <2>1. /\ pc'[u] = pc[u] /\ child'[u] = child[u]
        /\ output'[u] = output[u] /\ result'[u] = result[u]
        /\ holders'[u] = holders[u]
    BY DEF Wait, Call, TypeOK
  <2>2. QED
    BY <2>1, CallUndisturbed
<1>4. ProxySurvives'
  BY DEF Wait, Call, ProxySurvives
<1>5. QED
  BY <1>1, <1>2, <1>3, <1>4

-----------------------------------------------------------------------------
(* The steps of the child. *)

\* A child closes only its own copies: what the proxy holds is untouched, and
\* in_pipe[0] of its call stays open as long as it runs.
LEMMA ChildStepInv ==
    ASSUME Inv, NEW t \in Threads, ChildStep(t)
    PROVE  Inv'
<1> USE PipesAssumption DEF Inv
<1>1. TypeOK'
  <2>1. holders' \in [Threads -> [Ends -> SUBSET Processes]]
    BY DEF ChildStep, Exec, RadamsaWrites, RadamsaExits, Close, CloseAll, TypeOK, Ends, Processes
  <2>2. /\ pc' \in [Threads -> {"idle", "pipe", "fork", "write", "closeIn", "read", "wait"}]
        /\ child' \in [Threads -> {"none", "forked", "running", "exited"}]
        /\ proxyUp' \in BOOLEAN
    BY DEF ChildStep, Exec, RadamsaWrites, RadamsaExits, TypeOK
  <2>3. /\ output' \in [Threads -> {"none", "last", "more"}]
        /\ result' \in [Threads -> {"none", "early", "null", "data"}]
    BY DEF ChildStep, Exec, RadamsaWrites, RadamsaExits, TypeOK
  <2>4. QED
    BY <2>1, <2>2, <2>3 DEF TypeOK
<1>2. CallInv(t)'
  <2>1. CASE Exec(t)
    BY <2>1 DEF Exec, Close, CloseAll, TypeOK, CallInv, Ends
  <2>2. CASE RadamsaWrites(t)
    BY <2>2 DEF RadamsaWrites, TypeOK, CallInv, Ends
  <2>3. CASE RadamsaExits(t)
    BY <2>3 DEF RadamsaExits, CloseAll, TypeOK, CallInv, Ends
  <2>4. QED
    BY <2>1, <2>2, <2>3 DEF ChildStep
<1>3. ASSUME NEW u \in Threads \ {t} PROVE CallInv(u)'
  <2>1. /\ pc'[u] = pc[u] /\ child'[u] = child[u]
        /\ output'[u] = output[u] /\ result'[u] = result[u]
    BY DEF ChildStep, Exec, RadamsaWrites, RadamsaExits, TypeOK
  <2>2. \A e \in Ends : /\ Proxy \in holders'[u][e] <=> Proxy \in holders[u][e]
                        /\ u \in holders[u][e] => u \in holders'[u][e]
    BY DEF ChildStep, Exec, RadamsaWrites, RadamsaExits, Close, CloseAll, TypeOK
  <2>3. QED
    BY <2>1, <2>2, CallUndisturbed
<1>4. ProxySurvives'
  <2>1. UNCHANGED <<proxyUp, pc>>
    BY DEF ChildStep, Exec, RadamsaWrites, RadamsaExits
  <2>2. \A v \in Threads : child[v] = "exited" =>
            child'[v] = child[v] /\ output'[v] = output[v]
    BY DEF ChildStep, Exec, RadamsaWrites, RadamsaExits, TypeOK
  <2>3. QED
    BY <2>1, <2>2, DeathIsExplained DEF ProxySurvives
<1>5. QED
  BY <1>1, <1>2, <1>3, <1>4

-----------------------------------------------------------------------------
(* The theorems. *)

\* The invariant is inductive.
LEMMA NextInv == Inv /\ [Next]_vars => Inv'
<1> SUFFICES ASSUME Inv, [Next]_vars PROVE Inv'
  OBVIOUS
<1>1. ASSUME NEW t \in Threads, CallStep(t) PROVE Inv'
  BY <1>1, MakeInPipeInv, MakeOutPipeInv, ForkInv, WriteInv, CloseInInv, ReadInv,
     WaitInv DEF CallStep
<1>2. ASSUME NEW t \in Threads, ChildStep(t) PROVE Inv'
  BY <1>2, ChildStepInv
<1>3. CASE UNCHANGED vars
  BY <1>3 DEF vars, Inv, TypeOK, CallInv, ProxySurvives
<1>4. QED
  BY <1>1, <1>2, <1>3 DEF Next

\* Inv holds in every reachable state.
THEOREM PipesInvariance == Spec => []Inv
BY InitInv, NextInv, PTL DEF Spec

\* The state of the calls keeps its types.
THEOREM PipesTypeCorrect == Spec => []TypeOK
BY PipesInvariance, InvImplies, PTL

\* runRadamsa returns with its child reaped, on every path.
THEOREM NoZombies == Spec => []ChildReaped
BY PipesInvariance, InvImplies, PTL

\* runRadamsa returns with its four descriptors closed, on every path after a
\* fork that succeeded.
THEOREM NoDescriptorLeaks == Spec => []DescriptorsClosed
BY PipesInvariance, InvImplies, PTL

\* The write of the input raises SIGPIPE only if radamsa could not be executed,
\* whatever pipes the children of other calls have inherited.
THEOREM OnlyMissingRadamsaKills == Spec => []ProxySurvives
BY PipesInvariance, InvImplies, PTL
-----------------------------------------------------------------------------
(* Who waits for whom. *)

\* The read finds nothing and a writer left; the child has not ended.
CallerWaits(t) ==
    \/ pc[t] = "read" /\ output[t] = "none" /\ holders[t]["outWrite"] # {}
    \/ pc[t] = "wait" /\ child[t] # "exited"

\* radamsa has not seen the end of its input, or has more to write than fits
\* into the pipe.
RadamsaWaits(t) ==
    /\ child[t] = "running"
    /\ \/ output[t] = "none" /\ holders[t]["inWrite"] # {}
       \/ output[t] = "more" /\ holders[t]["outRead"] # {}

\* A caller that waits has a child that goes on, unless the child of another
\* call has inherited an end of its pipes.
NoCallHangs ==
    \A t \in Threads : CallerWaits(t) =>
        \/ child[t] \in {"forked", "running"} /\ ~RadamsaWaits(t)
        \/ Inherited(t)

\* The ends of its own call that a child has open, by what has become of it.
ChildEnds(t) ==
    /\ child[t] = "running" => t \notin holders[t]["inWrite"] \cup holders[t]["outRead"]
    /\ child[t] = "exited" => \A e \in Ends : t \notin holders[t][e]

EndsInv == Inv /\ \A t \in Threads : ChildEnds(t)

\* Another process may take ends of a call's pipes, but gives its child none.
LEMMA ChildEndsKept ==
    ASSUME NEW u \in Threads, ChildEnds(u), child'[u] = child[u],
           \A e \in Ends : u \in holders'[u][e] => u \in holders[u][e]
    PROVE  ChildEnds(u)'
BY DEF ChildEnds, Ends

\* A close opens nothing.
LEMMA Closed ==
    ASSUME TypeOK, NEW t \in Threads, NEW es, NEW p, Close(t, es, p),
           NEW u \in Threads, NEW e \in Ends
    PROVE  holders'[u][e] \subseteq holders[u][e]
<1>1. holders \in [Threads -> [Ends -> SUBSET Processes]]
  BY DEF TypeOK
<1>2. holders' = [holders EXCEPT ![t] = [d \in Ends |->
                     IF d \in es THEN holders[t][d] \ {p} ELSE holders[t][d]]]
  BY DEF Close
<1>3. CASE u = t
  BY ONLY <1>1, <1>2, <1>3, e \in Ends, t \in Threads
<1>4. CASE u # t
  BY ONLY <1>1, <1>2, <1>4, u \in Threads, t \in Threads
<1>5. QED
  BY <1>3, <1>4

\* What is open after the pipes are made: the new ends, in the proxy only.
LEMMA Opened ==
    ASSUME TypeOK, NEW t \in Threads, MakeInPipe(t) \/ MakeOutPipe(t), NEW u \in Threads, NEW e \in Ends
    PROVE  holders'[u][e] \subseteq holders[u][e] \cup {Proxy}
<1>1. holders \in [Threads -> [Ends -> SUBSET Processes]]
  BY DEF TypeOK
<1>2. CASE holders' = holders
  BY ONLY <1>2
<1>3. CASE holders' = [holders EXCEPT ![t]["inWrite"] = {Proxy}, ![t]["inRead"] = {Proxy},
                                      ![t]["outWrite"] = {}, ![t]["outRead"] = {}]
  <2>1. CASE u = t
    BY ONLY <1>1, <1>3, <2>1, e \in Ends, t \in Threads DEF Ends
  <2>2. CASE u # t
    BY ONLY <1>1, <1>3, <2>2, u \in Threads, t \in Threads DEF Ends
  <2>3. QED
    BY <2>1, <2>2
<1>4. CASE holders' = [holders EXCEPT ![t]["outWrite"] = {Proxy}, ![t]["outRead"] = {Proxy}]
  <2>1. CASE u = t
    BY ONLY <1>1, <1>4, <2>1, e \in Ends, t \in Threads DEF Ends
  <2>2. CASE u # t
    BY ONLY <1>1, <1>4, <2>2, u \in Threads, t \in Threads DEF Ends
  <2>3. QED
    BY <2>1, <2>2
<1>5. QED
  BY <1>2, <1>3, <1>4 DEF MakeInPipe, MakeOutPipe

\* The steps of a caller: only its own fork gives something to its child, which
\* has still to be executed.
LEMMA CallerChildEnds ==
    ASSUME EndsInv, NEW t \in Threads, CallStep(t), NEW u \in Threads
    PROVE  ChildEnds(u)'
<1> USE PipesAssumption
<1>1. TypeOK /\ ChildEnds(u) /\ (child[t] = "none" <=> pc[t] \in {"idle", "pipe", "fork"})
  BY DEF EndsInv, Inv, CallInv
<1>2. CASE MakeInPipe(t) \/ MakeOutPipe(t)
  <2>1. child' = child
    BY ONLY <1>2 DEF MakeInPipe, MakeOutPipe
  <2>2. \A e \in Ends : u \in holders'[u][e] => u \in holders[u][e]
    <3>1. u # Proxy
      OBVIOUS
    <3>2. QED
      BY <1>1, <1>2, <3>1, Opened
  <2>3. QED
    BY ONLY u \in Threads, <1>1, <2>1, <2>2, ChildEndsKept
<1>3. CASE Fork(t)
  <2>1. child' = child \/ child' = [child EXCEPT ![t] = "forked"]
    BY ONLY <1>3 DEF Fork
  <2>2. CASE u = t
    BY <1>1, <1>3, <2>1, <2>2 DEF Fork, Call, TypeOK, ChildEnds
  <2>3. CASE u # t
    <3>1. child'[u] = child[u]
      BY <1>1, <2>1, <2>3 DEF TypeOK
    <3>2. \A e \in Ends : u \in holders'[u][e] => u \in holders[u][e]
      BY <1>1, <1>3, <2>3 DEF Fork, TypeOK
    <3>3. QED
      BY ONLY u \in Threads, <1>1, <3>1, <3>2, ChildEndsKept
  <2>4. QED
    BY <2>2, <2>3
<1>4. CASE Write(t) \/ CloseIn(t) \/ Read(t)
  <2>1. child' = child
    BY ONLY <1>4 DEF Write, CloseIn, Read
  <2>2. \A e \in Ends : u \in holders'[u][e] => u \in holders[u][e]
    <3>1. PICK es : Close(t, es, Proxy)
      BY ONLY <1>4 DEF Write, CloseIn, Read
    <3>2. QED
      <4>1. \A e \in Ends : holders'[u][e] \subseteq holders[u][e]
        BY ONLY <1>1, <3>1, Closed, t \in Threads, u \in Threads, Zenon
      <4>2. QED
        BY ONLY <4>1
  <2>3. QED
    BY ONLY u \in Threads, <1>1, <2>1, <2>2, ChildEndsKept
<1>5. CASE Wait(t)
  <2>1. holders' = holders /\ child' = [child EXCEPT ![t] = "none"]
    BY ONLY <1>5 DEF Wait
  <2>2. CASE u = t
    BY <1>1, <2>1, <2>2 DEF TypeOK, ChildEnds
  <2>3. CASE u # t
    BY <1>1, <2>1, <2>3 DEF TypeOK, ChildEnds
  <2>4. QED
    BY <2>2, <2>3
<1>6. QED
  BY <1>2, <1>3, <1>4, <1>5 DEF CallStep

\* The steps of a child: it has closed two ends when it is radamsa, and all of
\* them when it has ended.
LEMMA RadamsaChildEnds ==
    ASSUME EndsInv, NEW t \in Threads, ChildStep(t), NEW u \in Threads
    PROVE  ChildEnds(u)'
<1> USE PipesAssumption
<1>1. TypeOK /\ ChildEnds(u)
  BY DEF EndsInv, Inv
<1>2. \A v \in Threads : \A e \in Ends : holders'[v][e] \subseteq holders[v][e]
  <2> SUFFICES ASSUME NEW v \in Threads, NEW e \in Ends
               PROVE  holders'[v][e] \subseteq holders[v][e]
    OBVIOUS
  <2>1. ASSUME NEW es, Close(t, es, t)
        PROVE  holders'[v][e] \subseteq holders[v][e]
    BY ONLY <1>1, <2>1, Closed, t \in Threads, v \in Threads, e \in Ends, Zenon
  <2>2. CASE CloseAll(t)
    BY ONLY <2>2, v \in Threads, e \in Ends DEF CloseAll
  <2>3. CASE holders' = holders
    BY ONLY <2>3
  <2>4. QED
    BY <2>1, <2>2, <2>3 DEF ChildStep, Exec, RadamsaWrites, RadamsaExits
<1>3. CASE u # t
  <2>1. child'[u] = child[u]
    BY <1>1, <1>3 DEF ChildStep, Exec, RadamsaWrites, RadamsaExits, TypeOK
  <2>2. \A e \in Ends : u \in holders'[u][e] => u \in holders[u][e]
    BY ONLY <1>2, u \in Threads
  <2>3. QED
    BY ONLY u \in Threads, <1>1, <2>1, <2>2, ChildEndsKept
<1>4. CASE u = t /\ Exec(t)
  <2>1. CASE child' = [child EXCEPT ![t] = "running"] /\ Close(t, {"inWrite", "outRead"}, t)
    BY <1>1, <1>4, <2>1 DEF Close, TypeOK, ChildEnds, Ends
  <2>2. CASE child' = [child EXCEPT ![t] = "exited"] /\ CloseAll(t)
    BY <1>1, <1>4, <2>2 DEF CloseAll, TypeOK, ChildEnds, Ends
  <2>3. QED
    BY <1>4, <2>1, <2>2 DEF Exec
<1>5. CASE u = t /\ RadamsaWrites(t)
  BY <1>1, <1>5 DEF RadamsaWrites, ChildEnds
<1>6. CASE u = t /\ RadamsaExits(t)
  BY <1>1, <1>6 DEF RadamsaExits, CloseAll, TypeOK, ChildEnds, Ends
<1>7. QED
  BY <1>3, <1>4, <1>5, <1>6 DEF ChildStep

\* EndsInv holds in every reachable state.
LEMMA EndsInvariance == Spec => []EndsInv
<1>1. Init => EndsInv
  BY InitInv DEF EndsInv, Init, ChildEnds
<1>2. EndsInv /\ [Next]_vars => EndsInv'
  <2> SUFFICES ASSUME EndsInv, [Next]_vars PROVE EndsInv'
    OBVIOUS
  <2>1. Inv'
    BY NextInv DEF EndsInv
  <2>2. CASE UNCHANGED vars
    BY <2>1, <2>2 DEF EndsInv, ChildEnds, vars
  <2>3. CASE Next
    <3>1. \A u \in Threads : ChildEnds(u)'
      BY <2>3, CallerChildEnds, RadamsaChildEnds DEF Next
    <3>2. QED
      BY <2>1, <3>1 DEF EndsInv
  <2>4. QED
    BY <2>2, <2>3
<1>3. QED
  BY <1>1, <1>2, PTL DEF Spec

\* runRadamsa and its radamsa never wait for one another, however much radamsa
\* writes and whatever fails: a call hangs only on the child of another call.
THEOREM CallsHangOnlyOnOthers == Spec => []NoCallHangs
<1>1. EndsInv => NoCallHangs
  <2> SUFFICES ASSUME EndsInv, NEW t \in Threads, CallerWaits(t), ~Inherited(t)
               PROVE  child[t] \in {"forked", "running"} /\ ~RadamsaWaits(t)
    BY DEF NoCallHangs
  <2>1. TypeOK /\ CallInv(t) /\ ChildEnds(t)
    BY DEF EndsInv, Inv
  <2>2. \A e \in Ends : holders[t][e] \subseteq {Proxy, t}
    BY <2>1 DEF Inherited, TypeOK
  <2>3. CASE pc[t] = "read" /\ output[t] = "none" /\ holders[t]["outWrite"] # {}
    <3>1. child[t] # "none" /\ Proxy \notin holders[t]["outWrite"] \cup holders[t]["inWrite"]
      BY <2>1, <2>3 DEF CallInv
    <3>2. child[t] # "exited"
      BY <2>1, <2>2, <2>3, <3>1 DEF ChildEnds, Ends
    <3>3. child[t] = "running" => holders[t]["inWrite"] = {}
      BY <2>1, <2>2, <3>1 DEF ChildEnds, Ends
    <3>4. QED
      BY <2>1, <2>3, <3>1, <3>2, <3>3 DEF RadamsaWaits, TypeOK
  <2>4. CASE pc[t] = "wait" /\ child[t] # "exited"
    <3>1. child[t] # "none" /\ Proxy \notin holders[t]["inWrite"] \cup holders[t]["outRead"]
      BY <2>1, <2>4 DEF CallInv
    <3>2. child[t] = "running" => holders[t]["inWrite"] = {} /\ holders[t]["outRead"] = {}
      BY <2>1, <2>2, <3>1 DEF ChildEnds, Ends
    <3>3. QED
      BY <2>1, <2>4, <3>1, <3>2 DEF RadamsaWaits, TypeOK
  <2>5. QED
    BY <2>3, <2>4 DEF CallerWaits
<1>2. QED
  BY <1>1, EndsInvariance, PTL
=============================================================================
