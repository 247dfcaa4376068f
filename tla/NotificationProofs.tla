------------------------- MODULE NotificationProofs -------------------------
(***************************************************************************)
(* Proofs about Notification.tla, for any set of handler threads: its      *)
(* safety invariants and the step refinement of RestartSignal.tla.         *)
(***************************************************************************)
EXTENDS Notification, TLAPS

\* The message is written before the flag and both are cleared together, so a
\* raised flag always comes with the message that main dispatches on.
FlagHasMessage ==
    /\ notification => notificationMessage = "RESTART"
    /\ \A h \in Handlers :
        handlerPc[h] = "flag" => notificationMessage = "RESTART"

\* While main restarts and clears, the flag it was woken by is still up; once
\* the restart has begun nothing is pending any more.
RestartIsAsked ==
    /\ mainPc \in {"restart", "clear"} => notification
    /\ mainPc = "clear" => pending = {}

\* The inductive invariant: the four invariants checked by TLC and the two
\* facts that keep them.
Inv ==
    /\ TypeOK
    /\ MutexDiscipline
    /\ NoLostWakeup
    /\ NothingForgotten
    /\ FlagHasMessage
    /\ RestartIsAsked

\* Initially nobody has asked for anything and the mutex is free.
LEMMA InitInv == Init => Inv
BY ThreadsDistinct
   DEF Init, Inv, TypeOK, MutexDiscipline, NoLostWakeup, NothingForgotten,
       FlagHasMessage, RestartIsAsked, Messages, MainPcs, MainHolds,
       HandlerPcs, HandlerHolds

\* A handler that is between its lock and its unlock excludes main and every
\* other handler from the notification.
LEMMA HandlerExcludes ==
    ASSUME Inv, NEW h \in Handlers, handlerPc[h] \in HandlerHolds
    PROVE  /\ mutex = h
           /\ mainPc \notin MainHolds
           /\ \A g \in Handlers : g # h => handlerPc[g] \notin HandlerHolds
BY ThreadsDistinct DEF Inv, MutexDiscipline

\* And so does main between its lock and its unlock.
LEMMA MainExcludes ==
    ASSUME Inv, mainPc \in MainHolds
    PROVE  /\ mutex = Main
           /\ \A g \in Handlers : handlerPc[g] \notin HandlerHolds
BY ThreadsDistinct DEF Inv, MutexDiscipline

\* Every step of a handler thread keeps the invariant.
LEMMA HandlerStepInv ==
    ASSUME Inv, NEW h \in Handlers, HandlerStep(h)
    PROVE  Inv'
<1> USE ThreadsDistinct
<1> USE DEF Inv, TypeOK, MutexDiscipline, NoLostWakeup, NothingForgotten,
            FlagHasMessage, RestartIsAsked, Messages, MainPcs, MainHolds,
            HandlerPcs, HandlerHolds, Goto
<1>1. CASE HandlerCrash(h)
  BY <1>1 DEF HandlerCrash
<1>2. CASE HandlerLock(h)
  BY <1>2 DEF HandlerLock
<1>3. CASE HandlerSetMessage(h)
  BY <1>3, HandlerExcludes DEF HandlerSetMessage
<1>4. CASE HandlerSetFlag(h)
  BY <1>4, HandlerExcludes DEF HandlerSetFlag
<1>5. CASE HandlerSignal(h)
  BY <1>5, HandlerExcludes DEF HandlerSignal
<1>6. CASE HandlerUnlock(h)
  BY <1>6, HandlerExcludes DEF HandlerUnlock
<1>7. QED
  BY <1>1, <1>2, <1>3, <1>4, <1>5, <1>6 DEF HandlerStep

\* Every step of the main thread keeps the invariant.
LEMMA MainStepInv ==
    ASSUME Inv, MainStep
    PROVE  Inv'
<1> USE ThreadsDistinct
<1> USE DEF Inv, TypeOK, MutexDiscipline, NoLostWakeup, NothingForgotten,
            FlagHasMessage, RestartIsAsked, Messages, MainPcs, MainHolds,
            HandlerPcs, HandlerHolds
<1>1. CASE MainLock
  BY <1>1 DEF MainLock
<1>2. CASE MainSleep
  BY <1>2, MainExcludes DEF MainSleep
<1>3. CASE MainSpuriousWakeup
  BY <1>3 DEF MainSpuriousWakeup
<1>4. CASE MainReacquire
  BY <1>4 DEF MainReacquire
<1>5. CASE MainDispatch
  BY <1>5, MainExcludes DEF MainDispatch
<1>6. CASE MainRestart
  BY <1>6, MainExcludes DEF MainRestart
<1>7. CASE MainClear
  BY <1>7, MainExcludes DEF MainClear
<1>8. CASE MainUnlock
  BY <1>8, MainExcludes DEF MainUnlock
<1>9. QED
  BY <1>1, <1>2, <1>3, <1>4, <1>5, <1>6, <1>7, <1>8 DEF MainStep

\* The invariant is inductive.
LEMMA NextInv == Inv /\ [Next]_vars => Inv'
<1> SUFFICES ASSUME Inv, [Next]_vars PROVE Inv'
  OBVIOUS
<1>1. CASE MainStep
  BY <1>1, MainStepInv
<1>2. ASSUME NEW h \in Handlers, HandlerStep(h) PROVE Inv'
  BY <1>2, HandlerStepInv
<1>3. CASE UNCHANGED vars
  BY <1>3
     DEF vars, Inv, TypeOK, MutexDiscipline, NoLostWakeup, NothingForgotten,
         FlagHasMessage, RestartIsAsked
<1>4. QED
  BY <1>1, <1>2, <1>3 DEF Next

\* Inv holds in every reachable state.
THEOREM Invariance == Spec => []Inv
BY InitInv, NextInv, PTL DEF Spec

-----------------------------------------------------------------------------
(* The invariants of the run "notification", for every set of handlers. *)

\* The notification state of Server.hpp keeps its types.
THEOREM TypeCorrect == Spec => []TypeOK
<1>1. Inv => TypeOK
  BY DEF Inv
<1>2. QED
  BY <1>1, Invariance, PTL

\* The notification is only touched with the mutex held, and main never locks
\* a mutex it owns.
THEOREM MutualExclusion == Spec => []MutexDiscipline
<1>1. Inv => MutexDiscipline
  BY DEF Inv
<1>2. QED
  BY <1>1, Invariance, PTL

\* Main never sleeps on a raised flag that nobody is going to signal.
THEOREM WakeupNotLost == Spec => []NoLostWakeup
<1>1. Inv => NoLostWakeup
  BY DEF Inv
<1>2. QED
  BY <1>1, Invariance, PTL

\* A crash posted before a restart begins is not cleared without a restart.
THEOREM CrashNotForgotten == Spec => []NothingForgotten
<1>1. Inv => NothingForgotten
  BY DEF Inv
<1>2. QED
  BY <1>1, Invariance, PTL

-----------------------------------------------------------------------------
(* The refinement. *)

\* The threads start in an initial state of the signal.
LEMMA InitRefines == Init => Signal!SignalInit
BY DEF Init, Signal!SignalInit

\* Setting the flag is the post, main's restart is the beginning of the
\* service, clearing the flag is its end; every other step stutters.
LEMMA StepRefines == Inv /\ [Next]_vars => [Signal!SignalNext]_Signal!signalVars
<1> SUFFICES ASSUME Inv, [Next]_vars
             PROVE  [Signal!SignalNext]_Signal!signalVars
  OBVIOUS
<1> USE DEF Signal!signalVars
<1>1. ASSUME NEW h \in Handlers, HandlerStep(h)
      PROVE  [Signal!SignalNext]_Signal!signalVars
  <2>1. CASE HandlerSetFlag(h)
    <3>1. mainPc # "clear"
      BY <2>1, HandlerExcludes DEF HandlerSetFlag, Goto, HandlerHolds, MainHolds
    <3>2. Signal!Post(h)
      BY <2>1, <3>1 DEF HandlerSetFlag, Signal!Post
    <3>3. QED
      BY <3>2 DEF Signal!SignalNext
  <2>2. CASE HandlerCrash(h)
    BY <2>2 DEF HandlerCrash
  <2>3. CASE HandlerLock(h)
    BY <2>3 DEF HandlerLock
  <2>4. CASE HandlerSetMessage(h)
    BY <2>4 DEF HandlerSetMessage
  <2>5. CASE HandlerSignal(h)
    BY <2>5 DEF HandlerSignal
  <2>6. CASE HandlerUnlock(h)
    BY <2>6 DEF HandlerUnlock
  <2>7. QED
    BY <1>1, <2>1, <2>2, <2>3, <2>4, <2>5, <2>6 DEF HandlerStep
<1>2. CASE MainStep
  <2>1. CASE MainRestart
    <3>1. Signal!Begin
      BY <2>1 DEF MainRestart, Signal!Begin, Inv, RestartIsAsked
    <3>2. QED
      BY <3>1 DEF Signal!SignalNext
  <2>2. CASE MainClear
    <3>1. Signal!Finish
      BY <2>2 DEF MainClear, Signal!Finish
    <3>2. QED
      BY <3>1 DEF Signal!SignalNext
  <2>3. CASE MainLock
    BY <2>3 DEF MainLock
  <2>4. CASE MainSleep
    BY <2>4 DEF MainSleep
  <2>5. CASE MainSpuriousWakeup
    BY <2>5 DEF MainSpuriousWakeup
  <2>6. CASE MainReacquire
    BY <2>6 DEF MainReacquire
  <2>7. CASE MainDispatch
    BY <2>7 DEF MainDispatch
  <2>8. CASE MainUnlock
    BY <2>8 DEF MainUnlock
  <2>9. QED
    BY <1>2, <2>1, <2>2, <2>3, <2>4, <2>5, <2>6, <2>7, <2>8 DEF MainStep
<1>3. CASE UNCHANGED vars
  BY <1>3 DEF vars
<1>4. QED
  BY <1>1, <1>2, <1>3 DEF Next

\* Apart from fairness, the mutex and the condition variable implement the
\* signal of RestartSignal.tla: a post is accepted only outside a restart and
\* the next restart that begins covers it.
THEOREM RefinesSignal == Spec => Signal!SignalSpec
BY InitRefines, StepRefines, Invariance, PTL DEF Spec, Signal!SignalSpec
=============================================================================
