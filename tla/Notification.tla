---------------------------- MODULE Notification ----------------------------
(***************************************************************************)
(* The restart notification of the server launcher                         *)
(* (luncher/server/src/Server.cpp): one handler thread per client posts    *)
(* into _notification / _notificationMessage under _notificatioMutex and   *)
(* signals _notificationCond; the main thread waits on the condition,      *)
(* restarts the proxy and the clients with the mutex held, and clears the  *)
(* notification.                                                           *)
(*                                                                         *)
(* One action per statement that touches the shared state.  What the       *)
(* restart does is in Launcher.tla; here it is one step of main.           *)
(***************************************************************************)
CONSTANTS
    Handlers,             \* the handle_client_connection threads
    Main,                 \* the main thread
    NoThread              \* "nobody": the value of a free mutex

ASSUME ThreadsDistinct ==
    /\ Main \notin Handlers
    /\ NoThread \notin Handlers
    /\ Main # NoThread

VARIABLES
    mutex,                \* the thread that owns _notificatioMutex
    notification,         \* _notification
    notificationMessage,  \* _notificationMessage
    mainPc,               \* where the main thread is
    handlerPc,            \* where each handler thread is
    pending               \* history: handlers posted since the last restart began

vars == <<mutex, notification, notificationMessage, mainPc, handlerPc, pending>>

Messages == {"", "RESTART"}

\* Where main holds the mutex: it tests the flag, dispatches, restarts, clears
\* and unlocks.  In "asleep" and "woken" it is inside pthread_cond_wait and
\* does not hold it.
MainHolds == {"test", "restart", "clear", "unlock"}
MainPcs == MainHolds \cup {"lock", "asleep", "woken"}

HandlerHolds == {"message", "flag", "signal", "unlock"}
HandlerPcs == HandlerHolds \cup {"recv", "lock"}

Init ==
    /\ mutex = NoThread
    /\ notification = FALSE
    /\ notificationMessage = ""
    /\ mainPc = "lock"
    /\ handlerPc = [h \in Handlers |-> "recv"]
    /\ pending = {}

-----------------------------------------------------------------------------
(* The handler threads. *)

Goto(h, from, to) ==
    /\ handlerPc[h] = from
    /\ handlerPc' = [handlerPc EXCEPT ![h] = to]

\* recv_message has returned a CRASH; every other outcome loops back to recv.
HandlerCrash(h) ==
    /\ Goto(h, "recv", "lock")
    /\ UNCHANGED <<mutex, notification, notificationMessage, mainPc, pending>>

\* Mutated form: the handler does not lock the mutex.
HandlerLockSkipped(h) ==
    /\ Goto(h, "lock", "message")
    /\ mutex' = h
    /\ UNCHANGED <<notification, notificationMessage, mainPc, pending>>

HandlerLock(h) ==
    /\ Goto(h, "lock", "message")
    /\ mutex = NoThread
    /\ mutex' = h
    /\ UNCHANGED <<notification, notificationMessage, mainPc, pending>>

\* Mutated form: the message that was received is posted as it is.
HandlerSetMessageReceived(h) ==
    /\ Goto(h, "message", "flag")
    /\ notificationMessage' = "CRASH"
    /\ UNCHANGED <<mutex, notification, mainPc, pending>>

HandlerSetMessage(h) ==
    /\ Goto(h, "message", "flag")
    /\ notificationMessage' = "RESTART"
    /\ UNCHANGED <<mutex, notification, mainPc, pending>>

HandlerSetFlag(h) ==
    /\ Goto(h, "flag", "signal")
    /\ notification' = TRUE
    /\ pending' = pending \cup {h}
    /\ UNCHANGED <<mutex, notificationMessage, mainPc>>

\* Mutated form: the condition is not signalled.
HandlerSignalMissing(h) ==
    /\ Goto(h, "signal", "unlock")
    /\ UNCHANGED <<mutex, notification, notificationMessage, mainPc, pending>>

\* pthread_cond_signal wakes main if it sleeps, and is lost otherwise.
HandlerSignal(h) ==
    /\ Goto(h, "signal", "unlock")
    /\ mainPc' = IF mainPc = "asleep" THEN "woken" ELSE mainPc
    /\ UNCHANGED <<mutex, notification, notificationMessage, pending>>

\* The thread then sleeps for a second and receives again.
HandlerUnlock(h) ==
    /\ Goto(h, "unlock", "recv")
    /\ mutex' = NoThread
    /\ UNCHANGED <<notification, notificationMessage, mainPc, pending>>

-----------------------------------------------------------------------------
(* The main thread. *)

MainLock ==
    /\ mainPc = "lock"
    /\ mutex = NoThread
    /\ mutex' = Main
    /\ mainPc' = "test"
    /\ UNCHANGED <<notification, notificationMessage, handlerPc, pending>>

\* Mutated form: pthread_cond_wait without the test of the flag.
MainSleepUntested ==
    /\ mainPc = "test"
    /\ mutex' = NoThread
    /\ mainPc' = "asleep"
    /\ UNCHANGED <<notification, notificationMessage, handlerPc, pending>>

\* pthread_cond_wait releases the mutex and goes to sleep in one step.
MainSleep ==
    /\ mainPc = "test"
    /\ notification = FALSE
    /\ mutex' = NoThread
    /\ mainPc' = "asleep"
    /\ UNCHANGED <<notification, notificationMessage, handlerPc, pending>>

\* POSIX lets pthread_cond_wait return without a signal.
MainSpuriousWakeup ==
    /\ mainPc = "asleep"
    /\ mainPc' = "woken"
    /\ UNCHANGED <<mutex, notification, notificationMessage, handlerPc, pending>>

\* pthread_cond_wait returns once it owns the mutex again.
MainReacquire ==
    /\ mainPc = "woken"
    /\ mutex = NoThread
    /\ mutex' = Main
    /\ mainPc' = "test"
    /\ UNCHANGED <<notification, notificationMessage, handlerPc, pending>>

\* Out of the wait loop.  Only the RESTART branch unlocks the mutex: with any
\* other message main goes round the outer loop and locks it a second time.
MainDispatch ==
    /\ mainPc = "test"
    /\ notification
    /\ mainPc' = IF notificationMessage = "RESTART" THEN "restart" ELSE "lock"
    /\ UNCHANGED <<mutex, notification, notificationMessage, handlerPc, pending>>

\* Mutated form: the mutex is given up for the time of the restart.
MainRestartUnlocked ==
    /\ mainPc = "restart"
    /\ mainPc' = "clear"
    /\ mutex' = NoThread
    /\ pending' = {}
    /\ UNCHANGED <<notification, notificationMessage, handlerPc>>

\* stop_process, launchEntity and the RESTART to every client.
MainRestart ==
    /\ mainPc = "restart"
    /\ mainPc' = "clear"
    /\ pending' = {}
    /\ UNCHANGED <<mutex, notification, notificationMessage, handlerPc>>

MainClear ==
    /\ mainPc = "clear"
    /\ notificationMessage' = ""
    /\ notification' = FALSE
    /\ mainPc' = "unlock"
    /\ UNCHANGED <<mutex, handlerPc, pending>>

MainUnlock ==
    /\ mainPc = "unlock"
    /\ mutex' = NoThread
    /\ mainPc' = "lock"
    /\ UNCHANGED <<notification, notificationMessage, handlerPc, pending>>

-----------------------------------------------------------------------------
HandlerStep(h) ==
    \/ HandlerCrash(h)
    \/ HandlerLock(h)
    \/ HandlerSetMessage(h)
    \/ HandlerSetFlag(h)
    \/ HandlerSignal(h)
    \/ HandlerUnlock(h)

MainStep ==
    \/ MainLock
    \/ MainSleep
    \/ MainSpuriousWakeup
    \/ MainReacquire
    \/ MainDispatch
    \/ MainRestart
    \/ MainClear
    \/ MainUnlock

Next == MainStep \/ \E h \in Handlers : HandlerStep(h)

Spec == Init /\ [][Next]_vars

\* Every thread keeps running.  A lock is granted to a thread that asks for it
\* again and again: a handler sleeps a second between two locks and main gives
\* the mutex up in pthread_cond_wait, so nobody can hold a waiter off for ever.
\* Nothing obliges a client to crash, nor main to wake up without a signal.
Fairness ==
    /\ SF_vars(MainLock)
    /\ SF_vars(MainReacquire)
    /\ WF_vars(MainSleep \/ MainDispatch \/ MainRestart \/ MainClear \/ MainUnlock)
    /\ \A h \in Handlers :
        /\ SF_vars(HandlerLock(h))
        /\ WF_vars(HandlerSetMessage(h) \/ HandlerSetFlag(h)
                     \/ HandlerSignal(h) \/ HandlerUnlock(h))

FairSpec == Spec /\ Fairness

-----------------------------------------------------------------------------
(* Properties. *)

\* Type invariant of the notification state of Server.hpp.
TypeOK ==
    /\ mutex \in Handlers \cup {Main, NoThread}
    /\ notification \in BOOLEAN
    /\ notificationMessage \in Messages
    /\ mainPc \in MainPcs
    /\ handlerPc \in [Handlers -> HandlerPcs]
    /\ pending \subseteq Handlers

\* The mutex is owned by exactly the thread whose code is between its lock and
\* its unlock: at most one thread reads or writes the notification at a time,
\* and main never comes back to pthread_mutex_lock with the mutex in its hands
\* (it would, and block for ever, if the flag were set without the message).
MutexDiscipline ==
    /\ mutex = Main <=> mainPc \in MainHolds
    /\ \A h \in Handlers : mutex = h <=> handlerPc[h] \in HandlerHolds

\* When main sleeps although a restart has been asked for, the handler that
\* asked is still about to signal: no wake-up is lost between the test of the
\* flag and the sleep.
NoLostWakeup ==
    mainPc = "asleep" /\ notification => \E h \in Handlers : handlerPc[h] = "signal"

\* A crash a handler has posted is never wiped out: as long as no restart has
\* begun since the post, the flag is up and the message is RESTART.
NothingForgotten ==
    pending # {} => notification /\ notificationMessage = "RESTART"

\* A handler that has received a CRASH gets main to carry out a restart.
CrashServed ==
    \A h \in Handlers : handlerPc[h] = "lock" ~> mainPc = "clear"

\* The notification implements the signal that Launcher.tla relies on.
Signal ==
    INSTANCE RestartSignal
        WITH Posters <- Handlers,
             requested <- notification,
             serving <- mainPc = "clear"

ImplementsSignal == Signal!SignalFairSpec
=============================================================================
