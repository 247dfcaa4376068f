--------------------------- MODULE RestartSignal ---------------------------
(***************************************************************************)
(* What the notification of the server launcher promises to its users: a   *)
(* thread that posts a crash is covered by a restart that begins after the *)
(* post.  Posts made before a restart begins are merged into it; no post   *)
(* is accepted while a restart is being carried out.                       *)
(*                                                                         *)
(* Notification.tla implements this specification with a mutex and a       *)
(* condition variable; Launcher.tla uses it as the server's signal.        *)
(***************************************************************************)
CONSTANT Posters          \* the threads that report crashes

VARIABLES
    requested,            \* a restart has been asked for and has not ended
    serving,              \* a restart is being carried out
    pending               \* the posters no restart has begun for yet

signalVars == <<requested, serving, pending>>

SignalTypeOK ==
    /\ requested \in BOOLEAN
    /\ serving \in BOOLEAN
    /\ pending \subseteq Posters

SignalInit ==
    /\ requested = FALSE
    /\ serving = FALSE
    /\ pending = {}

\* A thread asks for a restart.
Post(h) ==
    /\ ~serving
    /\ requested' = TRUE
    /\ pending' = pending \cup {h}
    /\ UNCHANGED serving

\* A restart begins: it covers every post made so far.
Begin ==
    /\ requested
    /\ ~serving
    /\ serving' = TRUE
    /\ pending' = {}
    /\ UNCHANGED requested

\* The restart is over and the next one can be asked for.
Finish ==
    /\ serving
    /\ serving' = FALSE
    /\ requested' = FALSE
    /\ UNCHANGED pending

SignalNext ==
    \/ \E h \in Posters : Post(h)
    \/ Begin
    \/ Finish

SignalSpec == SignalInit /\ [][SignalNext]_signalVars

SignalFairSpec ==
    /\ SignalSpec
    /\ WF_signalVars(Begin)
    /\ WF_signalVars(Finish)
=============================================================================
