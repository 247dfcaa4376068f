----------------------------- MODULE MCFraming -----------------------------
(***************************************************************************)
(* Instances of Framing.tla for TLC, with the bytes of the messages.       *)
(***************************************************************************)
EXTENDS Framing

\* C R A S H and, with the NUL that sizeof counts, R E S T A R T.
Bytes ==
    [m \in Messages |->
        IF m = "CRASH" THEN <<67, 82, 65, 83, 72>>
        ELSE <<82, 69, 83, 84, 65, 82, 84, 0>>]

\* A monitor thread sends a CRASH; main sends RESTARTs.
OneEach == [s \in Senders |-> <<"CRASH">>]
Restarts == [s \in Senders |-> <<"RESTART", "RESTART", "RESTART">>]
=============================================================================
