----------------------------- MODULE MCUdpRelay -----------------------------
(***************************************************************************)
(* Instances of UdpRelay.tla for TLC.  A is a client, on two ports one     *)
(* after the other when its port is dynamic; B is a server.                *)
(***************************************************************************)
EXTENDS UdpRelay

OneDynamic == [s \in Sides |-> IF s = "A" THEN Dynamic ELSE 5000]
SourcePorts == [s \in Sides |-> IF s = "A" THEN {41000, 42000} ELSE {5000}]
=============================================================================
