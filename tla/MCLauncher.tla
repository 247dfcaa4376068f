----------------------------- MODULE MCLauncher -----------------------------
(***************************************************************************)
(* Instances of Launcher.tla for TLC.  An entity has a launcher of its     *)
(* own, as the commander deploys them (one container, one launcher and one *)
(* IP per entity), and is named by it; LauncherLive has a second launcher  *)
(* whose IP is no entity's.                                                *)
(***************************************************************************)
EXTENDS Launcher, TLC

OwnContainer == [e \in Entities |-> e]

\* Two entities that have the IP of the same launcher.
OneContainer == [e \in Entities |-> CHOOSE c \in Clients : TRUE]

\* Launchers and process numbers are interchangeable.
Interchangeable == Permutations(Clients) \cup Permutations(Pids)
=============================================================================
