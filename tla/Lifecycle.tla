------------------------------ MODULE Lifecycle ------------------------------
(***************************************************************************)
(* What PaqtoNode promises about start(), stop() and network_changed(): one *)
(* transition at a time, the network resources come up only while the node  *)
(* starts, and a stopped node holds nothing.                                *)
(***************************************************************************)
CONSTANT Resources, Startup  \* Startup: those that only a start may bring up
VARIABLES phase, held

Phases == {"stopped", "starting", "running", "stopping"}

Init == phase = "stopped" /\ held = {}

\* A transition goes on, or connections and tasks come and go.
Work ==
  /\ phase # "stopped" /\ phase' = phase
  /\ held' \in SUBSET Resources
  /\ phase # "starting" => held' \cap Startup \subseteq held

Begin   == phase = "stopped" /\ phase' = "starting" /\ held' \in SUBSET Startup
Refused == phase = "stopped" /\ phase' = "stopping" /\ held' = {}
GiveUp  == phase = "starting" /\ phase' = "stopping" /\ held' \subseteq held \cup Startup
Started == phase = "starting" /\ phase' = "running" /\ Startup \subseteq held'
Stop    == phase = "running" /\ phase' = "stopping" /\ held' \subseteq held
Release == phase = "stopping" /\ phase' \in {"stopped", "starting"}
           /\ IF phase' = "stopped" THEN held' = {} ELSE held' \subseteq Startup

Next == Work \/ Begin \/ Refused \/ GiveUp \/ Started \/ Stop \/ Release

Spec == Init /\ [][Next]_<<phase, held>>
=============================================================================
