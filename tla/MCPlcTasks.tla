----------------------------- MODULE MCPlcTasks ------------------------------
(* Two programs, room for two engine tasks. *)
EXTENDS PlcTasks

HubOnly == {"hub"}
HubAndWeb == {"hub", "web"}
==============================================================================
