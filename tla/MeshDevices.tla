----------------------------- MODULE MeshDevices -----------------------------
(***************************************************************************)
(* The nodes of painlessMesh as the hub knows them: the table of           *)
(* MeshDeviceManager, filled by EspHub::receivedCallback and looked        *)
(* through in every round of EspHub::loop.                                 *)
(***************************************************************************)
EXTENDS ZigbeeDevices

CONSTANT Node

VARIABLES
  legacyDevices,    \* the node table, NoDevice if never registered
  mainProgram,      \* is there a PLC program "main_program"?
  said              \* (history) ticks since the node's last sign of life

meshVars == <<legacyDevices, mainProgram, said>>

MeshTypeOK ==
  /\ legacyDevices \in Table(Node)
  /\ mainProgram \in BOOLEAN
  /\ said \in [Node -> 0 .. MaxAge]

MeshInit ==
  /\ legacyDevices = [n \in Node |-> NoDevice]
  /\ mainProgram = FALSE
  /\ said = [n \in Node |-> MaxAge]
------------------------------------------------------------------------------
(* A node that is known already, say one that has restarted, is left as it *)
(* is.                                                                     *)
addDevice(n) ==
  /\ legacyDevices' = [legacyDevices EXCEPT ![n] =
       IF n \in Known(legacyDevices) THEN @ ELSE Seen(TRUE, millis)]
  /\ said' = [said EXCEPT ![n] =
       IF n \in Known(legacyDevices) THEN @ ELSE 0]
  /\ UNCHANGED <<mainProgram, clockVars>>

(* As if only the flag of a node that was offline were set. *)
updateDeviceOnline(n) ==
  legacyDevices' = [legacyDevices EXCEPT ![n] =
    IF n \in Known(legacyDevices) /\ ~@.isOnline
    THEN Seen(TRUE, millis) ELSE @]

updateDeviceLastSeen(n) ==
  legacyDevices' = [legacyDevices EXCEPT ![n] =
    IF n \in Known(legacyDevices) THEN Seen(TRUE, millis) ELSE @]

Heartbeat(n) ==
  /\ updateDeviceLastSeen(n)
  /\ said' = [said EXCEPT ![n] = 0]
  /\ UNCHANGED <<mainProgram, clockVars>>

(* A value for the main program; without one it is no sign of life either. *)
SensorData(n) ==
  /\ IF mainProgram
     THEN /\ updateDeviceLastSeen(n)
          /\ said' = [said EXCEPT ![n] = 0]
     ELSE UNCHANGED <<legacyDevices, said>>
  /\ UNCHANGED <<mainProgram, clockVars>>

SetMainProgram ==
  /\ mainProgram' = ~mainProgram
  /\ UNCHANGED <<legacyDevices, said, clockVars>>

checkOfflineDevices ==
  /\ Round
  /\ legacyDevices' = [n \in Node |->
       IF n \in Known(legacyDevices) /\ Silent(legacyDevices[n].lastSeen)
       THEN [legacyDevices[n] EXCEPT !.isOnline = FALSE]
       ELSE legacyDevices[n]]
  /\ UNCHANGED <<mainProgram, said>>

MeshTick ==
  /\ Passes
  /\ said' = [n \in Node |-> Older(said[n])]
  /\ UNCHANGED <<legacyDevices, mainProgram>>

MeshNext ==
  \/ \E n \in Node : addDevice(n) \/ Heartbeat(n) \/ SensorData(n)
  \/ SetMainProgram
  \/ checkOfflineDevices
  \/ MeshTick
------------------------------------------------------------------------------
(* checkOfflineDevices: a node shown online has given a sign of life       *)
(* within the timeout and a round of the loop.                             *)
MeshRecent ==
  \A n \in Known(legacyDevices) :
    legacyDevices[n].isOnline => said[n] <= OfflineTimeout + MaxGap

(* A registered node that is not silent longer than the timeout is shown   *)
(* online, and it is shown offline for no other reason.                    *)
MeshKeptOnline ==
  \A n \in Known(legacyDevices) :
    said[n] <= OfflineTimeout => legacyDevices[n].isOnline
==============================================================================
