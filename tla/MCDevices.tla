------------------------------ MODULE MCDevices ------------------------------
(* The managers of the hub, one at a time: of its modules, of a Zigbee     *)
(* bridge, of painlessMesh nodes, of WiFi devices, of 433 MHz switches, or *)
(* of the configurations of devices.  The others stand still.              *)
EXTENDS Modules, WiFiDevices, RadioDevices, DeviceConfigs, TLC

VARIABLE part

(* Three modules, one on top of the other. *)
MCModule == {"mqtt", "export", "alarm"}
MCDependencies ==
  [m \in MCModule |-> CASE m = "export" -> {"mqtt"}
                        [] m = "alarm" -> {"export"}
                        [] OTHER -> {}]

(* Both switches use the code 2. *)
MCCodesOf == ("a" :> {1, 2}) @@ ("b" :> {2, 3})
MCFileOf == (1 :> "a_b") @@ (2 :> "a_b") @@ (3 :> "c")
Valid(d, p, connects) ==
  [device_id |-> d, protocol |-> p, valid |-> TRUE, connects |-> connects]
MCConfig ==
  {Valid(d, p, TRUE) : d \in 1 .. 3, p \in {"wifi", "zigbee"}}
    \cup {Valid(1, "wifi", FALSE),
          [Valid(2, "zigbee", TRUE) EXCEPT !.valid = FALSE]}

DevicesTypeOK ==
  /\ part \in {"modules", "zigbee", "mesh", "wifi", "radio", "configs"}
  /\ ModulesTypeOK
  /\ ClockTypeOK
  /\ ZigbeeTypeOK
  /\ MeshTypeOK
  /\ WiFiTypeOK
  /\ RadioTypeOK
  /\ ConfigTypeOK

DevicesInit ==
  /\ part \in {"modules", "zigbee", "mesh", "wifi", "radio", "configs"}
  /\ part = "modules" \/ startable = [m \in Module |-> TRUE]
  /\ ModulesInit
  /\ ClockInit /\ ZigbeeInit /\ MeshInit /\ WiFiInit /\ RadioInit /\ ConfigInit

deviceVars ==
  <<clockVars, zigbeeVars, meshVars, wifiVars, radioVars, configVars>>

DeviceNext ==
  \/ /\ part = "zigbee" /\ ZigbeeNext
     /\ UNCHANGED <<meshVars, wifiVars, radioVars, configVars>>
  \/ /\ part = "mesh" /\ MeshNext
     /\ UNCHANGED <<zigbeeVars, wifiVars, radioVars, configVars>>
  \/ /\ part = "wifi" /\ WiFiNext
     /\ UNCHANGED <<zigbeeVars, meshVars, radioVars, configVars>>
  \/ /\ part = "radio" /\ RadioNext
     /\ UNCHANGED <<clockVars, zigbeeVars, meshVars, wifiVars, configVars>>
  \/ /\ part = "configs" /\ ConfigNext
     /\ UNCHANGED <<clockVars, zigbeeVars, meshVars, wifiVars, radioVars>>

DevicesNext ==
  /\ UNCHANGED part
  /\ \/ part = "modules" /\ ModulesNext /\ UNCHANGED deviceVars
     \/ DeviceNext /\ UNCHANGED modulesVars

devicesVars == <<part, modulesVars, deviceVars>>

DevicesSpec == DevicesInit /\ [][DevicesNext]_devicesVars
------------------------------------------------------------------------------
(* ZigbeeManager::loop and MeshDeviceManager::checkOfflineDevices: nobody  *)
(* is shown online who has been silent longer than the timeout and a round *)
(* of EspHub::loop, and no node offline that has not.                      *)
OnlineIsRight == ZigbeeRecent /\ MeshRecent /\ MeshKeptOnline
==============================================================================
