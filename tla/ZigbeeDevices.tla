---------------------------- MODULE ZigbeeDevices ----------------------------
(***************************************************************************)
(* ZigbeeManager: the devices of a Zigbee2MQTT bridge, their online flags, *)
(* and the window in which the bridge lets new devices join.  A device has *)
(* its own ieee address and friendly name.                                 *)
(***************************************************************************)
EXTENDS HubClock

CONSTANTS
  ZigbeeDevice,
  Durations         \* of enablePairing, in ticks

ASSUME PairingAssumption == Durations \subseteq Nat

VARIABLES
  zigbee,           \* the device table, NoDevice if not initialised
  bridgeOnline,
  pairingEnabled, pairingEndTime,
  heard,            \* (history) ticks since the device's last sign of life
  pairing           \* (history) [age, duration] of the window

zigbeeVars ==
  <<zigbee, bridgeOnline, pairingEnabled, pairingEndTime, heard, pairing>>

NoDevice == [isOnline |-> FALSE]
Seen(online, at) == [isOnline |-> online, lastSeen |-> at]
Table(Devices) ==
  [Devices -> [isOnline : BOOLEAN, lastSeen : 0 .. Wrap - 1] \cup {NoDevice}]
Known(table) == {d \in DOMAIN table : table[d] # NoDevice}

ZigbeeTypeOK ==
  /\ zigbee \in Table(ZigbeeDevice)
  /\ bridgeOnline \in BOOLEAN
  /\ pairingEnabled \in BOOLEAN
  /\ pairingEndTime \in 0 .. Wrap - 1
  /\ heard \in [ZigbeeDevice -> 0 .. MaxAge]
  /\ pairing \in [age : 0 .. MaxAge, duration : Durations \cup {0}]

ZigbeeInit ==
  /\ zigbee = [d \in ZigbeeDevice |-> NoDevice]
  /\ bridgeOnline = FALSE
  /\ pairingEnabled = FALSE
  /\ pairingEndTime = 0
  /\ heard = [d \in ZigbeeDevice |-> MaxAge]
  /\ pairing = [age |-> 0, duration |-> 0]

window == <<pairingEnabled, pairingEndTime, pairing>>
------------------------------------------------------------------------------
(* Also of a device that is known: its status starts afresh. *)
initializeZigbee(d) ==
  /\ zigbee' = [zigbee EXCEPT ![d] = Seen(FALSE, 0)]
  /\ heard' = [heard EXCEPT ![d] = MaxAge]
  /\ UNCHANGED <<bridgeOnline, window, clockVars>>

removeZigbee(d) ==
  /\ d \in Known(zigbee)
  /\ zigbee' = [zigbee EXCEPT ![d] = NoDevice]
  /\ UNCHANGED <<bridgeOnline, heard, window, clockVars>>

(* An update from one device, or the bridge's list of several: the devices *)
(* of the list count as seen.                                              *)
handleMqttMessage(listed) ==
  /\ zigbee' = [d \in ZigbeeDevice |->
       IF d \in listed \cap Known(zigbee) THEN Seen(TRUE, millis)
                                          ELSE zigbee[d]]
  /\ heard' = [d \in ZigbeeDevice |-> IF d \in listed THEN 0 ELSE heard[d]]
  /\ UNCHANGED <<bridgeOnline, window, clockVars>>

(* A bridge that goes away takes its devices with it. *)
handleBridgeState(online) ==
  /\ bridgeOnline' = online
  /\ zigbee' = IF bridgeOnline /\ ~online
               THEN [d \in ZigbeeDevice |->
                       [zigbee[d] EXCEPT !.isOnline = FALSE]]
               ELSE zigbee
  /\ UNCHANGED <<heard, window, clockVars>>

(* The flag falls when the silence is looked at; a device never seen has   *)
(* lastSeen = 0.                                                           *)
Checked(device) ==
  IF device # NoDevice /\ device.isOnline /\ device.lastSeen > 0
     /\ Silent(device.lastSeen)
  THEN [device EXCEPT !.isOnline = FALSE] ELSE device

isZigbeeOnline(d) ==
  /\ d \in Known(zigbee)
  /\ zigbee' = [zigbee EXCEPT ![d] = Checked(@)]
  /\ UNCHANGED <<bridgeOnline, heard, window, clockVars>>

(* As if the end were kept in more bits than millis() has. *)
EndWide(duration) == millis + duration

End(duration) == (millis + duration) % Wrap

enablePairing(duration) ==
  /\ pairingEnabled' = TRUE
  /\ pairingEndTime' = End(duration)
  /\ pairing' = [age |-> 0, duration |-> duration]
  /\ UNCHANGED <<zigbee, bridgeOnline, heard, clockVars>>

disablePairing ==
  /\ pairingEnabled
  /\ pairingEnabled' = FALSE
  /\ UNCHANGED <<zigbee, bridgeOnline, pairingEndTime, heard, pairing,
                 clockVars>>

(* As if the window were closed only while the bridge is there. *)
zigbeeLoopWithBridge ==
  /\ Round
  /\ pairingEnabled' =
       (pairingEnabled /\ ~(bridgeOnline /\ millis > pairingEndTime))
  /\ zigbee' = [d \in ZigbeeDevice |-> Checked(zigbee[d])]
  /\ UNCHANGED <<bridgeOnline, pairingEndTime, heard, pairing>>

zigbeeLoop ==
  /\ Round
  /\ pairingEnabled' = (pairingEnabled /\ ~(millis > pairingEndTime))
  /\ zigbee' = [d \in ZigbeeDevice |-> Checked(zigbee[d])]
  /\ UNCHANGED <<bridgeOnline, pairingEndTime, heard, pairing>>

ZigbeeTick ==
  /\ Passes
  /\ heard' = [d \in ZigbeeDevice |-> Older(heard[d])]
  /\ pairing' = [pairing EXCEPT !.age = Older(@)]
  /\ UNCHANGED <<zigbee, bridgeOnline, pairingEnabled, pairingEndTime>>

ZigbeeNext ==
  \/ \E d \in ZigbeeDevice :
       initializeZigbee(d) \/ removeZigbee(d) \/ isZigbeeOnline(d)
  \/ \E listed \in SUBSET ZigbeeDevice : handleMqttMessage(listed)
  \/ \E online \in BOOLEAN : handleBridgeState(online)
  \/ \E duration \in Durations : enablePairing(duration)
  \/ disablePairing
  \/ zigbeeLoop
  \/ ZigbeeTick
------------------------------------------------------------------------------
(* zigbeeLoop: a device shown online has given a sign of life within the   *)
(* timeout and a round.  Left out: a device seen exactly when millis() was *)
(* 0, whose silence nobody looks at.                                       *)
ZigbeeRecent ==
  \A d \in Known(zigbee) :
    zigbee[d].isOnline /\ zigbee[d].lastSeen > 0 =>
      heard[d] <= OfflineTimeout + MaxGap

(* A device that keeps talking is not shown offline: it takes a silence    *)
(* longer than the timeout, whatever millis() does meanwhile, the bridge   *)
(* going away, or a new configuration of the device.                       *)
ZigbeeDropped(d) ==
  zigbee[d] # NoDevice /\ zigbee[d].isOnline /\ ~zigbee[d]'.isOnline

ZigbeeKeptOnline ==
  [][\A d \in ZigbeeDevice :
       ZigbeeDropped(d) =>
         \/ heard[d] > OfflineTimeout
         \/ bridgeOnline /\ ~bridgeOnline'
         \/ zigbee[d]' \in {NoDevice, Seen(FALSE, 0)}
    ]_<<zigbeeVars, clockVars>>

(* enablePairing: strangers may join no longer than the duration asked for *)
(* and a round.  Left out: a window that ends within a round of the wrap   *)
(* of millis(), which then stays open until millis() comes round again.    *)
PairingEnds ==
  pairingEnabled /\ pairingEndTime + MaxGap < Wrap =>
    pairing.age <= pairing.duration + MaxGap
==============================================================================
