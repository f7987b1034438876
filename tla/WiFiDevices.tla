----------------------------- MODULE WiFiDevices -----------------------------
(***************************************************************************)
(* WiFiDeviceManager: devices that are asked over HTTP or spoken to        *)
(* through MQTT topics, and what a read or a write of an endpoint makes of *)
(* their answer.                                                           *)
(***************************************************************************)
EXTENDS MeshDevices

CONSTANT WiFiDevice

VARIABLES
  wifi,         \* the device table: also how the device is reached
  answered      \* (history) ticks since the device's last exchange

wifiVars == <<wifi, answered>>

ConnectionType == {"HTTP", "MQTT"}

(* What a request comes to: the value that was asked for, a good answer    *)
(* with no body or with none of that value in it, or no good answer in the *)
(* five seconds the request waits.                                         *)
Answer == {"value", "empty", "other", "none"}
Good == Answer \ {"none"}

Reached(how, online, at) ==
  [connectionType |-> how, isOnline |-> online, lastSeen |-> at]

WiFiTypeOK ==
  /\ wifi \in [WiFiDevice ->
       [connectionType : ConnectionType, isOnline : BOOLEAN,
        lastSeen : 0 .. Wrap - 1] \cup {NoDevice}]
  /\ answered \in [WiFiDevice -> 0 .. MaxAge]

WiFiInit ==
  /\ wifi = [d \in WiFiDevice |-> NoDevice]
  /\ answered = [d \in WiFiDevice |-> MaxAge]
------------------------------------------------------------------------------
(* The host may be missing: then nothing is stored. *)
initializeWiFi(d, how, host) ==
  /\ wifi' = IF host THEN [wifi EXCEPT ![d] = Reached(how, FALSE, 0)]
                     ELSE wifi
  /\ UNCHANGED <<answered, clockVars>>

removeWiFi(d) ==
  /\ d \in Known(wifi)
  /\ wifi' = [wifi EXCEPT ![d] = NoDevice]
  /\ UNCHANGED <<answered, clockVars>>

Up(d) == /\ wifi' = [wifi EXCEPT ![d].isOnline = TRUE, ![d].lastSeen = millis]
         /\ answered' = [answered EXCEPT ![d] = 0]
Down(d) == /\ wifi' = [wifi EXCEPT ![d].isOnline = FALSE]
           /\ UNCHANGED answered

(* A good answer without the value leaves the flag as it is (and returns   *)
(* success with a value of its own).                                       *)
readHTTP(d, answer) ==
  /\ d \in Known(wifi) /\ wifi[d].connectionType = "HTTP"
  /\ CASE answer = "value" -> Up(d)
       [] answer = "none" -> Down(d)
       [] OTHER -> UNCHANGED <<wifi, answered>>
  /\ UNCHANGED clockVars

(* With a topic configured it succeeds; nothing is ever received there.    *)
readMQTT(d, topic) ==
  /\ d \in Known(wifi) /\ wifi[d].connectionType = "MQTT"
  /\ IF topic THEN UNCHANGED <<wifi, answered>> ELSE Down(d)
  /\ UNCHANGED clockVars

(* Over HTTP a write needs a good answer, over MQTT a topic and the MQTT   *)
(* manager, which EspHub does not give it.                                 *)
writeWiFi(d, answer) ==
  /\ d \in Known(wifi)
  /\ IF wifi[d].connectionType = "HTTP" /\ answer \in Good
     THEN Up(d) ELSE Down(d)
  /\ UNCHANGED clockVars

isWiFiOnline(d) ==
  /\ d \in Known(wifi)
  /\ wifi' = [wifi EXCEPT ![d] = Checked(@)]
  /\ UNCHANGED <<answered, clockVars>>

(* loop looks at no device: only a question finds one silent. *)
wifiLoop == Round /\ UNCHANGED wifiVars

WiFiTick ==
  /\ Passes
  /\ answered' = [d \in WiFiDevice |-> Older(answered[d])]
  /\ UNCHANGED wifi

WiFiNext ==
  \/ \E d \in WiFiDevice :
       \/ \E how \in ConnectionType, host \in BOOLEAN :
            initializeWiFi(d, how, host)
       \/ removeWiFi(d)
       \/ \E answer \in Answer : readHTTP(d, answer) \/ writeWiFi(d, answer)
       \/ \E topic \in BOOLEAN : readMQTT(d, topic)
       \/ isWiFiOnline(d)
  \/ wifiLoop
  \/ WiFiTick
==============================================================================
